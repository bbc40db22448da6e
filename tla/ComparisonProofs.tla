-------------------------- MODULE ComparisonProofs --------------------------
(* Comparison, for any number of browsers and any documents.  First its       *)
(* control: the slot, the end of a stream and the calls after a cancellation; *)
(* what the worker computes stays opaque there.  Then what it computes: the   *)
(* passages, the pairs, the findings and what a report may say of them.       *)
EXTENDS Comparison, SequenceTheorems, FiniteSetTheorems, NaturalsInduction,
        WellFoundedInduction, TLAPS

Events == {None, "progress", "result", "error"}
Labels == {"idle", "begin", "embed", "pair", "call", "called", "repair", "repairing",
           "ending", "release"}
Verdicts == {"result", "error"}

(* Who holds the slot, and what an open stream says of its worker.            *)
Alone ==
    /\ \A c, d \in CLIENTS : Holds(c) /\ Holds(d) => c = d
    /\ slot = 1 => \A c \in CLIENTS : ~Holds(c)
    /\ slot = 0 => \E c \in CLIENTS : Holds(c)
    /\ \A c \in CLIENTS : stream[c] \in {"none", "ready"} => pc[c] = "idle"

(* A call begun late is the last thing the worker does but wind up.           *)
LateOK ==
    \A c \in CLIENTS :
        /\ stream[c] \in {"ready", "open"} => ~cancelled[c]
        /\ late[c] \in {0, 1}
        /\ late[c] = 1 => cancelled[c] /\ pc[c] \notin {"begin", "embed", "call", "repair"}

(* The queue of an open stream holds the end last, and a verdict before it;   *)
(* what has left the queue is shown.                                          *)
Endless(m) == \A i \in 1..Len(m) : m[i] # None
Closing(m, last) ==
    /\ m # <<>> /\ m[Len(m)] = None
    /\ \A i \in 1..(Len(m) - 1) : m[i] # None
    /\ IF Len(m) = 1 THEN last \in Verdicts ELSE m[Len(m) - 1] \in Verdicts
Saying(c) ==
    /\ stream[c] = "ready" => messages[c] = <<>>
    /\ stream[c] = "open" /\ pc[c] \notin {"ending", "release", "idle"} => Endless(messages[c])
    /\ stream[c] = "open" /\ pc[c] = "ending" =>
        /\ Endless(messages[c])
        /\ IF messages[c] = <<>> THEN shown[c] \in Verdicts
           ELSE messages[c][Len(messages[c])] \in Verdicts
    /\ stream[c] = "open" /\ pc[c] \in {"release", "idle"} => Closing(messages[c], shown[c])
    /\ stream[c] = "ended" /\ here[c] => shown[c] \in Ends
VerdictOK == \A c \in CLIENTS : Saying(c)

IInv == TypeOK /\ Alone /\ LateOK /\ VerdictOK

-----------------------------------------------------------------------------
(* What every step of a worker does to the control.                           *)
Moves(c, from, to) == pc[c] \in from /\ pc' = [pc EXCEPT ![c] = to]
WorkStep(c) ==
    /\ UNCHANGED control
    /\ \/ /\ \E to \in {"pair", "embed", "call"} : Moves(c, {"begin", "pair"}, to)
          /\ ~cancelled[c] /\ UNCHANGED late
          /\ messages' = [messages EXCEPT ![c] = Append(@, "progress")]
       \/ /\ \E to \in {"pair", "repair"} : Moves(c, {"embed", "called", "repairing"}, to)
                                             /\ (to = "repair" => ~cancelled[c])
          /\ UNCHANGED <<late, messages>>
       \/ /\ \/ Moves(c, {"call"}, "called")
             \/ Moves(c, {"repair"}, "repairing") /\ ~cancelled[c]
          /\ late' = [late EXCEPT ![c] = @ + (IF cancelled[c] THEN 1 ELSE 0)]
          /\ UNCHANGED messages
       \/ /\ Moves(c, Labels \ {"idle", "ending", "release"}, "ending") /\ cancelled[c]
          /\ UNCHANGED <<late, messages>>
       \/ /\ Moves(c, {"begin", "pair"}, "ending") /\ UNCHANGED late
          /\ \E said \in Verdicts : messages' = [messages EXCEPT ![c] =
                                    IF cancelled[c] THEN @ ELSE Append(@, said)]
       \/ /\ Moves(c, {"ending"}, "release") /\ UNCHANGED late
          /\ messages' = [messages EXCEPT ![c] = Append(@, None)]

(* A step of the worker moves its program counter as the code's order allows. *)
LEMMA WorkControl ==
    ASSUME TypeOK, NEW c \in CLIENTS, Work(c)
    PROVE  WorkStep(c)
<1> USE DEF Quietly, Goes, Becomes, Cancels, Raises, Tells, Stopped, emit, Moves, Verdicts
<1> UNCHANGED control
  BY DEF Work
<1> pc[c] \in Labels /\ late \in [CLIENTS -> Nat] /\ cancelled \in [CLIENTS -> BOOLEAN]
  BY DEF TypeOK, Labels
<1>1. CASE Begin(c)
  BY <1>1 DEF Begin, WorkStep, Labels, TypeOK
<1>2. CASE Embed(c)
  BY <1>2 DEF Embed, WorkStep, Labels, TypeOK
<1>3. CASE Pair(c)
  BY <1>3 DEF Pair, WorkStep, Labels, TypeOK
<1>4. CASE Call(c)
  BY <1>4 DEF Call, BeginsCall, WorkStep
<1>5. CASE Answer(c)
  BY <1>5 DEF Answer, WorkStep, Labels
<1>6. CASE Repair(c)
  BY <1>6 DEF Repair, BeginsCall, WorkStep, Labels
<1>7. CASE RepairAnswer(c)
  BY <1>7 DEF RepairAnswer, WorkStep, Labels
<1>8. CASE Report(c)
  BY <1>8 DEF Report, WorkStep, Labels, TypeOK
<1>9. CASE End(c)
  BY <1>9 DEF End, Ended, WorkStep, TypeOK
<1> QED
  BY <1>1, <1>2, <1>3, <1>4, <1>5, <1>6, <1>7, <1>8, <1>9 DEF Work

(* Every step is one client's, or nothing changes.                            *)
LEMMA Steps ==
    ASSUME TypeOK, [Next]_vars
    PROVE  \/ UNCHANGED vars
           \/ \E c \in CLIENTS :
                Run(c) \/ Start(c) \/ Leave(c) \/ Poll(c) \/ WorkStep(c) \/ Release(c)
<1>1. CASE Next
  <2> PICK c \in CLIENTS : Refuse(c) \/ Run(c) \/ Start(c) \/ Leave(c) \/ Poll(c) \/ Worker(c)
    BY <1>1 DEF Next
  <2>1. CASE Refuse(c)
    BY <2>1 DEF Refuse
  <2>2. CASE Worker(c)
    BY <2>2, WorkControl DEF Worker
  <2> QED
    BY <2>1, <2>2
<1> QED
  BY <1>1

-----------------------------------------------------------------------------
(* What is read from a queue and put on it.                                   *)
LEMMA HeadAndTail ==
    ASSUME NEW m \in Seq(Events), m # <<>>
    PROVE  /\ Head(m) = m[1] /\ Head(m) \in Events /\ Tail(m) \in Seq(Events)
           /\ Len(m) \in Nat \ {0} /\ Len(Tail(m)) = Len(m) - 1
           /\ \A i \in 1..Len(Tail(m)) : Tail(m)[i] = m[i + 1]
  OBVIOUS

(* What Append does to a queue of events.                                     *)
LEMMA Appended ==
    ASSUME NEW m \in Seq(Events), NEW e \in Events
    PROVE  /\ Append(m, e) \in Seq(Events) /\ Append(m, e) # <<>>
           /\ Len(m) \in Nat /\ Len(Append(m, e)) = Len(m) + 1
           /\ Append(m, e)[Len(m) + 1] = e
           /\ \A i \in 1..Len(m) : Append(m, e)[i] = m[i]
  OBVIOUS

-----------------------------------------------------------------------------
(* Types.                                                                     *)
LEMMA InitType == Init => TypeOK
  BY DEF Init, TypeOK, Ends

(* The worker's steps keep the types.                                         *)
LEMMA WorkType ==
    ASSUME TypeOK, NEW c \in CLIENTS, WorkStep(c)
    PROVE  TypeOK'
<1> USE DEF WorkStep, Moves, Verdicts, Events
<1>1. UNCHANGED <<slot, stream, here, cancelled, shown>>
  BY DEF control
<1>2. messages' \in [CLIENTS -> Seq(Events)]
  <2>1. messages \in [CLIENTS -> Seq(Events)]
    BY DEF TypeOK
  <2>2. \/ UNCHANGED messages
        \/ \E e \in Events : messages' = [messages EXCEPT ![c] = Append(@, e)]
    <3>1. Verdicts \subseteq Events /\ "progress" \in Events /\ None \in Events
      OBVIOUS
    <3>2. ASSUME NEW said \in Verdicts,
                 messages' = [messages EXCEPT ![c] = IF cancelled[c] THEN @ ELSE Append(@, said)]
          PROVE  UNCHANGED messages \/ messages' = [messages EXCEPT ![c] = Append(@, said)]
      BY <2>1, <3>2
    <3> HIDE DEF Events, Verdicts
    <3> QED
      BY <3>1, <3>2
  <2>3. CASE UNCHANGED messages
    BY <2>1, <2>3
  <2>4. ASSUME NEW e \in Events, messages' = [messages EXCEPT ![c] = Append(@, e)]
        PROVE  messages' \in [CLIENTS -> Seq(Events)]
    <3>1. Append(messages[c], e) \in Seq(Events)
      BY <2>1, Appended
    <3> QED
      BY <2>1, <2>4, <3>1
  <2> QED
    BY <2>2, <2>3, <2>4
<1>3. pc' \in [CLIENTS -> Labels]
  <2>1. \E to \in Labels : pc' = [pc EXCEPT ![c] = to]
    BY DEF Labels
  <2> QED
    BY <2>1 DEF TypeOK, Labels
<1>4. late' \in [CLIENTS -> Nat]
  <2>1. UNCHANGED late \/ \E n \in {0, 1} : late' = [late EXCEPT ![c] = @ + n]
    OBVIOUS
  <2> QED
    BY <2>1 DEF TypeOK
<1> QED
  BY <1>1, <1>2, <1>3, <1>4 DEF TypeOK, Labels

(* The stream's steps keep the types.                                         *)
LEMMA PollType ==
    ASSUME TypeOK, NEW c \in CLIENTS, Poll(c)
    PROVE  TypeOK'
<1> USE DEF TypeOK, Events, Ends, Close, FreedByStream
<1>1. CASE ~here[c] /\ Close(c) /\ UNCHANGED <<messages, shown>>
  BY <1>1 DEF Poll
<1>2. CASE here[c] /\ messages[c] # <<>> /\ messages' = [messages EXCEPT ![c] = Tail(@)]
  <2>1. Head(messages[c]) \in Events /\ Tail(messages[c]) \in Seq(Events)
    BY <1>2
  <2>2. messages' \in [CLIENTS -> Seq(Events)]
    BY <1>2, <2>1
  <2>3. \/ Close(c) /\ UNCHANGED shown
        \/ /\ Head(messages[c]) # None /\ shown' = [shown EXCEPT ![c] = Head(messages[c])]
           /\ UNCHANGED <<slot, stream, here, cancelled>>
    BY <1>2 DEF Poll
  <2>4. CASE Close(c) /\ UNCHANGED shown
    BY <2>2, <2>4 DEF Poll
  <2>5. CASE /\ Head(messages[c]) # None /\ shown' = [shown EXCEPT ![c] = Head(messages[c])]
             /\ UNCHANGED <<slot, stream, here, cancelled>>
    BY <2>1, <2>2, <2>5 DEF Poll
  <2> QED
    BY <2>3, <2>4, <2>5
<1> QED
  BY <1>1, <1>2 DEF Poll

(* Every step keeps the types.                                                *)
LEMMA NextType == TypeOK /\ Alone /\ [Next]_vars => TypeOK'
<1> SUFFICES ASSUME TypeOK, Alone, [Next]_vars PROVE TypeOK'
  OBVIOUS
<1>1. CASE UNCHANGED vars
  BY <1>1 DEF vars, TypeOK
<1>2. ASSUME NEW c \in CLIENTS, Run(c) PROVE TypeOK'
  BY <1>2 DEF Run, TypeOK
<1>3. ASSUME NEW c \in CLIENTS, Start(c) PROVE TypeOK'
  <2>1. slot = 0
    BY <1>3 DEF Start, Alone, Holds, TypeOK
  <2>2. shown' \in [CLIENTS -> {None, "progress"} \cup Ends]
    BY <1>3 DEF Start, TypeOK, Ends
  <2>a. slot' \in 0..1
    BY <1>3, <2>1 DEF Start, FreedUnstarted
  <2>b. pc' \in [CLIENTS -> Labels]
    BY <1>3 DEF Start, TypeOK, Labels
  <2>3. cancelled' \in [CLIENTS -> BOOLEAN]
    BY <1>3 DEF Start, TypeOK
  <2>4. stream' \in [CLIENTS -> {"none", "ready", "open", "ended"}]
    BY <1>3 DEF Start, TypeOK
  <2> QED
    BY <1>3, <2>a, <2>b, <2>2, <2>3, <2>4 DEF Start, TypeOK, Labels
<1>4. ASSUME NEW c \in CLIENTS, Leave(c) PROVE TypeOK'
  BY <1>4 DEF Leave, TypeOK
<1>5. ASSUME NEW c \in CLIENTS, Release(c) PROVE TypeOK'
  BY <1>5 DEF Release, Becomes, Goes, TypeOK, Alone, Holds
<1> QED
  BY <1>1, <1>2, <1>3, <1>4, <1>5, PollType, WorkType, Steps

-----------------------------------------------------------------------------
(* Who holds the slot.                                                        *)
LEMMA NextAlone == TypeOK /\ Alone /\ [Next]_vars => Alone'
<1> SUFFICES ASSUME TypeOK, Alone, [Next]_vars PROVE Alone'
  OBVIOUS
<1> USE DEF Alone, Holds, TypeOK
<1>1. CASE UNCHANGED vars
  BY <1>1 DEF vars
<1>2. ASSUME NEW c \in CLIENTS, Run(c) PROVE Alone'
  BY <1>2 DEF Run, Asks
<1>3. ASSUME NEW c \in CLIENTS, Start(c) PROVE Alone'
  <2>1. slot = 0 /\ pc[c] = "idle" /\ \A d \in CLIENTS : Holds(d) => d = c
    BY <1>3 DEF Start
  <2>2. CASE stream' = [stream EXCEPT ![c] = "open"] /\ pc' = [pc EXCEPT ![c] = "begin"]
             /\ UNCHANGED slot
    BY <2>1, <2>2
  <2>3. CASE stream' = [stream EXCEPT ![c] = "ended"] /\ slot' = slot + 1 /\ UNCHANGED pc
    BY <2>1, <2>3
  <2> QED
    BY <1>3, <2>2, <2>3 DEF Start, FreedUnstarted
<1>4. ASSUME NEW c \in CLIENTS, Leave(c) PROVE Alone'
  BY <1>4 DEF Leave
<1>5. ASSUME NEW c \in CLIENTS, Poll(c) PROVE Alone'
  BY <1>5 DEF Poll, Close, FreedByStream
<1>6. ASSUME NEW c \in CLIENTS, WorkStep(c) PROVE Alone'
  BY <1>6 DEF WorkStep, Moves, Labels, control
<1>7. ASSUME NEW c \in CLIENTS, Release(c) PROVE Alone'
  BY <1>7 DEF Release, Becomes, Goes
<1> QED
  BY <1>1, <1>2, <1>3, <1>4, <1>5, <1>6, <1>7, Steps

-----------------------------------------------------------------------------
(* The calls after a cancellation.                                            *)
LEMMA NextLate == TypeOK /\ Alone /\ LateOK /\ [Next]_vars => LateOK'
<1> SUFFICES ASSUME TypeOK, Alone, LateOK, [Next]_vars PROVE LateOK'
  OBVIOUS
<1> USE DEF LateOK, TypeOK
<1>1. CASE UNCHANGED vars
  BY <1>1 DEF vars
<1>2. ASSUME NEW c \in CLIENTS, Run(c) PROVE LateOK'
  BY <1>2 DEF Run, Asks
<1>3. ASSUME NEW c \in CLIENTS, Start(c) PROVE LateOK'
  BY <1>3 DEF Start
<1>4. ASSUME NEW c \in CLIENTS, Leave(c) PROVE LateOK'
  BY <1>4 DEF Leave
<1>5. ASSUME NEW c \in CLIENTS, Poll(c) PROVE LateOK'
  BY <1>5 DEF Poll, Close
<1>6. ASSUME NEW c \in CLIENTS, WorkStep(c) PROVE LateOK'
  BY <1>6 DEF WorkStep, Moves, Labels, control
<1>7. ASSUME NEW c \in CLIENTS, Release(c) PROVE LateOK'
  BY <1>7 DEF Release, Becomes, Goes
<1> QED
  BY <1>1, <1>2, <1>3, <1>4, <1>5, <1>6, <1>7, Steps

-----------------------------------------------------------------------------
(* What a stream is told.                                                     *)
LEMMA VerdictLast ==
    ASSUME NEW m \in Seq(Events), m # <<>>, Endless(m), m[Len(m)] \in Verdicts
    PROVE  IF Tail(m) = <<>> THEN Head(m) \in Verdicts
           ELSE Tail(m)[Len(Tail(m))] \in Verdicts
<1>0. /\ Head(m) = m[1] /\ Tail(m) \in Seq(Events) /\ Len(m) \in Nat \ {0}
      /\ Len(Tail(m)) = Len(m) - 1 /\ \A i \in 1..(Len(m) - 1) : Tail(m)[i] = m[i + 1]
  BY HeadAndTail
<1>a. Tail(m) = <<>> <=> Len(m) = 1
  <2>1. ASSUME Tail(m) # <<>> PROVE Len(m) # 1
    <3>1. Len(Tail(m)) \in Nat \ {0}
      BY <1>0, <2>1, EmptySeq
    <3> QED
      BY <1>0, <3>1
  <2>2. Tail(m) = <<>> => Len(Tail(m)) = 0
    BY EmptySeq, Zenon
  <2>3. Len(Tail(m)) = 0 => Len(m) = 1
    <3> DEFINE n == Len(Tail(m))
               k == Len(m)
    <3>1. k \in Nat \ {0} /\ n = k - 1
      BY <1>0
    <3> HIDE DEF n, k
    <3>2. n = 0 => k = 1
      BY <3>1
    <3> QED
      BY <3>2 DEF n, k
  <2> QED
    BY <2>1, <2>2, <2>3
<1>1. CASE Len(m) = 1
  BY <1>0, <1>a, <1>1
<1>2. CASE Len(m) # 1
  <2>1. Len(m) - 1 \in 1..(Len(m) - 1) /\ Tail(m) # <<>>
    BY <1>0, <1>a, <1>2
  <2>2. Tail(m)[Len(m) - 1] = m[Len(m)]
    BY <1>0, <2>1
  <2> QED
    BY <1>0, <2>1, <2>2
<1> QED
  BY <1>1, <1>2

(* A queue that ends with None gives a verdict before it gives None.          *)
LEMMA EndIsLast ==
    ASSUME NEW m \in Seq(Events), NEW last, Closing(m, last)
    PROVE  /\ m # <<>>
           /\ Head(m) = None => last \in Verdicts
           /\ Head(m) # None => Closing(Tail(m), Head(m))
<1>1. m # <<>>
  BY DEF Closing
<1>2. Head(m) = m[1] /\ Len(m) \in Nat \ {0} /\ Len(Tail(m)) = Len(m) - 1
      /\ \A i \in 1..(Len(m) - 1) : Tail(m)[i] = m[i + 1]
  BY <1>1, HeadAndTail
<1>3. Head(m) = None => last \in Verdicts
  BY <1>2 DEF Closing
<1>4. ASSUME Head(m) # None PROVE Closing(Tail(m), Head(m))
  <2>1. Len(m) > 1 /\ m[Len(m)] = None
    BY <1>2, <1>4 DEF Closing
  <2>2. Tail(m) # <<>> /\ Tail(m)[Len(Tail(m))] = None
    BY <1>2, <2>1
  <2>3. \A i \in 1..(Len(Tail(m)) - 1) : Tail(m)[i] # None
    BY <1>2, <2>1 DEF Closing
  <2>4. IF Len(Tail(m)) = 1 THEN Head(m) \in Verdicts
        ELSE Tail(m)[Len(Tail(m)) - 1] \in Verdicts
    BY <1>2, <2>1 DEF Closing
  <2> QED
    BY <2>2, <2>3, <2>4 DEF Closing
<1> QED
  BY <1>1, <1>3, <1>4

(* An event put in leaves a queue without its end.                            *)
LEMMA AppendedEndless ==
    ASSUME NEW m \in Seq(Events), NEW e \in Events, Endless(m), e # None
    PROVE  Endless(Append(m, e))
  BY Appended DEF Endless

(* None put after a verdict closes the queue.                                 *)
LEMMA AppendedEnd ==
    ASSUME NEW m \in Seq(Events), NEW last, Endless(m),
           IF m = <<>> THEN last \in Verdicts ELSE m[Len(m)] \in Verdicts
    PROVE  Closing(Append(m, None), last)
<1>1. /\ Append(m, None) # <<>> /\ Len(Append(m, None)) = Len(m) + 1 /\ Len(m) \in Nat
      /\ Append(m, None)[Len(m) + 1] = None
      /\ \A i \in 1..Len(m) : Append(m, None)[i] = m[i]
  BY Appended DEF Events
<1>2. m = <<>> <=> Len(m) = 0
  BY EmptySeq
<1>3. Len(m) # 0 => Append(m, None)[Len(m)] \in Verdicts
  BY <1>1, <1>2
<1> QED
  BY <1>1, <1>2, <1>3 DEF Closing, Endless

(* A turn of the loop that shows an event, or meets the end of the queue.     *)
LEMMA PollSays ==
    ASSUME TypeOK, VerdictOK, NEW c \in CLIENTS, Poll(c)
    PROVE  Saying(c)'
<1> DEFINE m == messages[c]
<1>1. Saying(c) /\ stream[c] = "open" /\ m \in Seq(Events) /\ pc[c] \in Labels
      /\ UNCHANGED <<pc, job, late>>
  BY DEF VerdictOK, Poll, TypeOK, Events, Labels
<1>2. CASE ~here[c] /\ Close(c)
  BY <1>2, <1>1 DEF Saying, Close, TypeOK
<1>3. CASE here[c] /\ m # <<>> /\ Head(m) = None /\ Close(c) /\ UNCHANGED shown
  <2>1. ~Endless(m)
    BY <1>3, <1>1, HeadAndTail DEF Endless
  <2>2. Closing(m, shown[c])
    BY <2>1, <1>1 DEF Saying, Labels
  <2>3. shown[c] \in Ends
    BY <2>2, <1>3, <1>1, EndIsLast DEF Verdicts, Ends
  <2> QED
    BY <2>3, <1>3 DEF Saying, Close, TypeOK
<1>4. CASE /\ here[c] /\ m # <<>> /\ Head(m) # None
           /\ messages' = [messages EXCEPT ![c] = Tail(@)]
           /\ shown' = [shown EXCEPT ![c] = Head(m)]
           /\ UNCHANGED <<slot, stream, here, cancelled>>
  <2>1. messages'[c] = Tail(m) /\ shown'[c] = Head(m)
    BY <1>4 DEF TypeOK
  <2>2. Endless(m) => Endless(Tail(m))
    BY <1>4, <1>1, HeadAndTail DEF Endless
  <2>3. Endless(m) /\ m[Len(m)] \in Verdicts =>
            IF Tail(m) = <<>> THEN Head(m) \in Verdicts ELSE Tail(m)[Len(Tail(m))] \in Verdicts
    BY <1>4, <1>1, VerdictLast
  <2>4. Closing(m, shown[c]) => Closing(Tail(m), Head(m))
    BY <1>4, <1>1, EndIsLast
  <2> QED
    BY <2>1, <2>2, <2>3, <2>4, <1>1, <1>4 DEF Saying
<1> QED
  BY <1>2, <1>3, <1>4 DEF Poll

(* The worker puts None in only after a verdict, or when nobody listens.      *)
LEMMA WorkSays ==
    ASSUME TypeOK, Alone, LateOK, VerdictOK, NEW c \in CLIENTS, WorkStep(c)
    PROVE  Saying(c)'
<1> DEFINE m == messages[c]
<1>1. /\ Saying(c) /\ m \in Seq(Events) /\ pc[c] \in Labels \ {"idle"}
      /\ UNCHANGED <<slot, stream, here, cancelled, shown>>
      /\ stream[c] = "open" => ~cancelled[c]
      /\ pc' = [pc EXCEPT ![c] = pc'[c]] /\ pc \in [CLIENTS -> Labels]
      /\ messages \in [CLIENTS -> Seq(Events)]
  BY DEF VerdictOK, LateOK, WorkStep, TypeOK, Events, Labels, Moves, control
<1>2. CASE stream[c] # "open"
  <2>1. stream[c] # "ready"
    BY DEF Alone, WorkStep, Moves, Labels
  <2> QED
    BY <1>1, <1>2, <2>1 DEF Saying
<1>3. CASE stream[c] = "open"
  <2> USE <1>1, <1>3
  <2>1. CASE Endless(m) /\ messages'[c] = Append(m, "progress")
             /\ pc'[c] \in {"pair", "embed", "call"}
    BY <2>1, AppendedEndless, ComparisonAssumption DEF Saying, Events
  <2>2. CASE UNCHANGED messages /\ pc[c] \notin {"ending", "release", "idle"}
             /\ pc'[c] \notin {"ending", "release", "idle"}
    BY <2>2 DEF Saying
  <2>3. ASSUME NEW said \in Verdicts, messages'[c] = Append(m, said),
               pc[c] \in {"begin", "pair"}, pc'[c] = "ending"
        PROVE  Saying(c)'
    <3>1. said \in Events /\ said # None
      BY <2>3, ComparisonAssumption DEF Verdicts, Events
    <3>2. Endless(m)
      BY <2>3 DEF Saying
    <3>3. Endless(messages'[c]) /\ messages'[c] # <<>> /\ messages'[c][Len(messages'[c])] = said
      BY <2>3, <3>1, <3>2, Appended, AppendedEndless
    <3> QED
      BY <2>3, <3>3 DEF Saying
  <2>4. CASE pc[c] = "ending" /\ pc'[c] = "release" /\ messages'[c] = Append(m, None)
    BY <2>4, AppendedEnd DEF Saying
  <2> QED
    BY <2>1, <2>2, <2>3, <2>4 DEF WorkStep, Moves, Saying, Labels
<1> QED
  BY <1>2, <1>3

(* Every step keeps what the streams are told.                                *)
LEMMA NextVerdict == IInv /\ [Next]_vars => VerdictOK'
<1> SUFFICES ASSUME IInv, [Next]_vars PROVE VerdictOK'
  OBVIOUS
<1> USE DEF IInv, VerdictOK
(* No action of one client touches another's stream, queue or worker.         *)
<1>a. ASSUME NEW c \in CLIENTS, NEW d \in CLIENTS, d # c,
             Run(c) \/ Start(c) \/ Leave(c) \/ Poll(c) \/ WorkStep(c) \/ Release(c)
      PROVE  /\ stream'[d] = stream[d] /\ messages'[d] = messages[d] /\ here'[d] = here[d]
             /\ shown'[d] = shown[d] /\ pc'[d] = pc[d]
  <2> USE <1>a DEF TypeOK
  <2>1. CASE Run(c)
    BY <2>1 DEF Run
  <2>2. CASE Start(c)
    BY <2>2 DEF Start
  <2>3. CASE Leave(c)
    BY <2>3 DEF Leave
  <2>4. CASE Poll(c)
    BY <2>4 DEF Poll, Close
  <2>5. CASE WorkStep(c)
    BY <2>5 DEF WorkStep, Moves, control
  <2>6. CASE Release(c)
    BY <2>6 DEF Release, Becomes, Goes
  <2> QED
    BY <2>1, <2>2, <2>3, <2>4, <2>5, <2>6
<1>1. CASE UNCHANGED vars
  BY <1>1 DEF vars, Saying
<1>2. ASSUME NEW c \in CLIENTS, Run(c) PROVE Saying(c)'
  BY <1>2 DEF Run, Saying, TypeOK
<1>3. ASSUME NEW c \in CLIENTS, Start(c) PROVE Saying(c)'
  BY <1>3 DEF Start, Saying, TypeOK, Ends, Endless
<1>4. ASSUME NEW c \in CLIENTS, Leave(c) PROVE Saying(c)'
  BY <1>4 DEF Leave, Saying, TypeOK
<1>5. ASSUME NEW c \in CLIENTS, Release(c) PROVE Saying(c)'
  BY <1>5 DEF Release, Becomes, Goes, Saying, TypeOK
<1>6. ASSUME NEW c \in CLIENTS,
             Run(c) \/ Start(c) \/ Leave(c) \/ Poll(c) \/ WorkStep(c) \/ Release(c)
      PROVE  VerdictOK'
  <2>1. Saying(c)'
    BY <1>6, <1>2, <1>3, <1>4, <1>5, PollSays, WorkSays
  <2>2. ASSUME NEW d \in CLIENTS, d # c PROVE Saying(d)'
    <3>1. Saying(d)
      OBVIOUS
    <3> QED
      BY <3>1, <2>2, <1>6, <1>a DEF Saying
  <2> QED
    BY <2>1, <2>2
<1> QED
  BY <1>1, <1>6, Steps

-----------------------------------------------------------------------------
(* The invariant holds for any number of browsers, documents and rows.        *)
THEOREM Inductive == Spec => []IInv
<1>1. Init => IInv
  BY InitType, ComparisonAssumption DEF Init, IInv, Alone, LateOK, VerdictOK, Saying, Holds
<1>2. IInv /\ [Next]_vars => IInv'
  BY NextType, NextAlone, NextLate, NextVerdict DEF IInv
<1> QED
  BY <1>1, <1>2, PTL DEF Spec

(* Every state of the slot, the streams and the workers is well typed.        *)
THEOREM TypeCorrect == Spec => []TypeOK
<1>1. IInv => TypeOK
  BY DEF IInv
<1> QED
  BY <1>1, Inductive, PTL

(* One comparison holds the slot, and whoever took it gives it back once.     *)
THEOREM SlotIsHeldOnce == Spec => []OneAtATime
<1>1. IInv => OneAtATime
  <2> SUFFICES ASSUME IInv PROVE OneAtATime
    OBVIOUS
  <2> DEFINE H == {c \in CLIENTS : Holds(c)}
  <2>1. slot \in {0, 1}
    BY DEF IInv, TypeOK
  <2>2. CASE slot = 1
    <3>1. H = {}
      BY <2>2 DEF IInv, Alone
    <3> QED
      BY <3>1, <2>2, FS_EmptySet DEF OneAtATime
  <2>3. CASE slot = 0
    <3>1. PICK c \in CLIENTS : Holds(c)
      BY <2>3 DEF IInv, Alone
    <3>2. H = {c}
      BY <3>1 DEF IInv, Alone
    <3>3. Cardinality(H) = 1
      BY <3>2, FS_Singleton
    <3> QED
      BY <3>3, <2>3 DEF OneAtATime
  <2> QED
    BY <2>1, <2>2, <2>3
<1> QED
  BY <1>1, Inductive, PTL

(* A client that stays to the end of its stream is told a result or an error. *)
THEOREM StreamsAreAnswered == Spec => []StreamsEndWithAVerdict
<1>1. IInv => StreamsEndWithAVerdict
  BY DEF IInv, VerdictOK, Saying, StreamsEndWithAVerdict
<1> QED
  BY <1>1, Inductive, PTL

(* Once its client is given up, a worker calls the model at most once more.   *)
THEOREM LateCallsAreBounded == Spec => []AtMostOneLateCall
<1>1. IInv => AtMostOneLateCall
  BY DEF IInv, LateOK, AtMostOneLateCall
<1> QED
  BY <1>1, Inductive, PTL

(* What the worker keeps.                                                     *)
Citations == [quote : Words, page : Nat \cup {None}, line : Nat]
Findings == [aspect : ASPECTS, status : STATUSES, a : Citations, b : Citations]
Jobs ==
    [a : Names \cup {None}, b : Names \cup {None}, pairs : Seq(Nat \X Nat), at : Nat \ {0},
     findings : SUBSET Findings, seen_a : SUBSET Nat, seen_b : SUBSET Nat,
     failures : SUBSET Nat, rejected : Nat, invalid : Nat, lost : BOOLEAN,
     complete : BOOLEAN \cup {None}]

(* Nothing found yet, and nothing claimed.                                    *)
Fresh(j) ==
    /\ j.at = 1 /\ j.findings = {} /\ j.failures = {} /\ j.rejected = 0
    /\ ~j.lost /\ j.complete = None

(* The pairs are of passages of the two documents, and leave none out.        *)
Between(j) == j.pairs \in Seq((DOMAIN Passages[j.a]) \X (DOMAIN Passages[j.b]))
Covering(j) ==
    SameCut(j) => /\ \A x \in DOMAIN Passages[j.a] : \E k \in DOMAIN j.pairs : j.pairs[k][1] = x
                  /\ \A y \in DOMAIN Passages[j.b] : \E k \in DOMAIN j.pairs : j.pairs[k][2] = y

(* A pair that was passed was reviewed or failed, and its numbers are told.   *)
Passed(j) ==
    \A k \in 1..(j.at - 1) :
        \/ k \in j.failures
        \/ j.pairs[k][1] \in j.seen_a /\ j.pairs[k][2] \in j.seen_b
Told(j, k) ==
    ~Identical(j) =>
        \A ra \in Passages[j.a][j.pairs[k][1]].rows, rb \in Passages[j.b][j.pairs[k][2]].rows :
            LET la == DOCS[j.a].text[ra].words
                lb == DOCS[j.b].text[rb].words
            IN NumbersChanged(la, lb) => LinesTold(j, la, lb)
Backed(j, f) ==
    \E k \in DOMAIN j.pairs :
        /\ Stands(DOCS[j.a], Passages[j.a][j.pairs[k][1]], f.a)
        /\ Stands(DOCS[j.b], Passages[j.b][j.pairs[k][2]], f.b)

(* What the worker can say of the pairs it has passed.                        *)
Progressed(j) ==
    /\ j.a \in Names /\ j.b \in Names
    /\ Between(j) /\ Covering(j) /\ Passed(j)
    /\ j.at <= Len(j.pairs) + 1
    /\ \A k \in 1..(j.at - 1) : Told(j, k)
    /\ \A f \in j.findings : Backed(j, f)
    /\ j.lost => j.rejected > 0

(* And where it can say it.                                                   *)
InPair == {"call", "called", "repair", "repairing"}
Place(at, j) ==
    /\ at \in {"idle", "begin", "embed"} => Fresh(j)
    /\ at \in {"begin", "embed"} => j.a \in Names /\ j.b \in Names
    /\ at = "embed" => Len(Passages[j.a]) # 0 /\ Len(Passages[j.b]) # 0
    /\ at \in {"pair"} \cup InPair => Progressed(j) /\ j.complete = None
    /\ at \in InPair => j.at <= Len(j.pairs) /\ Told(j, j.at)
    /\ at \in {"repair", "repairing"} => j.invalid > 0
    /\ at \in {"ending", "release"} =>
            \/ Fresh(j)
            \/ Progressed(j) /\ (j.complete = TRUE => j.at > Len(j.pairs) /\ Complete(j))
Honest(c) ==
    /\ Place(pc[c], job[c])
    /\ stream[c] = "ready" => job[c].a \in Names /\ job[c].b \in Names
HInv == job \in [CLIENTS -> Jobs] /\ \A c \in CLIENTS : Honest(c)

-----------------------------------------------------------------------------
(* A set of naturals that is not empty has a least element.                   *)
LEMMA LeastNumber ==
    ASSUME NEW T \in SUBSET Nat, T # {}
    PROVE  \E x \in T : \A y \in T : x <= y
<1> DEFINE R == OpToRel(<, Nat)
<1>1. IsWellFoundedOn(R, Nat)
  BY NatLessThanWellFounded
<1>2. \A x, y \in T : <<y, x>> \in R <=> y < x
  BY DEF OpToRel
<1> HIDE DEF R
<1>3. PICK x \in T : \A y \in T : ~ (<<y, x>> \in R)
  BY <1>1, WFMin
<1>4. \A y \in T : ~(y < x)
  BY <1>2, <1>3, Zenon
<1> QED
  BY <1>4

(* What Min and Max choose.                                                   *)
LEMMA MinIs ==
    ASSUME NEW S \in SUBSET Nat, S # {}
    PROVE  Min(S) \in S
  BY LeastNumber DEF Min

(* What Max chooses among naturals that are bounded.                          *)
LEMMA MaxIs ==
    ASSUME NEW n \in Nat, NEW S \in SUBSET (0..n), S # {}
    PROVE  Max(S) \in S /\ \A y \in S : y <= Max(S)
<1> DEFINE T == {k \in 0..n : \A y \in S : y <= k}
<1>1. PICK k \in T : \A m \in T : k <= m
  <2>1. T \in SUBSET Nat /\ n \in T
    OBVIOUS
  <2> HIDE DEF T
  <2> QED
    BY <2>1, LeastNumber
<1>2. k \in S
  <2> SUFFICES ASSUME k \notin S PROVE FALSE
    OBVIOUS
  <2>1. k # 0
    <3>1. PICK y \in S : y <= k
      OBVIOUS
    <3> QED
      BY <3>1
  <2>2. \A y \in S : y <= k - 1
    OBVIOUS
  <2>3. k - 1 \in T
    BY <2>1, <2>2
  <2> QED
    BY <1>1, <2>3
<1> QED
  BY <1>2 DEF Max

(* Of a list of scores some is the first that none beats.                     *)
LEMMA BestIs ==
    ASSUME NEW n \in Nat \ {0}, NEW score \in [1..n -> Int]
    PROVE  FirstBest(score) \in 1..n
<1> DEFINE Best(m) == {j \in 1..m : \A k \in 1..m : score[k] <= score[j]}
           T == {m \in 1..n : Best(m) = {}}
<1>1. T = {}
  <2> SUFFICES ASSUME T # {} PROVE FALSE
    OBVIOUS
  <2>1. PICK m \in T : \A k \in T : m <= k
    <3>1. T \in SUBSET Nat
      OBVIOUS
    <3> HIDE DEF T
    <3> QED
      BY <3>1, LeastNumber
  <2>2. m # 1
    <3>1. 1 \in Best(1)
      OBVIOUS
    <3> QED
      BY <2>1, <3>1
  <2>3. m \in 1..n /\ m - 1 \in 1..n /\ m - 1 \notin T
    <3>1. m \in 1..n
      OBVIOUS
    <3> HIDE DEF T
    <3> QED
      BY <2>1, <2>2, <3>1
  <2>4. PICK j \in Best(m - 1) : TRUE
    BY <2>3
  <2>5. score[m] <= score[j] => j \in Best(m)
    BY <2>3, <2>4
  <2>6. score[j] <= score[m] => m \in Best(m)
    BY <2>3, <2>4
  <2>7. score[j] \in Int /\ score[m] \in Int
    BY <2>3, <2>4
  <2>8. Best(m) = {}
    OBVIOUS
  <2> HIDE DEF Best
  <2> QED
    BY <2>5, <2>6, <2>7, <2>8
<1>2. Best(n) # {} /\ Best(n) \in SUBSET Nat
  <2>1. n \in 1..n /\ n \notin T
    BY <1>1
  <2> QED
    BY <2>1
<1>3. FirstBest(score) = Min(Best(n))
  BY DEF FirstBest
<1> HIDE DEF T
<1>4. Min(Best(n)) \in Best(n)
  <2> HIDE DEF Best
  <2> QED
    BY <1>2, MinIs
<1> QED
  BY <1>3, <1>4

(* A list of the members of a set, with no member left out.                   *)
Lists(S, list) ==
    list \in [1..Cardinality(S) -> S] /\ \A x \in S : \E i \in 1..Cardinality(S) : list[i] = x

(* Every member of a set is where its rank puts it.                           *)
LEMMA OrderedIs ==
    ASSUME NEW S, IsFiniteSet(S), NEW rank \in [S -> 1..Cardinality(S)],
           \A x, y \in S : rank[x] = rank[y] => x = y
    PROVE  Lists(S, Ordered(rank))
<1> DEFINE n == Cardinality(S)
<1>1. n \in Nat
  BY FS_CardinalityType
<1>2. IsFiniteSet(1..n) /\ Cardinality(1..n) = n
  <2> HIDE DEF n
  <2>1. 1 \in Int /\ n \in Int /\ (IF 1 > n THEN 0 ELSE n - 1 + 1) = n
    BY <1>1
  <2> QED
    BY <2>1, FS_Interval
<1>3. rank \in Injection(S, 1..n)
  BY DEF Injection, IsInjective
<1>4. rank \in Surjection(S, 1..n)
  BY <1>2, <1>3, FS_Injection
<1>5. \A i \in 1..n : \E x \in S : rank[x] = i
  BY <1>4 DEF Surjection
<1>6. Ordered(rank) = [i \in 1..n |-> CHOOSE x \in S : rank[x] = i]
  BY DEF Ordered
<1>7. \A i \in 1..n : Ordered(rank)[i] \in S /\ rank[Ordered(rank)[i]] = i
  <2> HIDE DEF n
  <2> QED
    BY <1>5, <1>6
<1>8. ASSUME NEW x \in S PROVE rank[x] \in 1..n /\ Ordered(rank)[rank[x]] = x
  BY <1>7
<1> QED
  BY <1>6, <1>7, <1>8 DEF Lists

(* A set is put in order by how many of it each member has below it.          *)
LEMMA RankedIs ==
    ASSUME NEW S, IsFiniteSet(S), NEW below \in [S -> SUBSET S],
           \A x \in S : x \in below[x],
           \A x, y \in S : below[x] \subseteq below[y] \/ below[y] \subseteq below[x],
           \A x, y \in S : below[x] = below[y] => x = y,
           NEW rank, rank = [x \in S |-> Cardinality(below[x])]
    PROVE  Lists(S, Ordered(rank))
<1>1. ASSUME NEW x \in S
      PROVE  IsFiniteSet(below[x]) /\ Cardinality(below[x]) \in 1..Cardinality(S)
  <2>1. IsFiniteSet(below[x]) /\ Cardinality(below[x]) <= Cardinality(S)
    BY FS_Subset
  <2>2. Cardinality(below[x]) \in Nat /\ Cardinality(S) \in Nat
    BY <2>1, FS_CardinalityType
  <2>3. Cardinality(below[x]) # 0
    BY <2>1, FS_EmptySet
  <2> QED
    BY <2>1, <2>2, <2>3
<1>2. rank \in [S -> 1..Cardinality(S)]
  BY <1>1
<1>3. ASSUME NEW x \in S, NEW y \in S, rank[x] = rank[y], below[x] \subseteq below[y]
      PROVE  x = y
  <2>1. Cardinality(below[x]) = Cardinality(below[y])
    BY <1>3
  <2>2. below[x] = below[y]
    BY <1>1, <1>3, <2>1, FS_Subset
  <2> QED
    BY <2>2
<1>4. \A x, y \in S : rank[x] = rank[y] => x = y
  BY <1>3
<1> QED
  BY <1>2, <1>4, OrderedIs

(* A set of naturals in ascending order: nothing is left out.                 *)
LEMMA AscendingIs ==
    ASSUME NEW S \in SUBSET Nat, IsFiniteSet(S)
    PROVE  Lists(S, Ascending(S))
<1> DEFINE below == [x \in S |-> {y \in S : y <= x}]
           rank == [x \in S |-> Cardinality(below[x])]
<1>1. /\ below \in [S -> SUBSET S] /\ \A x \in S : x \in below[x]
      /\ \A x, y \in S : below[x] \subseteq below[y] \/ below[y] \subseteq below[x]
      /\ \A x, y \in S : below[x] = below[y] => x = y
  <2>1. below \in [S -> SUBSET S] /\ \A x \in S : x \in below[x]
    OBVIOUS
  <2>2. ASSUME NEW x \in S, NEW y \in S
        PROVE  below[x] \subseteq below[y] \/ below[y] \subseteq below[x]
    <3>0. \A z \in S : z \in Nat
      OBVIOUS
    <3>1. x <= y \/ y <= x
      BY <3>0
    <3>2. CASE x <= y
      <4>1. \A z \in S : z <= x => z <= y
        BY <3>0, <3>2
      <4> QED
        BY <4>1
    <3>3. CASE y <= x
      <4>1. \A z \in S : z <= y => z <= x
        BY <3>0, <3>3
      <4> QED
        BY <4>1
    <3> HIDE DEF below
    <3> QED
      BY <3>1, <3>2, <3>3
  <2>3. ASSUME NEW x \in S, NEW y \in S, below[x] = below[y] PROVE x = y
    <3>1. x \in below[y] /\ y \in below[x]
      BY <2>1, <2>3
    <3> QED
      BY <3>1
  <2> QED
    BY <2>1, <2>2, <2>3
<1>2. Ascending(S) = Ordered(rank)
  <2>1. rank = [x \in S |-> Cardinality({y \in S : y <= x})]
    OBVIOUS
  <2> QED
    BY <2>1, Zenon DEF Ascending
<1>3. Lists(S, Ordered(rank))
  <2>1. rank = [x \in S |-> Cardinality(below[x])]
    OBVIOUS
  <2> HIDE DEF below, rank
  <2> QED
    BY <2>1, <1>1, RankedIs
<1> HIDE DEF rank
<1> QED
  BY <1>2, <1>3

(* A set of pairs in the order of the worker: nothing is left out.            *)
LEMMA InOrderIs ==
    ASSUME NEW S \in SUBSET (Nat \X Nat), IsFiniteSet(S)
    PROVE  Lists(S, InOrder(S))
<1> DEFINE below == [x \in S |-> {y \in S : Upto(x, y)}]
           rank == [x \in S |-> Cardinality(below[x])]
<1>1. \A x \in S : x[1] \in Nat /\ x[2] \in Nat /\ x = <<x[1], x[2]>>
  OBVIOUS
<1>2. /\ below \in [S -> SUBSET S] /\ \A x \in S : x \in below[x]
      /\ \A x, y \in S : below[x] = below[y] => x = y
  <2>1. below \in [S -> SUBSET S]
    OBVIOUS
  <2>2. \A x \in S : x \in below[x]
    BY <1>1 DEF Upto
  <2>3. ASSUME NEW x \in S, NEW y \in S, below[x] = below[y] PROVE x = y
    <3>1. Upto(x, y) /\ Upto(y, x)
      BY <2>2, <2>3
    <3> QED
      BY <1>1, <3>1 DEF Upto
  <2> QED
    BY <2>1, <2>2, <2>3
<1>3. ASSUME NEW x \in S, NEW y \in S
      PROVE  below[x] \subseteq below[y] \/ below[y] \subseteq below[x]
  <2>1. CASE Upto(x, y)
    <3>1. \A z \in S : Upto(y, z) => Upto(x, z)
      BY <1>1, <2>1 DEF Upto
    <3> QED
      BY <3>1
  <2>2. CASE Upto(y, x)
    <3>1. \A z \in S : Upto(x, z) => Upto(y, z)
      BY <1>1, <2>2 DEF Upto
    <3> QED
      BY <3>1
  <2>3. Upto(x, y) \/ Upto(y, x)
    BY <1>1 DEF Upto
  <2> QED
    BY <2>1, <2>2, <2>3
<1>4. InOrder(S) = Ordered(rank)
  <2>1. rank = [x \in S |-> Cardinality({y \in S : Upto(x, y)})]
    OBVIOUS
  <2> QED
    BY <2>1, Zenon DEF InOrder
<1>5. Lists(S, Ordered(rank))
  <2>1. rank = [x \in S |-> Cardinality(below[x])]
    OBVIOUS
  <2> HIDE DEF below, rank
  <2> QED
    BY <2>1, <1>2, <1>3, RankedIs
<1> HIDE DEF rank
<1> QED
  BY <1>4, <1>5

-----------------------------------------------------------------------------
(* The words a line gives to a passage.                                       *)
Texts == Seq([page : Nat, words : Words])
Own(text, rows, r) == IF r \in rows THEN text[r].words ELSE <<>>

(* What a line gives is words.                                                *)
LEMMA OwnIs ==
    ASSUME NEW text \in Texts, NEW rows, NEW r \in 1..Len(text)
    PROVE  Own(text, rows, r) \in Words /\ text[r].words \in Words
<1>1. text[r] \in [page : Nat, words : Words]
  BY ElementOfSeq DEF Texts
<1>2. <<>> \in Words
  BY DEF Words
<1> HIDE DEF Words
<1> QED
  BY <1>1, <1>2 DEF Own

(* Onward is the function its definition describes: one exists.               *)
LEMMA OnwardRecurs ==
    ASSUME NEW text \in Texts, NEW rows
    PROVE  Onward(text, rows) =
             [r \in 1..(Len(text) + 1) |->
                IF r > Len(text) THEN <<>>
                ELSE Own(text, rows, r) \o Onward(text, rows)[r + 1]]
<1> DEFINE N == Len(text)
           Turn(f, r) == IF r > N THEN <<>> ELSE Own(text, rows, r) \o f[r + 1]
           From(f, s) == f = [r \in s..(N + 1) |-> Turn(f, r)]
           T == {m \in 0..N : ~ \E f : From(f, N + 1 - m)}
<1>0. N \in Nat
  BY DEF Texts
<1>1. T = {}
  <2> SUFFICES ASSUME T # {} PROVE FALSE
    OBVIOUS
  <2>1. PICK m \in T : \A k \in T : m <= k
    <3>1. T \in SUBSET Nat
      BY <1>0
    <3> HIDE DEF T
    <3> QED
      BY <3>1, LeastNumber
  <2>2. m # 0
    <3> DEFINE f == [r \in (N + 1)..(N + 1) |-> <<>>]
    <3>1. \A r \in (N + 1)..(N + 1) : Turn(f, r) = <<>>
      BY <1>0
    <3>2. From(f, N + 1 - 0)
      <4>1. N + 1 - 0 = N + 1
        BY <1>0
      <4>2. From(f, N + 1)
        BY <3>1
      <4> HIDE DEF From
      <4> QED
        BY <4>1, <4>2
    <3>3. m = 0 => FALSE
      <4> HIDE DEF From
      <4> QED
        BY <3>2, <2>1
    <3> QED
      BY <3>3
  <2>3. m \in 1..N /\ m - 1 \in 0..N /\ m - 1 \notin T
    <3>1. m \in 0..N
      OBVIOUS
    <3> HIDE DEF T
    <3> QED
      BY <1>0, <2>1, <2>2, <3>1
  <2> DEFINE s == N + 1 - m
  <2>4. s \in 1..N /\ s + 1 = N + 1 - (m - 1)
    BY <1>0, <2>3
  <2>5. PICK f : From(f, s + 1)
    <3>1. \E f : From(f, N + 1 - (m - 1))
      BY <2>3
    <3> HIDE DEF From
    <3> QED
      BY <3>1, <2>4
  <2> DEFINE g == [r \in s..(N + 1) |-> IF r = s THEN Turn(f, s) ELSE f[r]]
  <2>6. ASSUME NEW r \in s..(N + 1) PROVE g[r] = Turn(g, r)
    <3> HIDE DEF s
    <3>1. r > N \/ (r + 1 \in s..(N + 1) /\ r + 1 # s)
      BY <1>0, <2>4
    <3>2. r > N \/ g[r + 1] = f[r + 1]
      BY <3>1
    <3>3. CASE r = s
      BY <3>2, <3>3
    <3>4. CASE r # s
      <4>0. r \in (s + 1)..(N + 1)
        BY <1>0, <2>4, <3>4
      <4>1. f[r] = Turn(f, r)
        <5> DEFINE D == (s + 1)..(N + 1)
        <5>1. f = [i \in D |-> Turn(f, i)] /\ r \in D
          BY <2>5, <4>0
        <5> HIDE DEF D, N
        <5> QED
          BY <5>1, Zenon
      <4> QED
        BY <4>1, <3>2, <3>4
    <3> QED
      BY <3>3, <3>4
  <2>7. From(g, s)
    BY <2>6
  <2>8. ~ \E h : From(h, s)
    BY <2>1
  <2> HIDE DEF From
  <2> QED
    BY <2>7, <2>8
<1> DEFINE F == CHOOSE f : From(f, 1)
<1>2. From(F, 1)
  <2>1. N \in 0..N /\ N \notin T
    <3>1. N \in 0..N
      <4> HIDE DEF N
      <4> QED
        BY <1>0
    <3> HIDE DEF T
    <3> QED
      BY <1>1, <3>1
  <2>2. \E f : From(f, N + 1 - N)
    BY <2>1
  <2>3. N + 1 - N = 1
    BY <1>0
  <2> HIDE DEF From
  <2> QED
    BY <2>2, <2>3
<1>3. Onward(text, rows) = F
  BY DEF Onward, Own
<1> HIDE DEF F
<1> QED
  BY <1>2, <1>3

(* The words from a line on: the line's own, if it counts, and those after.   *)
LEMMA OnwardIs ==
    ASSUME NEW text \in Texts, NEW rows
    PROVE  /\ Onward(text, rows)[Len(text) + 1] = <<>>
           /\ \A r \in 1..Len(text) :
                Onward(text, rows)[r] = Own(text, rows, r) \o Onward(text, rows)[r + 1]
<1> DEFINE O == Onward(text, rows)
           N == Len(text)
<1>0. N \in Nat
  BY DEF Texts
<1>1. O = [r \in 1..(N + 1) |->
            IF r > N THEN <<>> ELSE Own(text, rows, r) \o O[r + 1]]
  BY OnwardRecurs
<1> HIDE DEF O, N
<1>2. O[N + 1] = <<>>
  <2>1. N + 1 \in 1..(N + 1) /\ N + 1 > N
    BY <1>0
  <2> QED
    BY <1>1, <2>1
<1>3. ASSUME NEW r \in 1..N PROVE O[r] = Own(text, rows, r) \o O[r + 1]
  <2>1. r \in 1..(N + 1) /\ ~(r > N)
    BY <1>0
  <2> DEFINE D == 1..(N + 1)
  <2>2. O = [i \in D |-> IF i > N THEN <<>> ELSE Own(text, rows, i) \o O[i + 1]] /\ r \in D
    BY <1>1, <2>1
  <2> HIDE DEF D
  <2>3. O[r] = IF r > N THEN <<>> ELSE Own(text, rows, r) \o O[r + 1]
    BY <2>2, Zenon
  <2> QED
    BY <2>1, <2>3
<1> QED
  BY <1>2, <1>3 DEF O, N

(* The words from any line on end the words from the first.                   *)
EndsIn(whole, part) == \E before \in Words : whole = before \o part

(* What ends a text, less its first words, ends it too.                       *)
LEMMA EndsLater ==
    ASSUME NEW whole, NEW own \in Words, NEW rest \in Words, EndsIn(whole, own \o rest)
    PROVE  EndsIn(whole, rest)
<1> DEFINE W == [w : STRING, num : BOOLEAN]
<1>1. Words = Seq(W)
  BY DEF Words
<1> HIDE DEF W
<1>2. PICK before \in Seq(W) : whole = before \o (own \o rest)
  BY <1>1 DEF EndsIn
<1>3. own \in Seq(W) /\ rest \in Seq(W)
  BY <1>1
<1>4. whole = (before \o own) \o rest /\ before \o own \in Seq(W)
  BY <1>2, <1>3, ConcatAssociative, ConcatProperties
<1> QED
  BY <1>1, <1>4, Zenon DEF EndsIn

(* From any line on: words, and they end the words of the passage.            *)
LEMMA OnwardEnds ==
    ASSUME NEW text \in Texts, NEW rows, NEW k \in 1..(Len(text) + 1)
    PROVE  /\ Onward(text, rows)[k] \in Words
           /\ EndsIn(Flat(text, rows), Onward(text, rows)[k])
<1> DEFINE O == Onward(text, rows)
           N == Len(text)
<1>0. N \in Nat
  BY DEF Texts
<1>1. /\ O[N + 1] = <<>>
      /\ \A r \in 1..N : O[r] = Own(text, rows, r) \o O[r + 1]
  BY OnwardIs
<1>2. \A r \in 1..N : Own(text, rows, r) \in Words
  BY OwnIs
<1> HIDE DEF O, N
<1>3. \A r \in 1..(N + 1) : O[r] \in Words
  <2> DEFINE T == {m \in 0..N : O[N + 1 - m] \notin Words}
  <2>1. T = {}
    <3> SUFFICES ASSUME T # {} PROVE FALSE
      OBVIOUS
    <3>1. PICK m \in T : \A i \in T : m <= i
      <4>1. T \in SUBSET Nat
        BY <1>0
      <4> HIDE DEF T
      <4> QED
        BY <4>1, LeastNumber
    <3>2. m \in 0..N /\ O[N + 1 - m] \notin Words
      OBVIOUS
    <3>3. m # 0
      <4>1. <<>> \in Words
        BY DEF Words
      <4>2. N + 1 - 0 = N + 1
        BY <1>0
      <4> QED
        BY <1>1, <3>2, <4>1, <4>2
    <3>4. m - 1 \in 0..N /\ ~(m <= m - 1) /\ N + 1 - m \in 1..N /\ (N + 1 - m) + 1 = N + 1 - (m - 1)
      BY <1>0, <3>2, <3>3
    <3>5. O[N + 1 - (m - 1)] \in Words
      BY <3>1, <3>4
    <3>6. Own(text, rows, N + 1 - m) \o O[N + 1 - (m - 1)] \in Words
      <4>1. Own(text, rows, N + 1 - m) \in Words
        BY <1>2, <3>4
      <4> QED
        BY <4>1, <3>5 DEF Words
    <3> QED
      BY <1>1, <3>2, <3>4, <3>6
  <2>2. ASSUME NEW r \in 1..(N + 1) PROVE O[r] \in Words
    <3>1. N + 1 - r \in 0..N /\ N + 1 - (N + 1 - r) = r
      BY <1>0
    <3> QED
      BY <2>1, <3>1
  <2> QED
    BY <2>2
<1>4. \A r \in 1..(N + 1) : EndsIn(O[1], O[r])
  <2> DEFINE T == {r \in 1..(N + 1) : ~EndsIn(O[1], O[r])}
  <2>1. T = {}
    <3> SUFFICES ASSUME T # {} PROVE FALSE
      OBVIOUS
    <3>1. PICK r \in T : \A i \in T : r <= i
      <4>1. T \in SUBSET Nat
        BY <1>0
      <4> HIDE DEF T
      <4> QED
        BY <4>1, LeastNumber
    <3>2. r \in 1..(N + 1) /\ ~EndsIn(O[1], O[r])
      OBVIOUS
    <3>3. r # 1
      <4>1. O[1] \in Words /\ <<>> \in Words
        BY <1>0, <1>3 DEF Words
      <4>2. O[1] = <<>> \o O[1]
        BY <4>1 DEF Words
      <4>3. EndsIn(O[1], O[1])
        BY <4>1, <4>2, Zenon DEF EndsIn
      <4> QED
        BY <3>2, <4>3
    <3>4. r - 1 \in 1..N /\ ~(r <= r - 1) /\ (r - 1) + 1 = r /\ r - 1 \in 1..(N + 1)
      BY <1>0, <3>2, <3>3
    <3>5. EndsIn(O[1], O[r - 1])
      BY <3>1, <3>4
    <3>6. /\ Own(text, rows, r - 1) \in Words /\ O[r] \in Words
          /\ O[r - 1] = Own(text, rows, r - 1) \o O[r]
      BY <1>1, <1>2, <1>3, <3>2, <3>4
    <3>9. EndsIn(O[1], O[r])
      BY <3>5, <3>6, EndsLater
    <3> QED
      BY <3>2, <3>9
  <2> QED
    BY <2>1
<1>5. Flat(text, rows) = O[1]
  BY DEF Flat, O
<1> QED
  BY <1>3, <1>4, <1>5 DEF O, N

(* What is printed in the end of a text is printed in the text.               *)
PrintedIn(text, quote) == \E i \in DOMAIN text : Prints(text, quote, i)

(* A quote printed in the end of a text is printed in the text.               *)
LEMMA PrintsLater ==
    ASSUME NEW whole \in Words, NEW part \in Words, EndsIn(whole, part),
           NEW quote \in Words, quote # <<>>, NEW i \in Nat \ {0}, Prints(part, quote, i)
    PROVE  PrintedIn(whole, quote)
<1> DEFINE W == [w : STRING, num : BOOLEAN]
<1>1. Words = Seq(W)
  BY DEF Words
<1> HIDE DEF W
<1>2. PICK before \in Seq(W) : whole = before \o part
  BY <1>1 DEF EndsIn
<1> DEFINE b == Len(before)
           p == Len(part)
           q == Len(quote)
<1>3. part \in Seq(W) /\ quote \in Seq(W) /\ b \in Nat /\ p \in Nat /\ q \in Nat \ {0}
  BY <1>1
<1>4. /\ Len(whole) = b + p /\ whole \in Seq(W)
      /\ \A k \in 1..p : whole[b + k] = part[k]
  <2>1. \A k \in 1..(b + p) : whole[k] = IF k <= b THEN before[k] ELSE part[k - b]
    BY <1>2, <1>3, ConcatProperties
  <2>2. ASSUME NEW k \in 1..p PROVE whole[b + k] = part[k]
    <3> HIDE DEF b, p
    <3> DEFINE h == b + k
    <3>1. h \in 1..(b + p) /\ ~(h <= b) /\ h - b = k
      BY <1>3
    <3> HIDE DEF h
    <3>2. whole[h] = part[k]
      BY <2>1, <3>1
    <3> QED
      BY <3>2 DEF h
  <2> QED
    BY <2>2, <1>1, <1>2, <1>3, ConcatProperties
<1>5. /\ i + q - 1 <= p /\ \A k \in 1..q : part[i + k - 1] = quote[k]
      /\ DOMAIN quote = 1..q /\ DOMAIN whole = 1..(b + p)
  BY <1>3, <1>4 DEF Prints
<1> HIDE DEF b, p, q
<1>6. b + i + q - 1 <= b + p /\ b + i \in 1..(b + p)
  BY <1>3, <1>5
<1>7. ASSUME NEW k \in 1..q PROVE whole[b + i + k - 1] = quote[k]
  <2>1. i + k - 1 \in 1..p /\ b + (i + k - 1) = b + i + k - 1
    BY <1>3, <1>5
  <2>2. whole[b + (i + k - 1)] = part[i + k - 1]
    BY <1>4, <2>1
  <2> QED
    BY <1>5, <2>1, <2>2
<1>8. Prints(whole, quote, b + i)
  BY <1>4, <1>5, <1>6, <1>7 DEF Prints, q
<1> QED
  BY <1>5, <1>6, <1>8 DEF PrintedIn

(* A text begins with what it was put together from first.                    *)
LEMMA PrintsFirst ==
    ASSUME NEW quote \in Words, NEW rest \in Words, quote # <<>>
    PROVE  Prints(quote \o rest, quote, 1)
<1> DEFINE W == [w : STRING, num : BOOLEAN]
<1>1. Words = Seq(W)
  BY DEF Words
<1> HIDE DEF W
<1>2. quote \in Seq(W) /\ rest \in Seq(W)
  BY <1>1
<1>3. /\ Len(quote \o rest) = Len(quote) + Len(rest)
      /\ \A k \in 1..Len(quote) : (quote \o rest)[k] = quote[k]
  BY <1>2, ConcatProperties
<1> QED
  BY <1>2, <1>3 DEF Prints

(* A passage: lines of one page of its document, and their words.             *)
PassageOf(d, x) ==
    /\ x.rows \subseteq 1..Len(d.text) /\ x.page \in Nat \cup {None}
    /\ \A r \in x.rows : x.page = PageAt(d, r)
    /\ x.words = Flat(d.text, x.rows)

(* What Document.parse lets through, part by part.                            *)
LEMMA TextIs ==
    ASSUME NEW d \in Documents
    PROVE  /\ d.text \in Texts /\ Len(d.text) \in Nat /\ DOMAIN d.text = 1..Len(d.text)
           /\ d.page_count \in Nat
           /\ \A r \in 1..Len(d.text) : d.text[r].page \in Nat /\ d.text[r].words \in Words
<1>1. d.text \in Texts /\ d.page_count \in Nat
  BY DEF Documents, Texts
<1>2. ASSUME NEW r \in 1..Len(d.text) PROVE d.text[r] \in [page : Nat, words : Words]
  BY <1>1, ElementOfSeq DEF Texts
<1>3. Len(d.text) \in Nat /\ DOMAIN d.text = 1..Len(d.text)
  BY <1>1 DEF Texts
<1> QED
  BY <1>1, <1>2, <1>3

(* What is cited stands in the passage, at the page and the line it gives.    *)
LEMMA CitationStands ==
    ASSUME NEW d \in Documents, NEW x, PassageOf(d, x), NEW quote \in Words
    PROVE  /\ citation(d, x, quote) \in Citations
           /\ citation(d, x, quote).quote \in {quote, <<>>}
           /\ Stands(d, x, citation(d, x, quote))
<1> DEFINE at == PrintedAt(d, x.rows, quote)
<1>1. CASE quote = <<>> \/ at = {}
  <2>1. citation(d, x, quote) = Nowhere
    BY <1>1 DEF citation
  <2>2. Nowhere \in Citations /\ Nowhere.quote = <<>>
    BY DEF Nowhere, Citations, Words
  <2> QED
    BY <2>1, <2>2 DEF Stands, Cited
<1>2. CASE quote # <<>> /\ at # {}
  <2> DEFINE c == [quote |-> quote, page |-> x.page, line |-> Min(at)]
  <2>1. citation(d, x, quote) = c
    BY <1>2 DEF citation
  <2>2. at \in SUBSET Nat
    BY TextIs DEF PrintedAt, PassageOf
  <2>3. Min(at) \in at
    BY <1>2, <2>2, MinIs
  <2>4. c \in Citations
    BY <2>2, <2>3 DEF Citations, PassageOf
  <2> DEFINE r == Min(at)
  <2> HIDE DEF at
  <2>5. r \in x.rows /\ \E i \in DOMAIN d.text[r].words : Prints(Onward(d.text, x.rows)[r], quote, i)
    BY <2>3 DEF PrintedAt, at
  <2>6. r \in 1..Len(d.text) /\ r \in 1..(Len(d.text) + 1) /\ 1 \in 1..(Len(d.text) + 1)
    BY <2>5, TextIs DEF PassageOf
  <2>7. PICK i \in DOMAIN d.text[r].words : Prints(Onward(d.text, x.rows)[r], quote, i)
    BY <2>5
  <2>8. i \in Nat \ {0}
    <3>1. d.text[r].words \in Words
      BY <2>6, TextIs
    <3> QED
      BY <3>1 DEF Words
  <2>9. /\ Onward(d.text, x.rows)[r] \in Words /\ Flat(d.text, x.rows) \in Words
        /\ EndsIn(Flat(d.text, x.rows), Onward(d.text, x.rows)[r])
    <3>1. d.text \in Texts
      BY TextIs
    <3> HIDE DEF r
    <3> QED
      BY <2>6, <3>1, OnwardEnds DEF Flat
  <2>10. PrintedIn(x.words, quote)
    <3>1. x.words = Flat(d.text, x.rows)
      BY DEF PassageOf
    <3> HIDE DEF r
    <3> QED
      BY <1>2, <2>7, <2>8, <2>9, <3>1, PrintsLater
  <2>11. Stands(d, x, c)
    BY <2>5, <2>10 DEF Stands, PrintedIn, PassageOf
  <2> QED
    BY <2>1, <2>4, <2>11
<1> QED
  BY <1>1, <1>2

(* A line of a passage can be cited from it.                                  *)
LEMMA LineIsCited ==
    ASSUME NEW d \in Documents, NEW x, PassageOf(d, x), NEW r \in x.rows,
           d.text[r].words # <<>>
    PROVE  citation(d, x, d.text[r].words).quote = d.text[r].words
<1> DEFINE quote == d.text[r].words
           rest == Onward(d.text, x.rows)[r + 1]
<1>1. r \in 1..Len(d.text) /\ d.text \in Texts /\ quote \in Words /\ r + 1 \in 1..(Len(d.text) + 1)
  BY TextIs DEF PassageOf
<1>2. Onward(d.text, x.rows)[r] = quote \o rest
  <2>1. Onward(d.text, x.rows)[r] = Own(d.text, x.rows, r) \o rest
    BY <1>1, OnwardIs
  <2> QED
    BY <2>1 DEF Own
<1>3. rest \in Words
  BY <1>1, OnwardEnds
<1>4. Prints(Onward(d.text, x.rows)[r], quote, 1) /\ 1 \in DOMAIN quote
  <2>1. Prints(quote \o rest, quote, 1)
    <3> HIDE DEF quote, rest
    <3>1. quote # <<>>
      BY DEF quote
    <3> QED
      BY <3>1, <1>1, <1>3, PrintsFirst
  <2>2. 1 \in DOMAIN quote
    BY <1>1 DEF Words
  <2> QED
    BY <1>2, <2>1, <2>2
<1>5. r \in PrintedAt(d, x.rows, quote)
  BY <1>4 DEF PrintedAt
<1> QED
  BY <1>5 DEF citation

-----------------------------------------------------------------------------
(* The last marker up to a line.                                              *)
LEMMA MarkerIs ==
    ASSUME NEW d, NEW r \in Nat
    PROVE  /\ Marker(d, r) \in 0..r
           /\ Marker(d, r) # 0 => IsMarker(d, Marker(d, r))
           /\ \A m \in 1..r : IsMarker(d, m) => m <= Marker(d, r)
<1> DEFINE S == {0} \cup {m \in 1..r : IsMarker(d, m)}
<1>1. S \in SUBSET (0..r) /\ S # {}
  OBVIOUS
<1>2. Marker(d, r) = Max(S)
  BY DEF Marker
<1>3. Marker(d, r) \in S /\ \A m \in S : m <= Marker(d, r)
  <2> HIDE DEF S
  <2> QED
    BY <1>1, <1>2, MaxIs
<1> QED
  BY <1>3

(* No marker between two lines: they are of one page.                         *)
LEMMA SameMarker ==
    ASSUME NEW d, NEW r \in Nat, NEW s \in 1..r, Marker(d, r) <= s
    PROVE  Marker(d, s) = Marker(d, r)
<1>1. /\ Marker(d, r) \in 0..r
      /\ Marker(d, r) # 0 => IsMarker(d, Marker(d, r))
      /\ \A m \in 1..r : IsMarker(d, m) => m <= Marker(d, r)
  BY MarkerIs
<1>2. /\ Marker(d, s) \in 0..s
      /\ Marker(d, s) # 0 => IsMarker(d, Marker(d, s))
      /\ \A m \in 1..s : IsMarker(d, m) => m <= Marker(d, s)
  BY MarkerIs
<1> DEFINE M == Marker(d, r)
           K == Marker(d, s)
<1>3. K <= M
  BY <1>1, <1>2
<1>4. M <= K
  <2>1. CASE M = 0
    BY <1>2, <2>1
  <2>2. CASE M # 0
    <3>1. M \in 1..s /\ IsMarker(d, M)
      BY <1>1, <2>2
    <3> HIDE DEF M
    <3> QED
      BY <1>2, <3>1
  <2> QED
    BY <2>1, <2>2
<1> QED
  BY <1>1, <1>2, <1>3, <1>4

(* Multiples of the size of a passage.                                        *)
LEMMA Multiples ==
    ASSUME NEW C \in Nat \ {0}, NEW n \in Nat
    PROVE  n * C \in Nat /\ n <= n * C /\ (n + 1) * C = n * C + C /\ 0 * C = 0
  OBVIOUS

(* The cut a readable line belongs to: the last one at or before it.          *)
LEMMA LineHasPassage ==
    ASSUME NEW d \in Documents, NEW r \in Readable(d)
    PROVE  \E s \in Starts(d) : r \in PassageFrom(d, s)
<1> DEFINE C == CHUNK_LINES
           M == Marker(d, r)
<1>0. /\ r \in 1..Len(d.text) /\ Len(d.text) \in Nat /\ r \in Nat /\ ~IsMarker(d, r)
      /\ C \in Nat \ {0} /\ DOMAIN d.text = 1..Len(d.text)
  BY TextIs, ComparisonAssumption DEF Readable
<1>1. /\ M \in 0..r
      /\ M # 0 => IsMarker(d, M)
      /\ \A m \in 1..r : IsMarker(d, m) => m <= M
  BY <1>0, MarkerIs
<1> HIDE DEF C, M
<1>2. M < r
  <2>1. M # r
    BY <1>0, <1>1
  <2> QED
    BY <1>0, <1>1, <2>1
<1> DEFINE T == {n \in 0..r : M + 1 + n * C > r}
<1>3. PICK n \in T : \A k \in T : n <= k
  <2>1. r * C \in Nat /\ r <= r * C
    BY <1>0, Multiples
  <2>2. r \in T
    BY <1>0, <1>1, <2>1
  <2>3. T \in SUBSET Nat
    BY <1>0
  <2> HIDE DEF T
  <2> QED
    BY <2>2, <2>3, LeastNumber
<1>4. n \in 0..r /\ n # 0
  BY <1>0, <1>1, <1>2, Multiples
<1> DEFINE k == n - 1
           s == M + 1 + k * C
<1>5. k \in 0..r /\ k \in Nat /\ k + 1 = n /\ k * C \in Nat /\ k <= k * C /\ n * C = k * C + C
  <2>1. k \in 0..r /\ k \in Nat /\ k + 1 = n
    BY <1>0, <1>4
  <2> HIDE DEF k
  <2> QED
    BY <1>0, <2>1, Multiples
<1>6. s <= r /\ r < s + C
  <2>1. k \notin T
    <3>1. ~(n <= k)
      BY <1>4
    <3> HIDE DEF T, k
    <3> QED
      BY <1>3, <3>1
  <2>2. ~(M + 1 + k * C > r)
    <3> HIDE DEF k
    <3> QED
      BY <2>1, <1>5
  <2>3. M + 1 + n * C > r
    OBVIOUS
  <2> HIDE DEF k
  <2> QED
    BY <1>0, <1>1, <1>5, <2>2, <2>3
<1>7. s \in 1..r /\ M < s /\ k \in 0..s
  <2> HIDE DEF k
  <2> QED
    BY <1>0, <1>1, <1>5, <1>6
<1>8. Marker(d, s) = M
  <2> HIDE DEF s
  <2> QED
    BY <1>0, <1>1, <1>7, SameMarker DEF M
<1>9. ~IsMarker(d, s)
  <2> HIDE DEF s
  <2> QED
    BY <1>0, <1>1, <1>7
<1>10. CutAt(d, s)
  <2>1. s = Marker(d, s) + 1 + k * CHUNK_LINES
    <3>1. s = M + 1 + k * C
      OBVIOUS
    <3> HIDE DEF s
    <3> QED
      BY <3>1, <1>8 DEF C
  <2> HIDE DEF s, k
  <2> QED
    BY <2>1, <1>7, <1>9 DEF CutAt
<1> HIDE DEF s, k
<1>11. r \in PassageFrom(d, s)
  <2>1. r \in s..(s + CHUNK_LINES - 1)
    BY <1>0, <1>6, <1>7 DEF C
  <2> QED
    BY <1>0, <1>8, <2>1 DEF PassageFrom, M
<1>12. s \in Starts(d)
  BY <1>0, <1>7, <1>10, <1>11 DEF Starts
<1> QED
  BY <1>11, <1>12

(* The passages of a document: one per start, each of one page.               *)
LEMMA StartsAre ==
    ASSUME NEW d \in Documents
    PROVE  /\ Starts(d) \in SUBSET (1..Len(d.text)) /\ IsFiniteSet(Starts(d))
           /\ Cardinality(Starts(d)) \in Nat
<1>1. Len(d.text) \in Nat /\ Starts(d) \in SUBSET (1..Len(d.text))
  BY TextIs DEF Starts
<1>2. IsFiniteSet(1..Len(d.text))
  BY <1>1, FS_Interval
<1>3. IsFiniteSet(Starts(d))
  BY <1>1, <1>2, FS_Subset
<1> QED
  BY <1>1, <1>3, FS_CardinalityType

(* The lines a passage takes from its start are a passage.                    *)
LEMMA FromIsPassage ==
    ASSUME NEW d \in Documents, NEW s \in Starts(d), NEW x,
           x = [rows |-> PassageFrom(d, s), page |-> PageAt(d, s),
                words |-> Flat(d.text, PassageFrom(d, s))]
    PROVE  PassageOf(d, x)
<1>1. s \in 1..Len(d.text) /\ s \in Nat /\ Len(d.text) \in Nat /\ CHUNK_LINES \in Nat
  BY StartsAre, TextIs, ComparisonAssumption
<1>2. x.rows \subseteq 1..Len(d.text)
  BY <1>1 DEF PassageFrom
<1>3. \A r \in x.rows : PageAt(d, r) = PageAt(d, s)
  BY DEF PassageFrom, PageAt
<1>4. PageAt(d, s) \in Nat \cup {None}
  <2>1. Marker(d, s) \in 0..s
    BY <1>1, MarkerIs
  <2>2. Marker(d, s) # 0 => d.text[Marker(d, s)].page \in Nat
    <3>1. Marker(d, s) # 0 => Marker(d, s) \in 1..Len(d.text)
      BY <1>1, <2>1
    <3> QED
      BY <3>1, TextIs
  <2> QED
    BY <2>2 DEF PageAt
<1> QED
  BY <1>2, <1>3, <1>4 DEF PassageOf

(* The passages of a document leave out no readable line.                     *)
LEMMA ChunksAre ==
    ASSUME NEW d \in Documents
    PROVE  /\ DOMAIN chunks(d) = 1..Len(chunks(d)) /\ Len(chunks(d)) \in Nat
           /\ \A i \in 1..Len(chunks(d)) : PassageOf(d, chunks(d)[i])
           /\ Readable(d) \subseteq UNION {chunks(d)[i].rows : i \in 1..Len(chunks(d))}
<1> DEFINE n == Cardinality(Starts(d))
           order == Ascending(Starts(d))
           at(s) == [rows |-> PassageFrom(d, s), page |-> PageAt(d, s),
                     words |-> Flat(d.text, PassageFrom(d, s))]
<1>1. n \in Nat /\ Starts(d) \in SUBSET Nat /\ IsFiniteSet(Starts(d))
  BY StartsAre, TextIs
<1>2. Lists(Starts(d), order)
  BY <1>1, AscendingIs
<1>3. chunks(d) = [i \in 1..n |-> at(order[i])]
  BY DEF chunks
<1> HIDE DEF n, order
<1>4. Len(chunks(d)) = n /\ DOMAIN chunks(d) = 1..n
  BY <1>1, <1>3
<1>5. \A i \in 1..n : order[i] \in Starts(d) /\ chunks(d)[i] = at(order[i])
  BY <1>2, <1>3 DEF Lists, n
<1>6. ASSUME NEW i \in 1..n PROVE PassageOf(d, chunks(d)[i])
  BY <1>5, FromIsPassage
<1>7. ASSUME NEW r \in Readable(d) PROVE \E i \in 1..n : r \in chunks(d)[i].rows
  <2>1. PICK s \in Starts(d) : r \in PassageFrom(d, s)
    BY LineHasPassage
  <2>2. PICK i \in 1..n : order[i] = s
    BY <1>2 DEF Lists, n
  <2>3. chunks(d)[i].rows = PassageFrom(d, s)
    <3>1. chunks(d)[i] = at(s)
      BY <1>5, <2>2
    <3> QED
      BY <3>1
  <2> QED
    BY <2>1, <2>3
<1> HIDE DEF at
<1> QED
  BY <1>1, <1>4, <1>6, <1>7

-----------------------------------------------------------------------------
(* The same, of the documents by their names.                                 *)
LEMMA PassagesAre ==
    ASSUME NEW n \in Names
    PROVE  /\ DOCS[n] \in Documents
           /\ DOMAIN Passages[n] = 1..Len(Passages[n]) /\ Len(Passages[n]) \in Nat
           /\ \A i \in 1..Len(Passages[n]) : PassageOf(DOCS[n], Passages[n][i])
           /\ Readable(DOCS[n]) \subseteq UNION {Passages[n][i].rows : i \in DOMAIN Passages[n]}
<1>1. DOCS[n] \in Documents
  BY DocumentAssumption
<1>2. Passages[n] = chunks(DOCS[n])
  BY DEF Passages, Names
<1> QED
  BY <1>1, <1>2, ChunksAre

(* The words of a passage can be counted, and compared.                       *)
LEMMA WordsAreFinite ==
    ASSUME NEW x, x.words \in Words
    PROVE  IsFiniteSet(_words(x))
<1> DEFINE n == Len(x.words)
           word(i) == <<x.words[i].w, Cardinality({k \in 1..i : x.words[k].w = x.words[i].w})>>
           f == [i \in 1..n |-> word(i)]
<1>1. n \in Nat /\ DOMAIN x.words = 1..n
  BY DEF Words
<1>2. _words(x) = {word(i) : i \in 1..n}
  BY <1>1 DEF _words
<1>3. f \in Surjection(1..n, _words(x))
  <2> HIDE DEF word, n
  <2> QED
    BY <1>2 DEF Surjection
<1>4. IsFiniteSet(1..n)
  BY <1>1, FS_Interval
<1> HIDE DEF f
<1> QED
  BY <1>3, <1>4, FS_Surjection

(* A quotient is a number.                                                    *)
LEMMA Quotients ==
    ASSUME NEW x \in Nat, NEW y \in Nat \ {0}
    PROVE  x \div y \in Int
  OBVIOUS

(* The fallback scores every pair of passages with a number.                  *)
LEMMA ScoresAreNumbers ==
    ASSUME NEW a, NEW b,
           \A i \in DOMAIN a : a[i].words \in Words, \A i \in DOMAIN b : b[i].words \in Words
    PROVE  LexicalScores(a, b) \in [(DOMAIN a) \X (DOMAIN b) -> Int]
<1>1. ASSUME NEW p \in (DOMAIN a) \X (DOMAIN b)
      PROVE  LexicalScores(a, b)[p] \in Int
  <2> DEFINE x == _words(a[p[1]])
             y == _words(b[p[2]])
             i == Cardinality(x \cap y)
             u == Cardinality(x \cup y)
  <2>1. p[1] \in DOMAIN a /\ p[2] \in DOMAIN b
    OBVIOUS
  <2>2. IsFiniteSet(x) /\ IsFiniteSet(y)
    BY <2>1, WordsAreFinite
  <2>3. LexicalScores(a, b)[p] = (1000000 * i) \div Max({1, u})
    BY DEF LexicalScores
  <2> HIDE DEF x, y
  <2>4. IsFiniteSet(x \cap y) /\ IsFiniteSet(x \cup y)
    BY <2>2, FS_Union, FS_Intersection
  <2>5. i \in Nat /\ u \in Nat
    BY <2>4, FS_CardinalityType
  <2> HIDE DEF i, u
  <2>6. {1, u} \in SUBSET (0..(u + 1)) /\ {1, u} # {} /\ u + 1 \in Nat
    BY <2>5
  <2>7. Max({1, u}) \in {1, u} /\ 1 <= Max({1, u})
    BY <2>6, MaxIs
  <2>8. Max({1, u}) \in Nat \ {0} /\ 1000000 * i \in Nat
    BY <2>5, <2>7
  <2> QED
    BY <2>3, <2>8, Quotients
<1> QED
  BY <1>1 DEF LexicalScores

(* Pairs of passages, put in order.                                           *)
HasAll(list, A) == \A p \in A : \E k \in DOMAIN list : list[k] = p

(* The worker's list of pairs has every pair found, and no other.             *)
LEMMA PairsInOrder ==
    ASSUME NEW n \in Nat, NEW m \in Nat, NEW A \in SUBSET ((1..n) \X (1..m))
    PROVE  /\ InOrder(A) \in Seq((1..n) \X (1..m))
           /\ HasAll(InOrder(A), A)
<1>1. IsFiniteSet(1..n) /\ IsFiniteSet(1..m)
  BY FS_Interval
<1>2. IsFiniteSet((1..n) \X (1..m))
  BY <1>1, FS_Product
<1>3. IsFiniteSet(A) /\ A \in SUBSET (Nat \X Nat)
  BY <1>2, FS_Subset
<1>4. Lists(A, InOrder(A)) /\ Cardinality(A) \in Nat
  BY <1>3, InOrderIs, FS_CardinalityType
<1> DEFINE X == (1..n) \X (1..m)
           q == InOrder(A)
           c == Cardinality(A)
<1>5. A \in SUBSET X
  OBVIOUS
<1> HIDE DEF X, q, c
<1>6. c \in Nat /\ q \in [1..c -> A] /\ \A p \in A : \E k \in 1..c : q[k] = p
  BY <1>4 DEF Lists, q, c
<1>7. q \in Seq(X) /\ DOMAIN q = 1..c
  BY <1>5, <1>6
<1> QED
  BY <1>6, <1>7 DEF q, X, HasAll

(* Each passage of either document is in a nearest pair.                      *)
LEMMA NearestAre ==
    ASSUME NEW n \in Nat \ {0}, NEW m \in Nat \ {0},
           NEW scores \in [(1..n) \X (1..m) -> Int]
    PROVE  /\ NearestPairs(n, m, scores) \in SUBSET ((1..n) \X (1..m))
           /\ \A i \in 1..n : \E j \in 1..m : <<i, j>> \in NearestPairs(n, m, scores)
           /\ \A j \in 1..m : \E i \in 1..n : <<i, j>> \in NearestPairs(n, m, scores)
<1>1. ASSUME NEW i \in 1..n PROVE FirstBest([j \in 1..m |-> scores[<<i, j>>]]) \in 1..m
  <2>1. [j \in 1..m |-> scores[<<i, j>>]] \in [1..m -> Int]
    OBVIOUS
  <2> QED
    BY <2>1, BestIs
<1>2. ASSUME NEW j \in 1..m PROVE FirstBest([i \in 1..n |-> scores[<<i, j>>]]) \in 1..n
  <2>1. [i \in 1..n |-> scores[<<i, j>>]] \in [1..n -> Int]
    OBVIOUS
  <2> QED
    BY <2>1, BestIs
<1> QED
  BY <1>1, <1>2 DEF NearestPairs

-----------------------------------------------------------------------------
(* The pair at hand: a passage of each document.                              *)
HasPairs(j) == j \in Jobs /\ j.a \in Names /\ j.b \in Names /\ Between(j)

(* The pairs of a job are passages of its two documents.                      *)
LEMMA PairOf ==
    ASSUME NEW j, HasPairs(j), NEW k \in DOMAIN j.pairs
    PROVE  /\ DOMAIN j.pairs = 1..Len(j.pairs) /\ Len(j.pairs) \in Nat
           /\ DOCS[j.a] \in Documents /\ DOCS[j.b] \in Documents
           /\ j.pairs[k][1] \in DOMAIN Passages[j.a] /\ j.pairs[k][1] \in Nat
           /\ j.pairs[k][2] \in DOMAIN Passages[j.b] /\ j.pairs[k][2] \in Nat
           /\ PassageOf(DOCS[j.a], Passages[j.a][j.pairs[k][1]])
           /\ PassageOf(DOCS[j.b], Passages[j.b][j.pairs[k][2]])
<1> DEFINE n == Len(Passages[j.a])
           m == Len(Passages[j.b])
<1>1. /\ DOCS[j.a] \in Documents /\ DOCS[j.b] \in Documents
      /\ DOMAIN Passages[j.a] = 1..n /\ DOMAIN Passages[j.b] = 1..m /\ n \in Nat /\ m \in Nat
      /\ \A i \in 1..n : PassageOf(DOCS[j.a], Passages[j.a][i])
      /\ \A i \in 1..m : PassageOf(DOCS[j.b], Passages[j.b][i])
  BY PassagesAre DEF HasPairs
<1> HIDE DEF n, m
<1>2. j.pairs \in Seq((1..n) \X (1..m))
  BY <1>1 DEF HasPairs, Between
<1>3. DOMAIN j.pairs = 1..Len(j.pairs) /\ Len(j.pairs) \in Nat /\ j.pairs[k] \in (1..n) \X (1..m)
  BY <1>2
<1>4. j.pairs[k][1] \in 1..n /\ j.pairs[k][2] \in 1..m
  BY <1>3
<1> QED
  BY <1>1, <1>3, <1>4

(* What is added to the findings stands in the pair at hand.                  *)
StandsIn(j, f) ==
    /\ f \in Findings
    /\ Stands(DOCS[j.a], Left(j), f.a) /\ Stands(DOCS[j.b], Right(j), f.b)

(* A job with a pair before it.                                               *)
At(j) == HasPairs(j) /\ j.at \in DOMAIN j.pairs

(* The pair before it: a passage of each document.                            *)
LEMMA AtPair ==
    ASSUME NEW j, At(j)
    PROVE  /\ DOCS[j.a] \in Documents /\ DOCS[j.b] \in Documents
           /\ PassageOf(DOCS[j.a], Left(j)) /\ PassageOf(DOCS[j.b], Right(j))
  BY PairOf DEF At, Left, Right

(* A row that is let through quotes what stands in the pair.                  *)
LEMMA ValidStands ==
    ASSUME NEW j, At(j), NEW row \in ROWS, Valid(j, row) # None
    PROVE  StandsIn(j, Valid(j, row))
<1>1. /\ row.aspect \in ASPECTS /\ row.status \in STATUSES
      /\ row.quote_a \in Words /\ row.quote_b \in Words
  BY DocumentAssumption
<1> DEFINE ca == citation(DOCS[j.a], Left(j), row.quote_a)
           cb == citation(DOCS[j.b], Right(j), row.quote_b)
           v == [aspect |-> row.aspect, status |-> row.status, a |-> ca, b |-> cb]
<1>2. /\ ca \in Citations /\ Stands(DOCS[j.a], Left(j), ca)
      /\ cb \in Citations /\ Stands(DOCS[j.b], Right(j), cb)
  BY <1>1, AtPair, CitationStands
<1>3. Valid(j, row) = v
  BY DEF Valid, _validated
<1> HIDE DEF ca, cb
<1>4. v \in Findings /\ v.a = ca /\ v.b = cb
  BY <1>1, <1>2 DEF Findings
<1> HIDE DEF v
<1> QED
  BY <1>2, <1>3, <1>4 DEF StandsIn

(* The exact comparison quotes the lines it compared.                         *)
LEMMA DifferencesStand ==
    ASSUME NEW j, At(j), NEW f \in Differences(j)
    PROVE  StandsIn(j, f)
<1> DEFINE d == DOCS[j.a]
           e == DOCS[j.b]
<1>1. d \in Documents /\ e \in Documents /\ PassageOf(d, Left(j)) /\ PassageOf(e, Right(j))
  BY AtPair
<1>2. PICK p \in Left(j).rows \X Right(j).rows :
        f = [aspect |-> "values", status |-> "different",
             a |-> citation(d, Left(j), d.text[p[1]].words),
             b |-> citation(e, Right(j), e.text[p[2]].words)]
  BY DEF Differences, exact_value_findings
<1>3. d.text[p[1]].words \in Words /\ e.text[p[2]].words \in Words
  <2> HIDE DEF d, e
  <2>1. p[1] \in 1..Len(d.text) /\ p[2] \in 1..Len(e.text)
    BY <1>1 DEF PassageOf
  <2> QED
    BY <1>1, <2>1, TextIs
<1> DEFINE ca == citation(d, Left(j), d.text[p[1]].words)
           cb == citation(e, Right(j), e.text[p[2]].words)
<1>4. /\ ca \in Citations /\ Stands(d, Left(j), ca)
      /\ cb \in Citations /\ Stands(e, Right(j), cb)
  <2> HIDE DEF d, e
  <2> QED
    BY <1>1, <1>3, CitationStands
<1> HIDE DEF ca, cb
<1>5. f = [aspect |-> "values", status |-> "different", a |-> ca, b |-> cb]
  BY <1>2 DEF ca, cb
<1>6. f \in Findings /\ f.a = ca /\ f.b = cb
  <2> DEFINE v == [aspect |-> "values", status |-> "different", a |-> ca, b |-> cb]
  <2>1. "values" \in ASPECTS /\ "different" \in STATUSES
    BY DEF ASPECTS, STATUSES
  <2>2. v \in Findings
    BY <1>4, <2>1 DEF Findings
  <2> QED
    BY <1>5, <2>2
<1> QED
  BY <1>4, <1>6 DEF StandsIn

(* Two lines of the pair with other numbers are among the differences.        *)
LEMMA DifferencesTell ==
    ASSUME NEW j, At(j), NEW ra \in Left(j).rows, NEW rb \in Right(j).rows,
           NumbersChanged(DOCS[j.a].text[ra].words, DOCS[j.b].text[rb].words)
    PROVE  \E f \in Differences(j) :
                /\ f.aspect = "values" /\ f.status = "different"
                /\ f.a.quote = DOCS[j.a].text[ra].words /\ f.b.quote = DOCS[j.b].text[rb].words
<1> DEFINE d == DOCS[j.a]
           e == DOCS[j.b]
           la == d.text[ra].words
           lb == e.text[rb].words
           f == [aspect |-> "values", status |-> "different",
                 a |-> citation(d, Left(j), la), b |-> citation(e, Right(j), lb)]
<1>1. d \in Documents /\ e \in Documents /\ PassageOf(d, Left(j)) /\ PassageOf(e, Right(j))
  BY AtPair
<1>2. la # <<>> /\ lb # <<>>
  <2>1. /\ \E t \in Range(la) : ~t.num
        /\ Skeleton(la) = Skeleton(lb)
    BY DEF NumbersChanged, Edited
  <2>2. la \in Words /\ lb \in Words
    <3>1. ra \in 1..Len(d.text) /\ rb \in 1..Len(e.text)
      BY <1>1 DEF PassageOf
    <3> QED
      BY <1>1, <3>1, TextIs
  <2> HIDE DEF la, lb
  <2>3. la # <<>>
    BY <2>1 DEF Range
  <2>4. DOMAIN la = DOMAIN lb
    BY <2>1 DEF Skeleton
  <2>5. lb # <<>>
    BY <2>2, <2>3, <2>4 DEF Words
  <2> QED
    BY <2>3, <2>5
<1>3. citation(d, Left(j), la).quote = la /\ citation(e, Right(j), lb).quote = lb
  BY <1>1, <1>2, LineIsCited
<1>4. f \in Differences(j)
  <2> DEFINE S == {q \in Left(j).rows \X Right(j).rows :
                     NumbersChanged(d.text[q[1]].words, e.text[q[2]].words)}
             It(q) == [aspect |-> "values", status |-> "different",
                       a |-> citation(d, Left(j), d.text[q[1]].words),
                       b |-> citation(e, Right(j), e.text[q[2]].words)]
  <2>1. Differences(j) = {It(q) : q \in S}
    BY DEF Differences, exact_value_findings
  <2> DEFINE p == <<ra, rb>>
  <2>2. p \in S
    OBVIOUS
  <2>3. f = It(p)
    OBVIOUS
  <2> HIDE DEF S, It, f, p
  <2> QED
    BY <2>1, <2>2, <2>3
<1> HIDE DEF la, lb
<1>5. f.aspect = "values" /\ f.status = "different" /\ f.a.quote = la /\ f.b.quote = lb
  BY <1>3
<1> HIDE DEF f
<1> QED
  BY <1>4, <1>5 DEF la, lb

-----------------------------------------------------------------------------
(* Findings are added: those there were stay, the others stand in the pair.   *)
Grows(j, k) ==
    /\ k \in Jobs /\ k.a = j.a /\ k.b = j.b /\ k.pairs = j.pairs /\ k.at = j.at
    /\ k.seen_a = j.seen_a /\ k.seen_b = j.seen_b /\ k.failures = j.failures
    /\ k.complete = j.complete
    /\ j.findings \subseteq k.findings
    /\ \A f \in k.findings : f \in j.findings \/ StandsIn(j, f)

(* A job at a pair, nothing passed over silently so far.                      *)
Busy(j) == j \in Jobs /\ Progressed(j) /\ j.at <= Len(j.pairs)

(* A job at a pair has that pair before it.                                   *)
LEMMA BusyAt ==
    ASSUME NEW j, Busy(j)
    PROVE  At(j) /\ HasPairs(j) /\ j.at \in Nat \ {0} /\ DOMAIN j.pairs = 1..Len(j.pairs)
           /\ Len(j.pairs) \in Nat
<1>1. j.at \in Nat \ {0} /\ j.pairs \in Seq(Nat \X Nat)
  BY DEF Busy, Jobs
<1>2. HasPairs(j)
  BY DEF Busy, Progressed, HasPairs
<1> QED
  BY <1>1, <1>2 DEF At, Busy

(* Adding findings takes back no number that was told.                        *)
LEMMA ToldStays ==
    ASSUME NEW j, NEW k, Grows(j, k), NEW n, Told(j, n)
    PROVE  Told(k, n)
<1>1. \A la, lb : LinesTold(j, la, lb) => LinesTold(k, la, lb)
  BY DEF LinesTold, Grows
<1>2. Identical(k) = Identical(j)
  BY DEF Identical, Grows
<1> QED
  BY <1>1, <1>2 DEF Told, Grows

(* Adding findings of the pair breaks no promise.                             *)
LEMMA GrowsKeeps ==
    ASSUME NEW j, NEW k, Busy(j), Grows(j, k), k.lost => k.rejected > 0
    PROVE  Busy(k)
<1>1. At(j) /\ HasPairs(j)
  BY BusyAt
<1>2. Between(k)
  BY DEF Between, Grows, Busy, Progressed
<1>3. Covering(k)
  <2>1. SameCut(k) = SameCut(j)
    BY DEF SameCut, Identical, Grows
  <2> QED
    BY <2>1 DEF Covering, Grows, Busy, Progressed
<1>4. Passed(k)
  BY DEF Passed, Grows, Busy, Progressed
<1>5. \A n \in 1..(k.at - 1) : Told(k, n)
  <2>1. \A n \in 1..(j.at - 1) : Told(j, n)
    BY DEF Busy, Progressed
  <2> QED
    BY <2>1, ToldStays DEF Grows
<1>6. ASSUME NEW f \in k.findings PROVE Backed(k, f)
  <2>1. CASE f \in j.findings
    <3>1. Backed(j, f)
      BY <2>1 DEF Busy, Progressed
    <3> QED
      BY <3>1 DEF Backed, Grows
  <2>2. CASE StandsIn(j, f)
    BY <2>2, <1>1 DEF StandsIn, Left, Right, At, Backed, Grows
  <2> QED
    BY <2>1, <2>2 DEF Grows
<1> QED
  BY <1>2, <1>3, <1>4, <1>5, <1>6 DEF Busy, Progressed, Grows

(* On to the next pair: this one reviewed, or failed.                         *)
Passes(j, k) ==
    /\ k \in Jobs /\ k.a = j.a /\ k.b = j.b /\ k.pairs = j.pairs /\ k.at = j.at + 1
    /\ k.findings = j.findings /\ k.rejected = j.rejected /\ k.lost = j.lost
    /\ k.complete = j.complete
    /\ j.seen_a \subseteq k.seen_a /\ j.seen_b \subseteq k.seen_b /\ j.failures \subseteq k.failures
    /\ \/ j.at \in k.failures
       \/ j.pairs[j.at][1] \in k.seen_a /\ j.pairs[j.at][2] \in k.seen_b

(* Nor does going on, once the numbers of the pair are told.                  *)
LEMMA NextKeeps ==
    ASSUME NEW j, NEW k, Busy(j), Told(j, j.at), Passes(j, k)
    PROVE  k \in Jobs /\ Progressed(k)
<1>1. At(j) /\ HasPairs(j) /\ j.at \in Nat \ {0} /\ Len(j.pairs) \in Nat
  BY BusyAt
<1>2. Between(k)
  BY DEF Between, Passes, Busy, Progressed
<1>3. Covering(k)
  <2>1. SameCut(k) = SameCut(j)
    BY DEF SameCut, Identical, Passes
  <2> QED
    BY <2>1 DEF Covering, Passes, Busy, Progressed
<1>4. \A n \in 1..(k.at - 1) : n = j.at \/ n \in 1..(j.at - 1)
  BY <1>1 DEF Passes
<1>5. Passed(k)
  <2>1. Passed(j)
    BY DEF Busy, Progressed
  <2> QED
    BY <2>1, <1>4 DEF Passed, Passes
<1>6. ASSUME NEW n \in 1..(k.at - 1) PROVE Told(k, n)
  <2>1. Told(j, n)
    BY <1>4 DEF Busy, Progressed
  <2>2. Identical(k) = Identical(j) /\ \A la, lb : LinesTold(j, la, lb) => LinesTold(k, la, lb)
    BY DEF Identical, LinesTold, Passes
  <2> QED
    BY <2>1, <2>2 DEF Told, Passes
<1>7. \A f \in k.findings : Backed(k, f)
  BY DEF Backed, Passes, Busy, Progressed
<1>8. k.at <= Len(k.pairs) + 1
  BY <1>1 DEF Busy, Passes
<1>9. /\ k.a \in Names /\ k.b \in Names
      /\ k.lost => k.rejected > 0
  BY DEF Passes, Busy, Progressed
<1> QED
  BY <1>2, <1>3, <1>5, <1>6, <1>7, <1>8, <1>9 DEF Progressed, Passes

(* A pair reviewed is a pair passed.                                          *)
LEMMA ReviewedIs ==
    ASSUME NEW j, Busy(j)
    PROVE  Passes(j, Reviewed(j))
<1>1. j.pairs[j.at][1] \in Nat /\ j.pairs[j.at][2] \in Nat
  BY BusyAt, PairOf DEF At
<1>2. j \in Jobs
  BY DEF Busy
<1>3. Reviewed(j) \in Jobs
  <2> DEFINE A == j.seen_a \cup {j.pairs[j.at][1]}
             B == j.seen_b \cup {j.pairs[j.at][2]}
             n == j.at + 1
  <2>1. A \in SUBSET Nat /\ B \in SUBSET Nat /\ n \in Nat \ {0}
    BY <1>1, <1>2 DEF Jobs
  <2>2. Reviewed(j) = [j EXCEPT !.seen_a = A, !.seen_b = B, !.at = n]
    BY DEF Reviewed
  <2> HIDE DEF A, B, n
  <2>3. [j EXCEPT !.seen_a = A, !.seen_b = B, !.at = n] \in Jobs
    BY <1>2, <2>1 DEF Jobs
  <2> QED
    BY <2>2, <2>3
<1> QED
  BY <1>2, <1>3 DEF Reviewed, Passes, Jobs

(* A pair that failed is a pair passed.                                       *)
LEMMA FailedIs ==
    ASSUME NEW j, Busy(j)
    PROVE  Passes(j, Failed(j))
<1>2. j \in Jobs
  BY DEF Busy
<1>3. Failed(j) \in Jobs
  <2> DEFINE A == j.failures \cup {j.at}
             n == j.at + 1
  <2>1. A \in SUBSET Nat /\ n \in Nat \ {0}
    BY <1>2 DEF Jobs
  <2>2. Failed(j) = [j EXCEPT !.failures = A, !.at = n]
    BY DEF Failed
  <2> HIDE DEF A, n
  <2>3. [j EXCEPT !.failures = A, !.at = n] \in Jobs
    BY <1>2, <2>1 DEF Jobs
  <2> QED
    BY <2>2, <2>3
<1> QED
  BY <1>2, <1>3 DEF Failed, Passes, Jobs

(* What add does: nothing is lost, nothing else comes in, and what is not     *)
(* taken is there under the same key.                                         *)
LEMMA AddIs ==
    ASSUME NEW F, NEW items
    PROVE  /\ F \subseteq add(F, items) /\ add(F, items) \subseteq F \cup items
           /\ \A f \in items : \E g \in add(F, items) : Key(g) = Key(f)
  BY DEF add

(* Findings of the pair are added to those there were.                        *)
LEMMA AddTypes ==
    ASSUME NEW j, Busy(j), NEW items, \A f \in items : StandsIn(j, f)
    PROVE  /\ add(j.findings, items) \in SUBSET Findings
           /\ j.findings \subseteq add(j.findings, items)
           /\ \A f \in add(j.findings, items) : f \in j.findings \/ StandsIn(j, f)
<1>1. j.findings \in SUBSET Findings
  BY DEF Busy, Jobs
<1>2. j.findings \subseteq add(j.findings, items) /\ add(j.findings, items) \subseteq j.findings \cup items
  BY AddIs
<1>3. \A f \in items : f \in Findings
  BY DEF StandsIn
<1> QED
  BY <1>1, <1>2, <1>3

(* A job with findings of its pair added is at the same pair.                 *)
LEMMA AddGrows ==
    ASSUME NEW j, Busy(j), NEW items, \A f \in items : StandsIn(j, f),
           NEW k, k = [j EXCEPT !.findings = add(@, items)]
    PROVE  /\ Grows(j, k) /\ Busy(k) /\ k.findings = add(j.findings, items)
           /\ At(k) /\ Left(k) = Left(j) /\ Right(k) = Right(j)
<1> DEFINE F == add(j.findings, items)
<1>1. /\ F \in SUBSET Findings /\ j.findings \subseteq F
      /\ \A f \in F : f \in j.findings \/ StandsIn(j, f)
  BY AddTypes
<1>2. k = [j EXCEPT !.findings = F] /\ j \in Jobs
  BY DEF Busy
<1> HIDE DEF F
<1>3. /\ k \in Jobs /\ k.findings = F /\ k.lost = j.lost /\ k.rejected = j.rejected
      /\ k.a = j.a /\ k.b = j.b /\ k.pairs = j.pairs /\ k.at = j.at
      /\ k.seen_a = j.seen_a /\ k.seen_b = j.seen_b /\ k.failures = j.failures
      /\ k.complete = j.complete
  BY <1>1, <1>2 DEF Jobs
<1>4. Grows(j, k)
  BY <1>1, <1>3 DEF Grows
<1>5. Busy(k)
  BY <1>3, <1>4, GrowsKeeps DEF Busy, Progressed
<1>6. At(k) /\ Left(k) = Left(j) /\ Right(k) = Right(j)
  BY <1>3, <1>5, BusyAt DEF Left, Right
<1> QED
  BY <1>3, <1>4, <1>5, <1>6 DEF F

(* Once the numbers of a pair are compared, what changed is told.             *)
LEMMA ComparedTells ==
    ASSUME NEW j, Busy(j)
    PROVE  /\ Busy(Compared(j)) /\ Told(Compared(j), Compared(j).at)
           /\ Compared(j).complete = j.complete
<1> DEFINE k == Compared(j)
<1>0. At(j) /\ \A f \in Differences(j) : StandsIn(j, f)
  BY BusyAt, DifferencesStand
<1>1. k = [j EXCEPT !.findings = add(@, Differences(j))]
  BY DEF Compared
<1> HIDE DEF k
<1>2. /\ Grows(j, k) /\ Busy(k) /\ k.findings = add(j.findings, Differences(j))
  BY <1>0, <1>1, AddGrows
<1>3. ASSUME NEW ra \in Left(j).rows, NEW rb \in Right(j).rows,
             NumbersChanged(DOCS[j.a].text[ra].words, DOCS[j.b].text[rb].words)
      PROVE  LinesTold(k, DOCS[j.a].text[ra].words, DOCS[j.b].text[rb].words)
  <2> DEFINE la == DOCS[j.a].text[ra].words
             lb == DOCS[j.b].text[rb].words
  <2>1. PICK f \in Differences(j) : /\ f.aspect = "values" /\ f.status = "different"
                                    /\ f.a.quote = la /\ f.b.quote = lb
    BY <1>0, <1>3, DifferencesTell
  <2>2. PICK g \in k.findings : Key(g) = Key(f)
    BY <1>2, AddIs
  <2>3. g.status = "different" /\ g.a.quote = la /\ g.b.quote = lb
    BY <2>1, <2>2 DEF Key
  <2> QED
    BY <2>3 DEF LinesTold
<1>4. Told(k, k.at)
  BY <1>2, <1>3 DEF Told, Grows, Left, Right
<1> QED
  BY <1>2, <1>4 DEF Grows, k

(* Identical texts: each passage is found in both.                            *)
LEMMA AgreedKeeps ==
    ASSUME NEW j, Busy(j), Identical(j)
    PROVE  Agreed(j) \in Jobs /\ Progressed(Agreed(j)) /\ Agreed(j).complete = j.complete
<1> DEFINE f == [aspect |-> "language", status |-> "same",
                 a |-> citation(DOCS[j.a], Left(j), Left(j).words),
                 b |-> citation(DOCS[j.b], Right(j), Right(j).words)]
           k == [j EXCEPT !.findings = add(@, {f})]
<1>1. StandsIn(j, f)
  <2>1. /\ DOCS[j.a] \in Documents /\ DOCS[j.b] \in Documents
        /\ PassageOf(DOCS[j.a], Left(j)) /\ PassageOf(DOCS[j.b], Right(j))
    BY BusyAt, AtPair
  <2>2. Left(j).words \in Words /\ Right(j).words \in Words
    <3>1. ASSUME NEW d \in Documents, NEW x, PassageOf(d, x) PROVE x.words \in Words
      <4>1. d.text \in Texts /\ 1 \in 1..(Len(d.text) + 1)
        BY TextIs
      <4>2. Flat(d.text, x.rows) \in Words
        BY <4>1, OnwardEnds DEF Flat
      <4> QED
        BY <3>1, <4>2 DEF PassageOf
    <3> QED
      BY <2>1, <3>1
  <2> DEFINE ca == citation(DOCS[j.a], Left(j), Left(j).words)
             cb == citation(DOCS[j.b], Right(j), Right(j).words)
  <2>3. /\ ca \in Citations /\ Stands(DOCS[j.a], Left(j), ca)
        /\ cb \in Citations /\ Stands(DOCS[j.b], Right(j), cb)
    BY <2>1, <2>2, CitationStands
  <2>4. f = [aspect |-> "language", status |-> "same", a |-> ca, b |-> cb]
    OBVIOUS
  <2> HIDE DEF ca, cb, f
  <2>5. "language" \in ASPECTS /\ "same" \in STATUSES
    BY DEF ASPECTS, STATUSES
  <2>6. f \in Findings /\ f.a = ca /\ f.b = cb
    BY <2>3, <2>4, <2>5 DEF Findings
  <2> QED
    BY <2>3, <2>6 DEF StandsIn
<1>2. Agreed(j) = Reviewed(k)
  BY DEF Agreed
<1> HIDE DEF f
<1>3. Grows(j, k) /\ Busy(k)
  <2>1. \A g \in {f} : StandsIn(j, g)
    BY <1>1
  <2>2. k = [j EXCEPT !.findings = add(@, {f})]
    OBVIOUS
  <2> HIDE DEF k
  <2> QED
    BY <2>1, <2>2, AddGrows
<1> HIDE DEF k
<1>4. Told(k, k.at)
  BY <1>3 DEF Told, Identical, Grows
<1>5. Passes(k, Reviewed(k))
  BY <1>3, ReviewedIs
<1> QED
  BY <1>2, <1>3, <1>4, <1>5, NextKeeps DEF Grows, Passes

(* The rows of an answer that hold are findings of the pair.                  *)
LEMMA GoodStands ==
    ASSUME NEW j, Busy(j), NEW rows \in Seq(ROWS)
    PROVE  /\ \A f \in Good(j, rows) : StandsIn(j, f)
           /\ IsFiniteSet(Bad(j, rows)) /\ Cardinality(Bad(j, rows)) \in 0..Len(rows)
           /\ Len(rows) \in Nat
<1>1. DOMAIN rows = 1..Len(rows) /\ Len(rows) \in Nat /\ \A i \in DOMAIN rows : rows[i] \in ROWS
  OBVIOUS
<1>2. \A f \in Good(j, rows) : StandsIn(j, f)
  BY <1>1, BusyAt, ValidStands DEF Good, Bad
<1>3. IsFiniteSet(1..Len(rows)) /\ Cardinality(1..Len(rows)) = Len(rows)
  <2> DEFINE n == Len(rows)
  <2>1. 1 \in Int /\ n \in Int /\ (IF 1 > n THEN 0 ELSE n - 1 + 1) = n
    BY <1>1
  <2> HIDE DEF n
  <2>2. IsFiniteSet(1..n) /\ Cardinality(1..n) = n
    BY <2>1, FS_Interval
  <2> QED
    BY <2>2 DEF n
<1>4. Bad(j, rows) \in SUBSET (1..Len(rows))
  BY <1>1 DEF Bad
<1>5. IsFiniteSet(Bad(j, rows)) /\ Cardinality(Bad(j, rows)) <= Len(rows)
      /\ Cardinality(Bad(j, rows)) \in Nat
  BY <1>3, <1>4, FS_Subset, FS_CardinalityType
<1> QED
  BY <1>1, <1>2, <1>5

(* A round that ends well: the pair is reviewed.                              *)
LEMMA ReviewedKeeps ==
    ASSUME NEW j, Busy(j), Told(j, j.at)
    PROVE  Reviewed(j) \in Jobs /\ Progressed(Reviewed(j)) /\ Reviewed(j).complete = j.complete
  BY ReviewedIs, NextKeeps DEF Passes

(* A round that fails: the pair is counted as failed.                         *)
LEMMA FailedKeeps ==
    ASSUME NEW j, Busy(j), Told(j, j.at)
    PROVE  Failed(j) \in Jobs /\ Progressed(Failed(j)) /\ Failed(j).complete = j.complete
  BY FailedIs, NextKeeps DEF Passes

(* A first round with rows that fail: they are counted, the rest kept.        *)
LEMMA KeptIs ==
    ASSUME NEW j, Busy(j), Told(j, j.at), NEW rows \in Seq(ROWS)
    PROVE  /\ Busy(Kept(j, rows)) /\ Told(Kept(j, rows), Kept(j, rows).at)
           /\ Kept(j, rows).complete = j.complete
           /\ Bad(j, rows) # {} => Kept(j, rows).invalid > 0
<1> DEFINE F == add(j.findings, Good(j, rows))
           n == Cardinality(Bad(j, rows))
           k == Kept(j, rows)
<1>1. /\ F \in SUBSET Findings /\ j.findings \subseteq F
      /\ \A f \in F : f \in j.findings \/ StandsIn(j, f)
  BY GoodStands, AddTypes
<1>2. n \in Nat /\ (Bad(j, rows) # {} => n > 0)
  BY GoodStands, FS_EmptySet
<1>3. k = [j EXCEPT !.findings = F, !.invalid = n] /\ j \in Jobs
  BY DEF Kept, Busy
<1> HIDE DEF F, n, k
<1>4. k \in Jobs
  <2>1. [j EXCEPT !.findings = F, !.invalid = n] \in Jobs
    BY <1>1, <1>2, <1>3 DEF Jobs
  <2> QED
    BY <2>1, <1>3
<1>5. /\ k.findings = F /\ k.invalid = n /\ k.lost = j.lost /\ k.rejected = j.rejected
      /\ k.a = j.a /\ k.b = j.b /\ k.pairs = j.pairs /\ k.at = j.at
      /\ k.seen_a = j.seen_a /\ k.seen_b = j.seen_b /\ k.failures = j.failures
      /\ k.complete = j.complete
  BY <1>3 DEF Jobs
<1>6. Grows(j, k)
  BY <1>1, <1>4, <1>5 DEF Grows
<1>7. Busy(k)
  BY <1>5, <1>6, GrowsKeeps DEF Busy, Progressed
<1>8. Told(k, k.at)
  BY <1>5, <1>6, ToldStays
<1> QED
  BY <1>2, <1>5, <1>7, <1>8 DEF k

(* After the second round no row is lost that is not counted.                 *)
LEMMA RepairedKeeps ==
    ASSUME NEW j, Busy(j), Told(j, j.at), NEW rows \in Seq(ROWS), j.invalid > 0
    PROVE  /\ Repaired(j, rows) \in Jobs /\ Progressed(Repaired(j, rows))
           /\ Repaired(j, rows).complete = j.complete
<1> DEFINE F == add(j.findings, Good(j, rows))
           wrong == Cardinality(Bad(j, rows))
           x == Rejected(j.invalid, Len(rows) - wrong, wrong)
           r == j.rejected + x
           l == j.lost \/ wrong > 0 \/ Len(rows) < j.invalid
           k == [j EXCEPT !.findings = F, !.rejected = r, !.lost = l]
<1>1. /\ F \in SUBSET Findings /\ j.findings \subseteq F
      /\ \A f \in F : f \in j.findings \/ StandsIn(j, f)
  BY GoodStands, AddTypes
<1>2. wrong \in 0..Len(rows) /\ Len(rows) \in Nat
  BY GoodStands
<1>3. j \in Jobs /\ j.invalid \in Nat /\ j.rejected \in Nat /\ j.lost \in BOOLEAN
      /\ (j.lost => j.rejected > 0)
  BY DEF Busy, Jobs, Progressed
<1>4. Repaired(j, rows) = Reviewed(k)
  BY DEF Repaired
<1> HIDE DEF F, wrong
<1>5. x \in Nat /\ wrong <= x /\ j.invalid - (Len(rows) - wrong) <= x
  <2> DEFINE u == j.invalid - (Len(rows) - wrong)
  <2>1. u \in Int /\ wrong \in Nat
    BY <1>2, <1>3
  <2>2. x = Max({wrong, u})
    BY DEF Rejected
  <2> HIDE DEF u, x
  <2>3. Max({wrong, u}) \in {wrong, u} /\ wrong <= Max({wrong, u}) /\ u <= Max({wrong, u})
    <3>1. wrong >= u \/ u >= wrong
      BY <2>1
    <3>2. \E z \in {wrong, u} : \A y \in {wrong, u} : z >= y
      BY <2>1, <3>1
    <3> QED
      BY <3>2 DEF Max
  <2> QED
    BY <2>1, <2>2, <2>3 DEF u
<1>6. r \in Nat /\ l \in BOOLEAN /\ (l => r > 0)
  <2> HIDE DEF x
  <2>1. r \in Nat /\ r >= j.rejected /\ (x > 0 => r > 0)
    BY <1>3, <1>5
  <2>2. wrong > 0 => x > 0
    BY <1>2, <1>5
  <2>3. Len(rows) < j.invalid => x > 0
    BY <1>2, <1>3, <1>5
  <2> HIDE DEF r
  <2> QED
    BY <1>3, <2>1, <2>2, <2>3
<1> HIDE DEF r, l, x
<1>7. k \in Jobs
  BY <1>1, <1>3, <1>6 DEF Jobs
<1>8. /\ k.findings = F /\ k.rejected = r /\ (k.lost <=> l)
      /\ k.a = j.a /\ k.b = j.b /\ k.pairs = j.pairs /\ k.at = j.at
      /\ k.seen_a = j.seen_a /\ k.seen_b = j.seen_b /\ k.failures = j.failures
      /\ k.complete = j.complete
  BY <1>3 DEF Jobs
<1> HIDE DEF k
<1>9. Grows(j, k)
  BY <1>1, <1>7, <1>8 DEF Grows
<1>10. Busy(k)
  BY <1>6, <1>8, <1>9, GrowsKeeps
<1>11. Told(k, k.at)
  BY <1>8, <1>9, ToldStays
<1> QED
  BY <1>4, <1>8, <1>10, <1>11, ReviewedKeeps

(* A second round that fails: its rows are counted as rejected.               *)
LEMMA UnrepairedKeeps ==
    ASSUME NEW j, Busy(j), Told(j, j.at), j.invalid > 0
    PROVE  /\ Unrepaired(j) \in Jobs /\ Progressed(Unrepaired(j))
           /\ Unrepaired(j).complete = j.complete
<1> DEFINE r == j.rejected + j.invalid
           k == [j EXCEPT !.rejected = r, !.lost = TRUE]
<1>1. j \in Jobs /\ r \in Nat /\ r > 0
  BY DEF Busy, Jobs
<1>2. Unrepaired(j) = Reviewed(k)
  BY DEF Unrepaired
<1> HIDE DEF r
<1>3. k \in Jobs
  BY <1>1 DEF Jobs
<1>4. /\ k.findings = j.findings /\ k.rejected = r
      /\ k.a = j.a /\ k.b = j.b /\ k.pairs = j.pairs /\ k.at = j.at
      /\ k.seen_a = j.seen_a /\ k.seen_b = j.seen_b /\ k.failures = j.failures
      /\ k.complete = j.complete
  BY <1>1 DEF Jobs
<1> HIDE DEF k
<1>5. Grows(j, k)
  BY <1>3, <1>4 DEF Grows
<1>6. Busy(k)
  BY <1>1, <1>4, <1>5, GrowsKeeps
<1>7. Told(k, k.at)
  BY <1>4, <1>5, ToldStays
<1> QED
  BY <1>2, <1>4, <1>6, <1>7, ReviewedKeeps

(* The pairs found: between the passages of the two documents.                *)
Meets(j, A) ==
    /\ \A x \in DOMAIN Passages[j.a] : \E p \in A : p[1] = x
    /\ \A y \in DOMAIN Passages[j.b] : \E p \in A : p[2] = y

(* A job with its pairs found, and none passed yet.                           *)
LEMMA PairedKeeps ==
    ASSUME NEW j \in Jobs, Fresh(j), j.a \in Names, j.b \in Names,
           NEW A \in SUBSET ((DOMAIN Passages[j.a]) \X (DOMAIN Passages[j.b])),
           SameCut(j) => Meets(j, A)
    PROVE  /\ Paired(j, A) \in Jobs /\ Progressed(Paired(j, A))
           /\ Paired(j, A).complete = None
<1> DEFINE n == Len(Passages[j.a])
           m == Len(Passages[j.b])
           q == InOrder(A)
           k == Paired(j, A)
<1>1. DOMAIN Passages[j.a] = 1..n /\ DOMAIN Passages[j.b] = 1..m /\ n \in Nat /\ m \in Nat
  BY PassagesAre
<1> HIDE DEF n, m
<1>2. q \in Seq((1..n) \X (1..m)) /\ HasAll(q, A)
  BY <1>1, PairsInOrder
<1>3. q \in Seq(Nat \X Nat)
  <2>1. Len(q) \in Nat /\ DOMAIN q = 1..Len(q) /\ \A i \in 1..Len(q) : q[i] \in (1..n) \X (1..m)
    BY <1>2
  <2>2. \A i \in 1..Len(q) : q[i] \in Nat \X Nat
    BY <2>1
  <2>3. q = [i \in 1..Len(q) |-> q[i]]
    BY <1>2
  <2> QED
    BY <2>1, <2>2, <2>3
<1>4. k = [j EXCEPT !.pairs = q]
  BY DEF Paired
<1> HIDE DEF q, k
<1>5. k \in Jobs
  BY <1>3, <1>4 DEF Jobs
<1>6. /\ k.pairs = q /\ k.a = j.a /\ k.b = j.b /\ k.at = 1 /\ k.findings = {} /\ ~k.lost
      /\ k.complete = None
  BY <1>4 DEF Jobs, Fresh
<1>7. Between(k)
  BY <1>1, <1>2, <1>6 DEF Between
<1>8. Covering(k)
  <2>1. SameCut(k) = SameCut(j)
    BY <1>6 DEF SameCut, Identical
  <2> QED
    BY <2>1, <1>2, <1>6 DEF Covering, HasAll, Meets
<1>9. k.at <= Len(k.pairs) + 1
  BY <1>2, <1>6
<1> QED
  BY <1>5, <1>6, <1>7, <1>8, <1>9 DEF Progressed, Passed, k

-----------------------------------------------------------------------------
(* Nothing is claimed before the first request.                               *)
LEMMA InitHonest == Init => HInv
<1>1. NoJob \in Jobs /\ Fresh(NoJob)
  BY DEF NoJob, Jobs, Fresh
<1> QED
  BY <1>1 DEF Init, HInv, Honest, Place, InPair

(* Only one worker moves; it is enough to look at where it goes.              *)
LEMMA BecomesHonest ==
    ASSUME TypeOK, HInv, NEW c \in CLIENTS, NEW k \in Jobs, NEW label,
           Becomes(c, k, label), UNCHANGED stream, stream[c] # "ready", Place(label, k)
    PROVE  HInv'
<1>1. job' = [job EXCEPT ![c] = k] /\ pc' = [pc EXCEPT ![c] = label]
  BY DEF Becomes, Goes
<1>2. pc'[c] = label /\ job'[c] = k /\ job' \in [CLIENTS -> Jobs]
  BY <1>1 DEF TypeOK, HInv
<1>3. ASSUME NEW d \in CLIENTS, d # c PROVE pc'[d] = pc[d] /\ job'[d] = job[d]
  BY <1>1, <1>3 DEF TypeOK, HInv
<1>4. Honest(c)'
  BY <1>2 DEF Honest
<1>5. ASSUME NEW d \in CLIENTS, d # c PROVE Honest(d)'
  BY <1>3, <1>5 DEF HInv, Honest
<1> QED
  BY <1>2, <1>4, <1>5 DEF HInv

(* A worker that gives up leaves what it has as it is.                        *)
LEMMA GivingUp ==
    ASSUME TypeOK, HInv, NEW c \in CLIENTS, Goes(c, "ending"), UNCHANGED <<job, stream>>,
           stream[c] # "ready", pc[c] \in {"begin", "embed", "pair"} \cup InPair
    PROVE  HInv'
<1>1. job[c] \in Jobs /\ Place(pc[c], job[c])
  BY DEF HInv, Honest
<1>2. job' = [job EXCEPT ![c] = job[c]]
  BY DEF HInv
<1>3. Becomes(c, job[c], "ending")
  BY <1>2 DEF Becomes
<1>4. Place("ending", job[c])
  <2>1. None # TRUE
    BY ComparisonAssumption
  <2> QED
    BY <1>1, <2>1 DEF Place, InPair
<1> QED
  BY <1>1, <1>3, <1>4, BecomesHonest

(* The pairs of identical texts, and those of small documents.                *)
LEMMA BeginHonest ==
    ASSUME TypeOK, HInv, NEW c \in CLIENTS, UNCHANGED stream, stream[c] # "ready", Begin(c)
    PROVE  HInv'
<1> DEFINE j == job[c]
           n == Len(Passages[j.a])
           m == Len(Passages[j.b])
           same == {<<i, i>> : i \in 1..Min({n, m})}
<1>1. pc[c] = "begin" /\ j \in Jobs /\ Fresh(j) /\ j.a \in Names /\ j.b \in Names
  BY DEF Begin, HInv, Honest, Place
<1>2. DOMAIN Passages[j.a] = 1..n /\ DOMAIN Passages[j.b] = 1..m /\ n \in Nat /\ m \in Nat
  BY <1>1, PassagesAre
<1>3. \/ Raises(c) \/ Cancels(c)
      \/ Identical(j) /\ Becomes(c, Paired(j, same), "pair")
      \/ /\ n # 0 /\ m # 0
         /\ Becomes(c, Paired(j, (1..n) \X (1..m)), "pair") \/ Becomes(c, j, "embed")
  BY DEF Begin
<1>4. CASE Raises(c) \/ Cancels(c)
  BY <1>1, <1>4, GivingUp DEF Raises, Cancels
<1>5. ASSUME NEW A \in SUBSET ((1..n) \X (1..m)), Becomes(c, Paired(j, A), "pair"),
             SameCut(j) => Meets(j, A)
      PROVE  HInv'
  <2>1. Paired(j, A) \in Jobs /\ Progressed(Paired(j, A)) /\ Paired(j, A).complete = None
    BY <1>1, <1>2, <1>5, PairedKeeps
  <2>2. Place("pair", Paired(j, A))
    BY <2>1 DEF Place, InPair
  <2> QED
    BY <1>5, <2>1, <2>2, BecomesHonest
<1> HIDE DEF n, m
<1>6. CASE Identical(j) /\ Becomes(c, Paired(j, same), "pair")
  <2> DEFINE l == Min({n, m})
  <2>1. l \in {n, m} /\ l <= n /\ l <= m
    <3>1. n <= m \/ m <= n
      BY <1>2
    <3>2. \E z \in {n, m} : \A y \in {n, m} : z <= y
      BY <1>2, <3>1
    <3> QED
      BY <3>2 DEF Min
  <2>2. same = {<<i, i>> : i \in 1..l}
    OBVIOUS
  <2> HIDE DEF l
  <2>3. same \in SUBSET ((1..n) \X (1..m))
    <3>1. \A i \in 1..l : i \in 1..n /\ i \in 1..m
      BY <1>2, <2>1
    <3> QED
      BY <2>2, <3>1
  <2>4. SameCut(j) => n = m
    BY <1>6 DEF SameCut, n, m
  <2>5. ASSUME n = m
        PROVE  Meets(j, same)
    <3>1. l = n /\ l = m
      BY <2>1, <2>5
    <3>2. ASSUME NEW x \in 1..n PROVE <<x, x>> \in same
      BY <2>2, <3>1
    <3>3. ASSUME NEW x \in DOMAIN Passages[j.a] PROVE \E p \in same : p[1] = x
      <4>1. <<x, x>> \in same /\ <<x, x>>[1] = x
        BY <1>2, <3>2
      <4> QED
        BY <4>1
    <3>4. ASSUME NEW y \in DOMAIN Passages[j.b] PROVE \E p \in same : p[2] = y
      <4>1. <<y, y>> \in same /\ <<y, y>>[2] = y
        BY <1>2, <2>5, <3>2
      <4> QED
        BY <4>1
    <3> QED
      BY <3>3, <3>4, Zenon DEF Meets
  <2> HIDE DEF same
  <2> QED
    BY <2>3, <2>4, <2>5, <1>5, <1>6
<1>7. CASE n # 0 /\ m # 0 /\ Becomes(c, Paired(j, (1..n) \X (1..m)), "pair")
  <2>1. 1 \in 1..n /\ 1 \in 1..m
    BY <1>2, <1>7
  <2> DEFINE A == (1..n) \X (1..m)
  <2>2. /\ \A x \in 1..n : <<x, 1>> \in A
        /\ \A y \in 1..m : <<1, y>> \in A
    BY <2>1
  <2>3. Meets(j, A)
    <3> HIDE DEF A
    <3>1. ASSUME NEW x \in DOMAIN Passages[j.a] PROVE \E p \in A : p[1] = x
      <4>1. <<x, 1>> \in A /\ <<x, 1>>[1] = x
        BY <1>2, <2>2
      <4> QED
        BY <4>1
    <3>2. ASSUME NEW y \in DOMAIN Passages[j.b] PROVE \E p \in A : p[2] = y
      <4>1. <<1, y>> \in A /\ <<1, y>>[2] = y
        BY <1>2, <2>2
      <4> QED
        BY <4>1
    <3> QED
      BY <3>1, <3>2, Zenon DEF Meets
  <2>4. A \in SUBSET ((1..n) \X (1..m)) /\ Becomes(c, Paired(j, A), "pair")
    BY <1>7
  <2> HIDE DEF A
  <2> QED
    BY <2>3, <2>4, <1>5
<1>8. CASE n # 0 /\ m # 0 /\ Becomes(c, j, "embed")
  <2>1. Place("embed", j)
    BY <1>1, <1>8 DEF Place, n, m, InPair
  <2> QED
    BY <1>1, <1>8, <2>1, BecomesHonest
<1> QED
  BY <1>3, <1>4, <1>6, <1>7, <1>8

(* The nearest pairs, whatever the scores.                                    *)
LEMMA EmbedHonest ==
    ASSUME TypeOK, HInv, NEW c \in CLIENTS, UNCHANGED stream, stream[c] # "ready", Embed(c)
    PROVE  HInv'
<1> DEFINE j == job[c]
           n == Len(Passages[j.a])
           m == Len(Passages[j.b])
<1>1. /\ pc[c] = "embed" /\ j \in Jobs /\ Fresh(j) /\ j.a \in Names /\ j.b \in Names
      /\ n # 0 /\ m # 0
  BY DEF Embed, HInv, Honest, Place
<1>2. DOMAIN Passages[j.a] = 1..n /\ DOMAIN Passages[j.b] = 1..m /\ n \in Nat /\ m \in Nat
  BY <1>1, PassagesAre
<1>3. \/ Cancels(c)
      \/ \E scores \in [(1..n) \X (1..m) -> 0..1] :
            Becomes(c, Paired(j, NearestPairs(n, m, scores)), "pair")
      \/ Becomes(c, Paired(j, NearestPairs(n, m, LexicalScores(Passages[j.a], Passages[j.b]))),
                 "pair")
  BY DEF Embed
<1>4. CASE Cancels(c)
  BY <1>1, <1>4, GivingUp DEF Cancels
<1>5. ASSUME NEW scores \in [(1..n) \X (1..m) -> Int],
             Becomes(c, Paired(j, NearestPairs(n, m, scores)), "pair")
      PROVE  HInv'
  <2> DEFINE A == NearestPairs(n, m, scores)
  <2>1. /\ A \in SUBSET ((1..n) \X (1..m))
        /\ \A x \in 1..n : \E y \in 1..m : <<x, y>> \in A
        /\ \A y \in 1..m : \E x \in 1..n : <<x, y>> \in A
    <3> HIDE DEF n, m
    <3>1. n \in Nat \ {0} /\ m \in Nat \ {0}
      BY <1>1, <1>2
    <3> QED
      BY <3>1, NearestAre
  <2> HIDE DEF A
  <2>2. Meets(j, A)
    <3>1. ASSUME NEW x \in DOMAIN Passages[j.a] PROVE \E p \in A : p[1] = x
      <4>1. PICK y \in 1..m : <<x, y>> \in A
        BY <1>2, <2>1
      <4>2. <<x, y>>[1] = x
        OBVIOUS
      <4> QED
        BY <4>1, <4>2
    <3>2. ASSUME NEW y \in DOMAIN Passages[j.b] PROVE \E p \in A : p[2] = y
      <4>1. PICK x \in 1..n : <<x, y>> \in A
        BY <1>2, <2>1
      <4>2. <<x, y>>[2] = y
        OBVIOUS
      <4> QED
        BY <4>1, <4>2
    <3> QED
      BY <3>1, <3>2, Zenon DEF Meets
  <2>3. Paired(j, A) \in Jobs /\ Progressed(Paired(j, A)) /\ Paired(j, A).complete = None
    BY <1>1, <1>2, <2>1, <2>2, PairedKeeps
  <2>4. Place("pair", Paired(j, A))
    BY <2>3 DEF Place, InPair
  <2> QED
    BY <1>5, <2>3, <2>4, BecomesHonest DEF A
<1>6. LexicalScores(Passages[j.a], Passages[j.b]) \in [(1..n) \X (1..m) -> Int]
  <2>1. ASSUME NEW x \in Names, NEW i \in DOMAIN Passages[x] PROVE Passages[x][i].words \in Words
    <3>1. PassageOf(DOCS[x], Passages[x][i]) /\ DOCS[x] \in Documents
      BY PassagesAre
    <3>2. DOCS[x].text \in Texts /\ 1 \in 1..(Len(DOCS[x].text) + 1)
      BY <3>1, TextIs
    <3>3. Flat(DOCS[x].text, Passages[x][i].rows) \in Words
      BY <3>2, OnwardEnds DEF Flat
    <3> QED
      BY <3>1, <3>3 DEF PassageOf
  <2>2. LexicalScores(Passages[j.a], Passages[j.b]) \in
            [(DOMAIN Passages[j.a]) \X (DOMAIN Passages[j.b]) -> Int]
    BY <1>1, <2>1, ScoresAreNumbers
  <2> QED
    BY <1>2, <2>2
<1>7. \A scores \in [(1..n) \X (1..m) -> 0..1] : scores \in [(1..n) \X (1..m) -> Int]
  OBVIOUS
<1> HIDE DEF n, m
<1> QED
  BY <1>3, <1>4, <1>5, <1>6, <1>7

(* What the model answers is a list of rows.                                  *)
LEMMA AnswersAreRows ==
    ASSUME NEW j, NEW rows \in Answers(j)
    PROVE  rows \in Seq(ROWS)
<1>1. CASE rows = <<>>
  BY <1>1
<1>2. CASE \E r \in ROWS : rows = <<r>>
  BY <1>2
<1>3. CASE rows \in ROWS \X ROWS
  <2>1. PICK r \in ROWS, s \in ROWS : rows = <<r, s>>
    BY <1>3
  <2> QED
    BY <2>1
<1> QED
  BY <1>1, <1>2, <1>3 DEF Answers

(* Inside a pair the worker's job is at that pair.                            *)
LEMMA InPairBusy ==
    ASSUME HInv, NEW c \in CLIENTS, pc[c] \in InPair
    PROVE  /\ Busy(job[c]) /\ Told(job[c], job[c].at) /\ job[c].complete = None
           /\ pc[c] \in {"repair", "repairing"} => job[c].invalid > 0
<1>1. job[c] \in Jobs /\ Place(pc[c], job[c])
  BY DEF HInv, Honest
<1> QED
  BY <1>1 DEF Place, InPair, Busy

(* Back to the pairs with a job that kept what it had.                        *)
LEMMA PairAgain ==
    ASSUME TypeOK, HInv, NEW c \in CLIENTS, UNCHANGED stream, stream[c] # "ready",
           NEW k \in Jobs, Progressed(k), k.complete = None, Becomes(c, k, "pair")
    PROVE  HInv'
<1>1. Place("pair", k)
  BY DEF Place, InPair
<1> QED
  BY <1>1, BecomesHonest

(* On with the same pair.                                                     *)
LEMMA SamePair ==
    ASSUME TypeOK, HInv, NEW c \in CLIENTS, UNCHANGED stream, stream[c] # "ready",
           NEW k, Busy(k), Told(k, k.at), k.complete = None, NEW label \in InPair,
           label \in {"repair", "repairing"} => k.invalid > 0, Becomes(c, k, label)
    PROVE  HInv'
<1>1. k \in Jobs
  BY DEF Busy
<1>2. Place(label, k)
  BY DEF Place, InPair, Busy
<1> QED
  BY <1>1, <1>2, BecomesHonest

(* A pair announced: its numbers are told before the model is asked.          *)
LEMMA PairHonest ==
    ASSUME TypeOK, HInv, NEW c \in CLIENTS, UNCHANGED stream, stream[c] # "ready", Pair(c)
    PROVE  HInv'
<1> DEFINE j == job[c]
<1>1. pc[c] = "pair" /\ j.at <= Len(j.pairs)
  BY DEF Pair
<1>2. j \in Jobs /\ Place(pc[c], j)
  BY DEF HInv, Honest
<1>3. Busy(j) /\ j.complete = None
  BY <1>1, <1>2 DEF Place, Busy
<1>4. \/ Cancels(c)
      \/ Identical(j) /\ Becomes(c, Agreed(j), "pair")
      \/ Becomes(c, Compared(j), "call")
  BY DEF Pair
<1> HIDE DEF j
<1>5. CASE Cancels(c)
  BY <1>1, <1>5, GivingUp DEF Cancels
<1>6. CASE Identical(j) /\ Becomes(c, Agreed(j), "pair")
  BY <1>3, <1>6, AgreedKeeps, PairAgain
<1>7. CASE Becomes(c, Compared(j), "call")
  <2>1. Busy(Compared(j)) /\ Told(Compared(j), Compared(j).at) /\ Compared(j).complete = None
    BY <1>3, ComparedTells
  <2>2. "call" \in InPair
    BY DEF InPair
  <2> QED
    BY <1>7, <2>1, <2>2, SamePair
<1> QED
  BY <1>4, <1>5, <1>6, <1>7

(* The first answer about a pair.                                             *)
LEMMA AnswerHonest ==
    ASSUME TypeOK, HInv, NEW c \in CLIENTS, UNCHANGED stream, stream[c] # "ready", Answer(c)
    PROVE  HInv'
<1> DEFINE j == job[c]
<1>1. pc[c] = "called" /\ pc[c] \in InPair
  BY DEF Answer, InPair
<1>2. Busy(j) /\ Told(j, j.at) /\ j.complete = None
  BY <1>1, InPairBusy
<1>3. \/ Becomes(c, Failed(j), "pair")
      \/ Cancels(c)
      \/ \E rows \in Answers(j) :
            \/ Becomes(c, Reviewed(Kept(j, rows)), "pair")
            \/ Bad(j, rows) # {} /\ Becomes(c, Kept(j, rows), "repair")
  BY DEF Answer
<1> HIDE DEF j
<1>4. CASE Becomes(c, Failed(j), "pair")
  BY <1>2, <1>4, FailedKeeps, PairAgain
<1>5. CASE Cancels(c)
  BY <1>1, <1>5, GivingUp DEF Cancels
<1>6. ASSUME NEW rows \in Answers(j),
             \/ Becomes(c, Reviewed(Kept(j, rows)), "pair")
             \/ Bad(j, rows) # {} /\ Becomes(c, Kept(j, rows), "repair")
      PROVE  HInv'
  <2> DEFINE k == Kept(j, rows)
  <2>1. /\ Busy(k) /\ Told(k, k.at) /\ k.complete = None
        /\ Bad(j, rows) # {} => k.invalid > 0
    BY <1>2, AnswersAreRows, KeptIs
  <2>2. "repair" \in InPair
    BY DEF InPair
  <2>3. \/ Becomes(c, Reviewed(k), "pair")
        \/ Bad(j, rows) # {} /\ Becomes(c, k, "repair")
    BY <1>6
  <2> HIDE DEF k
  <2>4. CASE Becomes(c, Reviewed(k), "pair")
    BY <2>1, <2>4, ReviewedKeeps, PairAgain
  <2>5. CASE Bad(j, rows) # {} /\ Becomes(c, k, "repair")
    BY <2>1, <2>2, <2>5, SamePair
  <2> QED
    BY <2>3, <2>4, <2>5
<1> QED
  BY <1>3, <1>4, <1>5, <1>6

(* The answer about the rows that were asked for again.                       *)
LEMMA RepairAnswerHonest ==
    ASSUME TypeOK, HInv, NEW c \in CLIENTS, UNCHANGED stream, stream[c] # "ready",
           RepairAnswer(c)
    PROVE  HInv'
<1> DEFINE j == job[c]
<1>1. pc[c] = "repairing" /\ pc[c] \in InPair
  BY DEF RepairAnswer, InPair
<1>2. Busy(j) /\ Told(j, j.at) /\ j.complete = None /\ j.invalid > 0
  BY <1>1, InPairBusy
<1>3. \/ Becomes(c, Unrepaired(j), "pair")
      \/ Cancels(c)
      \/ \E rows \in Answers(j) : Becomes(c, Repaired(j, rows), "pair")
  BY DEF RepairAnswer
<1> HIDE DEF j
<1>4. CASE Becomes(c, Unrepaired(j), "pair")
  BY <1>2, <1>4, UnrepairedKeeps, PairAgain
<1>5. CASE Cancels(c)
  BY <1>1, <1>5, GivingUp DEF Cancels
<1>6. ASSUME NEW rows \in Answers(j), Becomes(c, Repaired(j, rows), "pair")
      PROVE  HInv'
  BY <1>2, <1>6, AnswersAreRows, RepairedKeeps, PairAgain
<1> QED
  BY <1>3, <1>4, <1>5, <1>6

(* The calls begin with the job as it is.                                     *)
LEMMA CallHonest ==
    ASSUME TypeOK, HInv, NEW c \in CLIENTS, UNCHANGED stream, stream[c] # "ready",
           Call(c) \/ Repair(c)
    PROVE  HInv'
<1> DEFINE j == job[c]
<1>1. pc[c] \in {"call", "repair"} /\ pc[c] \in InPair
  BY DEF Call, Repair, InPair
<1>2. Busy(j) /\ Told(j, j.at) /\ j.complete = None /\ (pc[c] = "repair" => j.invalid > 0)
  BY <1>1, InPairBusy
<1>3. \/ Cancels(c)
      \/ Becomes(c, j, "called")
      \/ pc[c] = "repair" /\ Becomes(c, j, "repairing")
  BY DEF Call, Repair, BeginsCall
<1>4. "called" \in InPair /\ "repairing" \in InPair
  BY DEF InPair
<1> HIDE DEF j
<1>5. CASE Cancels(c)
  BY <1>1, <1>5, GivingUp DEF Cancels
<1>6. CASE Becomes(c, j, "called")
  BY <1>2, <1>4, <1>6, SamePair
<1>7. CASE pc[c] = "repair" /\ Becomes(c, j, "repairing")
  BY <1>2, <1>4, <1>7, SamePair
<1> QED
  BY <1>3, <1>5, <1>6, <1>7

(* The report is made after the last pair.                                    *)
LEMMA ReportHonest ==
    ASSUME TypeOK, HInv, NEW c \in CLIENTS, UNCHANGED stream, stream[c] # "ready", Report(c)
    PROVE  HInv'
<1> DEFINE j == job[c]
           b == Complete(j)
           k == [j EXCEPT !.complete = b]
<1>1. pc[c] = "pair" /\ j.at > Len(j.pairs)
  BY DEF Report
<1>2. j \in Jobs /\ Place(pc[c], j)
  BY DEF HInv, Honest
<1>3. Progressed(j) /\ j.complete = None
  BY <1>1, <1>2 DEF Place
<1>4. Cancels(c) \/ Becomes(c, k, "ending")
  BY DEF Report
<1>5. CASE Cancels(c)
  BY <1>1, <1>5, GivingUp DEF Cancels
<1>6. CASE Becomes(c, k, "ending")
  <2>1. b \in BOOLEAN
    BY DEF Complete
  <2> HIDE DEF j, b
  <2>2. /\ k \in Jobs /\ k.complete = b
        /\ k.a = j.a /\ k.b = j.b /\ k.pairs = j.pairs /\ k.at = j.at
        /\ k.findings = j.findings /\ k.seen_a = j.seen_a /\ k.seen_b = j.seen_b
        /\ k.failures = j.failures /\ k.rejected = j.rejected /\ k.lost = j.lost
    BY <1>2, <2>1 DEF Jobs
  <2> HIDE DEF k
  <2>3. Identical(k) = Identical(j) /\ SameCut(k) = SameCut(j)
        /\ \A la, lb : LinesTold(k, la, lb) = LinesTold(j, la, lb)
    BY <2>2 DEF Identical, SameCut, LinesTold
  <2>4. ASSUME NEW n, Told(j, n) PROVE Told(k, n)
    BY <2>2, <2>3, <2>4 DEF Told
  <2>5. ASSUME NEW f, Backed(j, f) PROVE Backed(k, f)
    BY <2>2, <2>5 DEF Backed
  <2>6. Between(k) /\ Covering(k) /\ Passed(k)
    BY <1>3, <2>2, <2>3 DEF Progressed, Between, Covering, Passed
  <2>7. Progressed(k)
    BY <1>3, <2>2, <2>4, <2>5, <2>6 DEF Progressed
  <2>8. Complete(k) = Complete(j)
    BY <2>2 DEF Complete
  <2>9. k.complete = TRUE => k.at > Len(k.pairs) /\ Complete(k)
    BY <1>1, <2>2, <2>8 DEF b
  <2>10. Place("ending", k)
    BY <2>7, <2>9 DEF Place, InPair
  <2> QED
    BY <1>6, <2>2, <2>10, BecomesHonest
<1> QED
  BY <1>4, <1>5, <1>6

(* The worker's last acts.                                                    *)
LEMMA EndHonest ==
    ASSUME TypeOK, HInv, NEW c \in CLIENTS, UNCHANGED stream, stream[c] # "ready", End(c)
    PROVE  HInv'
<1>1. job[c] \in Jobs /\ Place("ending", job[c])
  BY DEF HInv, Honest, End
<1>2. Place("release", job[c])
  BY <1>1 DEF Place, InPair
<1>3. job' = [job EXCEPT ![c] = job[c]]
  BY DEF HInv, End
<1>4. Becomes(c, job[c], "release")
  BY <1>3 DEF Becomes, End
<1> QED
  BY <1>1, <1>2, <1>4, BecomesHonest

(* The slot given back, and the job with it.                                  *)
LEMMA ReleaseHonest ==
    ASSUME TypeOK, Alone, HInv, NEW c \in CLIENTS, Release(c)
    PROVE  HInv'
<1>1. NoJob \in Jobs /\ Fresh(NoJob)
  BY DEF NoJob, Jobs, Fresh
<1>2. Place("idle", NoJob)
  BY <1>1 DEF Place, InPair
<1>3. stream[c] # "ready" /\ UNCHANGED stream /\ Becomes(c, NoJob, "idle")
  BY DEF Release, Alone
<1> QED
  BY <1>1, <1>2, <1>3, BecomesHonest

(* A worker at work has a stream that was started.                            *)
LEMMA WorkHonest ==
    ASSUME TypeOK, Alone, HInv, NEW c \in CLIENTS, Work(c)
    PROVE  HInv'
<1>1. UNCHANGED stream
  BY DEF Work, control
<1>2. pc[c] # "idle"
  BY DEF Work, Begin, Embed, Pair, Call, Answer, Repair, RepairAnswer, Report, End
<1>3. stream[c] # "ready"
  BY <1>2 DEF Alone
<1>4. \/ Begin(c) \/ Embed(c) \/ Pair(c) \/ Call(c) \/ Answer(c)
      \/ Repair(c) \/ RepairAnswer(c) \/ Report(c) \/ End(c)
  BY DEF Work
<1> QED
  BY <1>1, <1>3, <1>4, BeginHonest, EmbedHonest, PairHonest, CallHonest, AnswerHonest,
     RepairAnswerHonest, ReportHonest, EndHonest

(* The request, the stream and the browser.                                   *)
LEMMA StreamHonest ==
    ASSUME TypeOK, Alone, HInv, NEW c \in CLIENTS,
           Refuse(c) \/ Run(c) \/ Start(c) \/ Leave(c) \/ Poll(c)
    PROVE  HInv'
<1>0. /\ job \in [CLIENTS -> Jobs] /\ stream \in [CLIENTS -> {"none", "ready", "open", "ended"}]
      /\ DOMAIN pc = CLIENTS /\ \A d \in CLIENTS : Honest(d)
  BY DEF HInv, TypeOK
<1>1. CASE UNCHANGED <<pc, job>> /\ \A d \in CLIENTS : stream'[d] = "ready" => stream[d] = "ready"
  BY <1>0, <1>1 DEF HInv, Honest
<1>2. CASE Run(c)
  <2>1. PICK q \in REQUESTS[c] : job' = [job EXCEPT ![c] = [NoJob EXCEPT !.a = q[1], !.b = q[2]]]
    BY <1>2 DEF Run
  <2>2. q[1] \in Names /\ q[2] \in Names
    BY DocumentAssumption
  <2> DEFINE k == [NoJob EXCEPT !.a = q[1], !.b = q[2]]
  <2>3. k \in Jobs /\ Fresh(k) /\ k.a \in Names /\ k.b \in Names
    <3> DEFINE x == q[1]
               y == q[2]
    <3> HIDE DEF x, y
    <3>1. x \in Names /\ y \in Names
      BY <2>2 DEF x, y
    <3>2. NoJob \in Jobs /\ Fresh(NoJob)
      BY DEF NoJob, Jobs, Fresh
    <3>3. [NoJob EXCEPT !.a = x, !.b = y] \in Jobs
      BY <3>1, <3>2 DEF Jobs
    <3>4. /\ Fresh([NoJob EXCEPT !.a = x, !.b = y])
          /\ [NoJob EXCEPT !.a = x, !.b = y].a = x /\ [NoJob EXCEPT !.a = x, !.b = y].b = y
      BY <3>2 DEF Fresh, NoJob
    <3> QED
      BY <3>1, <3>3, <3>4 DEF x, y
  <2> HIDE DEF k
  <2>4. pc[c] = "idle" /\ UNCHANGED pc /\ stream' = [stream EXCEPT ![c] = "ready"]
    BY <1>2 DEF Run, Asks
  <2>5. job' = [job EXCEPT ![c] = k]
    BY <2>1 DEF k
  <2>6. job'[c] = k /\ job' \in [CLIENTS -> Jobs]
    BY <1>0, <2>3, <2>5
  <2>7. Honest(c)'
    BY <2>3, <2>4, <2>6 DEF Honest, Place, InPair
  <2>8. ASSUME NEW d \in CLIENTS, d # c PROVE Honest(d)'
    <3>1. job'[d] = job[d] /\ pc'[d] = pc[d] /\ stream'[d] = stream[d]
      BY <1>0, <2>4, <2>5, <2>8
    <3> QED
      BY <1>0, <3>1 DEF Honest
  <2> QED
    BY <2>6, <2>7, <2>8 DEF HInv
<1>3. CASE stream[c] = "ready" /\ stream' = [stream EXCEPT ![c] = "open"]
           /\ pc' = [pc EXCEPT ![c] = "begin"] /\ UNCHANGED job
  <2>1. pc[c] = "idle" /\ Honest(c)
    BY <1>0, <1>3 DEF Alone
  <2>2. Fresh(job[c]) /\ job[c].a \in Names /\ job[c].b \in Names
    BY <2>1, <1>3 DEF Honest, Place
  <2>3. Place("begin", job[c])
    BY <2>2 DEF Place, InPair
  <2>4. Honest(c)'
    BY <1>0, <1>3, <2>3 DEF Honest
  <2>5. ASSUME NEW d \in CLIENTS, d # c PROVE Honest(d)'
    <3>1. job'[d] = job[d] /\ pc'[d] = pc[d] /\ stream'[d] = stream[d]
      BY <1>0, <1>3, <2>5
    <3> QED
      BY <1>0, <3>1 DEF Honest
  <2> QED
    BY <1>0, <1>3, <2>4, <2>5 DEF HInv
<1>4. CASE Refuse(c)
  BY <1>1, <1>4 DEF Refuse, vars
<1>5. CASE Start(c)
  BY <1>0, <1>1, <1>3, <1>5 DEF Start
<1>6. CASE Leave(c)
  BY <1>1, <1>6 DEF Leave
<1>7. CASE Poll(c)
  BY <1>0, <1>1, <1>7 DEF Poll, Close
<1> QED
  BY <1>2, <1>4, <1>5, <1>6, <1>7

(* Every step keeps what is claimed true.                                     *)
LEMMA NextHonest == TypeOK /\ Alone /\ HInv /\ [Next]_vars => HInv'
<1> SUFFICES ASSUME TypeOK, Alone, HInv, [Next]_vars PROVE HInv'
  OBVIOUS
<1>1. CASE UNCHANGED vars
  BY <1>1 DEF vars, HInv, Honest
<1>2. CASE Next
  <2>1. PICK c \in CLIENTS : Refuse(c) \/ Run(c) \/ Start(c) \/ Leave(c) \/ Poll(c) \/ Worker(c)
    BY <1>2 DEF Next
  <2> QED
    BY <2>1, StreamHonest, WorkHonest, ReleaseHonest DEF Worker
<1> QED
  BY <1>1, <1>2

(* What the worker knows at each of its places, for any documents and any     *)
(* answers of the model.                                                      *)
THEOREM JobsAreHonest == Spec => []HInv
<1>1. Init => HInv
  BY InitHonest
<1>2. IInv /\ HInv /\ [Next]_vars => HInv'
  BY NextHonest DEF IInv
<1> QED
  BY <1>1, <1>2, Inductive, PTL DEF Spec

-----------------------------------------------------------------------------
(* At every place of the worker its job is fresh or has kept its promises.    *)
LEMMA FreshOrProgressed ==
    ASSUME TypeOK, HInv, NEW c \in CLIENTS
    PROVE  /\ job[c] \in Jobs
           /\ Fresh(job[c]) \/ Progressed(job[c])
           /\ job[c].complete = TRUE =>
                /\ Progressed(job[c]) /\ Complete(job[c]) /\ job[c].at > Len(job[c].pairs)
<1> DEFINE j == job[c]
<1>1. j \in Jobs /\ Place(pc[c], j)
  BY DEF HInv, Honest
<1>2. pc[c] \in {"idle", "begin", "embed", "pair", "ending", "release"} \cup InPair
  BY DEF TypeOK, InPair
<1>3. None # TRUE
  BY ComparisonAssumption
<1> HIDE DEF j
<1>4. CASE pc[c] \in {"idle", "begin", "embed"}
  BY <1>1, <1>3, <1>4 DEF Place, Fresh, j
<1>5. CASE pc[c] \in {"pair"} \cup InPair
  BY <1>1, <1>3, <1>5 DEF Place, j
<1>6. CASE pc[c] \in {"ending", "release"}
  BY <1>1, <1>3, <1>6 DEF Place, Fresh, j
<1> QED
  BY <1>2, <1>4, <1>5, <1>6

(* A report that calls itself complete passed every pair, and the pairs take  *)
(* in every passage: what could be read was read.                             *)
LEMMA CompleteHonest == TypeOK /\ HInv => CompleteIsHonest
<1> SUFFICES ASSUME TypeOK, HInv, NEW c \in CLIENTS, job[c].complete = TRUE, SameCut(job[c])
             PROVE  /\ ReadWhole(job[c].a, job[c].seen_a) /\ ReadWhole(job[c].b, job[c].seen_b)
                    /\ ~job[c].lost /\ job[c].failures = {}
                    /\ DOCS[job[c].a].empty_pages = {} /\ DOCS[job[c].b].empty_pages = {}
  BY DEF CompleteIsHonest
<1> DEFINE j == job[c]
<1>1. j \in Jobs /\ Progressed(j) /\ Complete(j) /\ j.at > Len(j.pairs) /\ SameCut(j)
  BY FreshOrProgressed
<1> HIDE DEF j
<1>2. /\ j.at \in Nat /\ j.rejected \in Nat /\ j.lost \in BOOLEAN
      /\ Len(j.pairs) \in Nat /\ DOMAIN j.pairs = 1..Len(j.pairs)
      /\ j.seen_a \subseteq Nat /\ j.a \in Names /\ j.b \in Names
  <2>1. j.pairs \in Seq(Nat \X Nat)
    BY <1>1 DEF Jobs
  <2> QED
    BY <1>1, <2>1 DEF Jobs, Progressed
<1>3. ASSUME NEW k \in DOMAIN j.pairs
      PROVE  j.pairs[k][1] \in j.seen_a /\ j.pairs[k][2] \in j.seen_b
  <2>1. k \in 1..(j.at - 1)
    BY <1>1, <1>2
  <2>2. Passed(j) /\ j.failures = {}
    BY <1>1 DEF Progressed, Complete
  <2> QED
    BY <2>1, <2>2 DEF Passed
<1>4. ReadWhole(j.a, j.seen_a)
  <2>1. DOMAIN Passages[j.a] \subseteq j.seen_a
    BY <1>1, <1>3 DEF Progressed, Covering
  <2>2. Readable(DOCS[j.a]) \subseteq UNION {Passages[j.a][i].rows : i \in DOMAIN Passages[j.a]}
    BY <1>2, PassagesAre
  <2> QED
    BY <2>1, <2>2 DEF ReadWhole
<1>5. ReadWhole(j.b, j.seen_b)
  <2>1. DOMAIN Passages[j.b] \subseteq j.seen_b
    BY <1>1, <1>3 DEF Progressed, Covering
  <2>2. Readable(DOCS[j.b]) \subseteq UNION {Passages[j.b][i].rows : i \in DOMAIN Passages[j.b]}
    BY <1>2, PassagesAre
  <2> QED
    BY <2>1, <2>2 DEF ReadWhole
<1>6. ~j.lost
  BY <1>1, <1>2 DEF Progressed, Complete
<1> QED
  BY <1>1, <1>4, <1>5, <1>6 DEF Complete, j

(* A finding keeps the pair it was made in.                                   *)
LEMMA QuotesStand == TypeOK /\ HInv => QuotesComeFromOnePair
<1> SUFFICES ASSUME TypeOK, HInv, NEW c \in CLIENTS, NEW f \in job[c].findings
             PROVE  \E p \in Range(job[c].pairs) :
                        /\ Stands(DOCS[job[c].a], Passages[job[c].a][p[1]], f.a)
                        /\ Stands(DOCS[job[c].b], Passages[job[c].b][p[2]], f.b)
  BY DEF QuotesComeFromOnePair
<1> DEFINE j == job[c]
<1>1. Fresh(j) \/ Progressed(j)
  BY FreshOrProgressed
<1> HIDE DEF j
<1>2. f \in j.findings
  BY DEF j
<1>3. Backed(j, f)
  BY <1>1, <1>2 DEF Fresh, Progressed
<1>4. PICK k \in DOMAIN j.pairs :
          /\ Stands(DOCS[j.a], Passages[j.a][j.pairs[k][1]], f.a)
          /\ Stands(DOCS[j.b], Passages[j.b][j.pairs[k][2]], f.b)
  BY <1>3 DEF Backed
<1>5. j.pairs[k] \in Range(j.pairs)
  BY DEF Range
<1> QED
  BY <1>4, <1>5 DEF j

(* A pair that was passed had its numbers compared first.                     *)
LEMMA NumbersTold == TypeOK /\ HInv => EditedNumbersAreTold
<1> SUFFICES ASSUME TypeOK, HInv, NEW c \in CLIENTS
             PROVE  \A k \in 1..(job[c].at - 1) : Told(job[c], k)
  BY DEF EditedNumbersAreTold, Told
<1> DEFINE j == job[c]
<1>1. Fresh(j) \/ Progressed(j)
  BY FreshOrProgressed
<1> HIDE DEF j
<1>2. \A k \in 1..(j.at - 1) : Told(j, k)
  BY <1>1 DEF Fresh, Progressed
<1> QED
  BY <1>2 DEF j

(* Whatever the documents, the model's answers and the clients' departures,   *)
(* no report claims to be complete that is not, no finding quotes what is not *)
(* there, and no changed number is passed over.                               *)
THEOREM ReportsAreHonest == Spec => []ReportIsHonest
<1>1. TypeOK /\ HInv => ReportIsHonest
  BY CompleteHonest, QuotesStand, NumbersTold DEF ReportIsHonest
<1> QED
  BY <1>1, TypeCorrect, JobsAreHonest, PTL
=============================================================================
