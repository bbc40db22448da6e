-------------------------- MODULE WathqLookupProofs --------------------------
(* What a lookup says it spent, what is shown as sent, what the caches hold   *)
(* and what a page is shown, for any number of threads, any forms, catalogue, *)
(* caches and ways a request can end.                                         *)
EXTENDS WathqLookup, FiniteSetTheorems, TLAPS

OnTheWire == {"converting", "asking", "again"}
Waiting(t) == pc[t] \in OnTheWire /\ reply[t] = None

\* One lookup at a time has the slot, and only it has requests.
HolderOK ==
    \A t \in Threads :
        /\ slot = t <=> pc[t] \in Active
        /\ reply[t] # None => pc[t] \in OnTheWire

\* A request on the wire is counted before anyone can have received it.
CoverOK == reached <= sent /\ \A t \in Threads : Waiting(t) => reached < sent

\* The difference of the shared counter is the holder's own requests, and how
\* many there can be at each of its steps.
SpentOf(t) ==
    /\ pc[t] = "idle" => unified[t] = None
    /\ unified[t] # None => Old(t) # None
    /\ pc[t] \in Active => sent - before[t] = own[t]
    /\ pc[t] = "answered" => answer[t].used = own[t]
    /\ pc[t] \in {"converting", "again"} => Old(t) # None
    /\ pc[t] = "convert" => own[t] <= 0
    /\ pc[t] = "converting" => own[t] <= 1
    /\ pc[t] = "look" => own[t] <= IF Old(t) = None THEN 0 ELSE 1
    /\ pc[t] = "asking" => own[t] <= IF Old(t) = None THEN 1 ELSE 2
    /\ pc[t] \in {"again", "answered"} => own[t] <= IF Old(t) = None THEN 1 ELSE 3
SpentOK == \A t \in Threads : SpentOf(t)

IInv == TypeOK /\ HolderOK /\ CoverOK /\ SpentOK

-----------------------------------------------------------------------------
\* The invariant holds at the start.
LEMMA InitInv == Init => IInv
<1> SUFFICES ASSUME Init PROVE IInv
  OBVIOUS
<1>1. TypeOK
  BY LookupAssumption DEF Init, TypeOK
<1>2. HolderOK /\ CoverOK /\ SpentOK
  BY LookupAssumption DEF Init, HolderOK, CoverOK, SpentOK, SpentOf, Waiting, OnTheWire, Active
<1> QED
  BY <1>1, <1>2 DEF IInv

\* The clock and a refused form change nothing of a lookup.
LEMMA OthersKeep == IInv /\ (UNCHANGED vars \/ Tick \/ \E t \in Threads : Refuse(t)) => IInv'
<1> SUFFICES ASSUME IInv, UNCHANGED vars \/ Tick \/ \E t \in Threads : Refuse(t) PROVE IInv'
  OBVIOUS
<1>1. UNCHANGED <<stores, sent, slot, thread, history>> /\ now' \in 0..MaxNow /\ asks' \in 0..MaxAsks
  BY LookupAssumption DEF Tick, Refuse, vars, IInv, TypeOK
<1> QED
  BY <1>1 DEF thread, history, IInv, TypeOK, HolderOK, CoverOK, SpentOK, SpentOf, Waiting, Old

\* Neither operation of _Cache adds or removes a cache.
LEMMA CacheDomain ==
    /\ \A s, k : DOMAIN get(s, k) = DOMAIN stores
    /\ \A s, k, v : \A new \in put(s, k, v) : DOMAIN new = DOMAIN stores
  BY DEF get, put

\* No step adds or drops a cache.
LEMMA StoresType ==
    ASSUME TypeOK, NEW t \in Threads, Ask(t) \/ Step(t)
    PROVE  DOMAIN stores' = DOMAIN stores
<1> USE CacheDomain
<1>1. CASE Ask(t)
  BY <1>1 DEF Ask
<1>2. CASE NoKey(t)
  BY <1>2 DEF NoKey
<1>3. CASE Convert(t)
  BY <1>3 DEF Convert
<1>4. CASE \E r \in Replies : Receive(t, r)
  BY <1>4 DEF Receive
<1>5. CASE Converted(t)
  BY <1>5 DEF Converted
<1>6. CASE Look(t)
  BY <1>6 DEF Look
<1>7. CASE AskAgain(t)
  BY <1>7 DEF AskAgain
<1>8. CASE Answered(t)
  BY <1>8 DEF Answered
<1>9. CASE Unanswered(t)
  BY <1>9 DEF Unanswered
<1>10. CASE Leave(t)
  BY <1>10 DEF Leave
<1> QED
  BY <1>1, <1>2, <1>3, <1>4, <1>5, <1>6, <1>7, <1>8, <1>9, <1>10 DEF Step

\* The constants the counting rests on: None is no thread and no reply.
LEMMA NoneIsNothing == None \notin Threads /\ None \notin Replies
  BY LookupAssumption, ReplyAssumption

\* The steps of a lookup keep the types.
LEMMA StepType ==
    ASSUME TypeOK, NEW t \in Threads, Ask(t) \/ Step(t)
    PROVE  TypeOK'
<1> DOMAIN stores' = {"cache", "lists"}
  BY StoresType DEF TypeOK
<1> USE DEF TypeOK, Active, Go, history
<1>1. CASE Ask(t)
  BY LookupAssumption, <1>1 DEF Ask
<1>2. CASE NoKey(t)
  BY LookupAssumption, <1>2 DEF NoKey, Errs, Respond
<1>3. CASE Convert(t)
  BY LookupAssumption, <1>3 DEF Convert, Errs, Respond, Send
<1>4. CASE \E r \in Replies : Receive(t, r)
  BY <1>4 DEF Receive
<1>5. CASE Converted(t)
  BY LookupAssumption, <1>5 DEF Converted, Errs, Respond, Used
<1>6. CASE Look(t)
  <2>1. CASE Fresh(StoreOf(t), KeyOf(t))
    BY LookupAssumption, <1>6, <2>1 DEF Look, Respond
  <2>2. CASE ~Fresh(StoreOf(t), KeyOf(t))
    BY LookupAssumption, <1>6, <2>2 DEF Look, Send
  <2> QED
    BY <2>1, <2>2
<1>7. CASE AskAgain(t)
  BY LookupAssumption, <1>7 DEF AskAgain, Errs, Respond, Used, Send
<1>8. CASE Answered(t)
  BY LookupAssumption, <1>8 DEF Answered, Respond, Used
<1>9. CASE Unanswered(t)
  BY LookupAssumption, <1>9 DEF Unanswered, Errs, Respond, Used
<1>10. CASE Leave(t)
  BY LookupAssumption, <1>10 DEF Leave
<1> QED
  BY <1>1, <1>2, <1>3, <1>4, <1>5, <1>6, <1>7, <1>8, <1>9, <1>10 DEF Step

\* The steps of a lookup keep the slot with the one lookup in work.
LEMMA StepHolder ==
    ASSUME TypeOK, HolderOK, NEW t \in Threads, Ask(t) \/ Step(t)
    PROVE  HolderOK'
<1> USE NoneIsNothing DEF TypeOK, HolderOK, Active, OnTheWire, SlotFree, Go
<1>1. CASE Ask(t)
  BY <1>1 DEF Ask
<1>2. CASE NoKey(t)
  BY <1>2 DEF NoKey, Errs, Respond
<1>3. CASE Convert(t)
  BY <1>3 DEF Convert, Errs, Respond, Send
<1>4. CASE \E r \in Replies : Receive(t, r)
  BY <1>4 DEF Receive
<1>5. CASE Converted(t)
  BY <1>5 DEF Converted, Errs, Respond, Used, NotFound
<1>6. CASE Look(t)
  BY <1>6 DEF Look, Respond, Body, Send
<1>7. CASE AskAgain(t)
  BY <1>7 DEF AskAgain, Errs, Respond, Used, Send, NotFound
<1>8. CASE Answered(t)
  BY <1>8 DEF Answered, Respond, Body, Used
<1>9. CASE Unanswered(t)
  BY <1>9 DEF Unanswered, Errs, Respond, Used
<1>10. CASE Leave(t)
  BY <1>10 DEF Leave
<1> QED
  BY <1>1, <1>2, <1>3, <1>4, <1>5, <1>6, <1>7, <1>8, <1>9, <1>10 DEF Step

\* The steps of a lookup keep everything received covered by the count.
LEMMA StepCover ==
    ASSUME TypeOK, HolderOK, CoverOK, NEW t \in Threads, Ask(t) \/ Step(t)
    PROVE  CoverOK'
<1> USE DEF TypeOK, HolderOK, CoverOK, Waiting, Active, OnTheWire, SlotFree, Go,
        history
<1>1. CASE Ask(t)
  BY <1>1 DEF Ask
<1>2. CASE NoKey(t)
  BY <1>2 DEF NoKey, Errs, Respond
<1>3. CASE Convert(t)
  BY <1>3 DEF Convert, Errs, Respond, Send
<1>4. CASE \E r \in Replies : Receive(t, r)
  BY ReplyAssumption, <1>4 DEF Receive
<1>5. CASE Converted(t)
  BY <1>5 DEF Converted, Errs, Respond, Used
<1>6. CASE Look(t)
  <2>1. CASE Fresh(StoreOf(t), KeyOf(t))
    BY <1>6, <2>1 DEF Look, Respond
  <2>2. CASE ~Fresh(StoreOf(t), KeyOf(t))
    BY <1>6, <2>2 DEF Look, Send
  <2> QED
    BY <2>1, <2>2
<1>7. CASE AskAgain(t)
  BY <1>7 DEF AskAgain, Errs, Respond, Used, Send
<1>8. CASE Answered(t)
  BY <1>8 DEF Answered, Respond, Used
<1>9. CASE Unanswered(t)
  BY <1>9 DEF Unanswered, Errs, Respond, Used
<1>10. CASE Leave(t)
  BY <1>10 DEF Leave
<1> QED
  BY <1>1, <1>2, <1>3, <1>4, <1>5, <1>6, <1>7, <1>8, <1>9, <1>10 DEF Step

\* The steps of a lookup keep what it has spent known from its place in the code.
LEMMA StepSpent ==
    ASSUME TypeOK, HolderOK, CoverOK, SpentOK, NEW t \in Threads, Ask(t) \/ Step(t)
    PROVE  SpentOK'
<1> USE NoneIsNothing DEF TypeOK, HolderOK, SpentOK, SpentOf, Old, Active, OnTheWire, SlotFree, Go
<1>1. CASE Ask(t)
  BY <1>1 DEF Ask
<1>2. CASE NoKey(t)
  BY <1>2 DEF NoKey, Errs, Respond
<1>3. CASE Convert(t)
  BY <1>3 DEF Convert, Errs, Respond, Send
<1>4. CASE \E r \in Replies : Receive(t, r)
  BY <1>4 DEF Receive
<1>5. CASE Converted(t)
  BY <1>5 DEF Converted, Errs, Respond, Used, NotFound
<1>6. CASE Look(t)
  BY <1>6 DEF Look, Respond, Body, Send
<1>7. CASE AskAgain(t)
  BY <1>7 DEF AskAgain, Errs, Respond, Used, Send, NotFound
<1>8. CASE Answered(t)
  BY <1>8 DEF Answered, Respond, Body, Used
<1>9. CASE Unanswered(t)
  BY <1>9 DEF Unanswered, Errs, Respond, Used
<1>10. CASE Leave(t)
  BY <1>10 DEF Leave
<1> QED
  BY <1>1, <1>2, <1>3, <1>4, <1>5, <1>6, <1>7, <1>8, <1>9, <1>10 DEF Step

-----------------------------------------------------------------------------
\* Every step keeps the invariant.
LEMMA NextInv == IInv /\ [Next]_vars => IInv'
<1> SUFFICES ASSUME IInv, [Next]_vars PROVE IInv'
  OBVIOUS
<1>1. CASE UNCHANGED vars \/ Tick \/ \E t \in Threads : Refuse(t)
  BY <1>1, OthersKeep
<1>2. ASSUME NEW t \in Threads, Ask(t) \/ Step(t) PROVE IInv'
  BY <1>2, StepType, StepHolder, StepCover, StepSpent DEF IInv
<1> QED
  BY <1>1, <1>2 DEF Next

\* The invariant always holds.
LEMMA Invariant == Spec => []IInv
  BY InitInv, NextInv, PTL DEF Spec

\* Every variable keeps its type.
THEOREM TypeCorrect == Spec => []TypeOK
<1>1. IInv => TypeOK
  BY DEF IInv
<1> QED
  BY <1>1, Invariant, PTL

\* What is shown as sent covers what Wathq received, and every answer tells
\* exactly the requests its own lookup spent.
THEOREM CountCorrect == Spec => []CountIsRight
<1>1. IInv => CountIsRight
  BY DEF IInv, CoverOK, SpentOK, SpentOf, CountIsRight, SentCoversBilled, CallsUsedIsOwn
<1> QED
  BY <1>1, Invariant, PTL

-----------------------------------------------------------------------------
(* What the caches hold.                                                   *)

Jobs    == {JobOf(f) : f \in {g \in Forms : Valid(g)}}
Numbers == Unified \cup {None}

\* A lookup in work is one a page validly asked for; an old number it needs
\* converted may stay without a unified one on the endpoints that allow it, and
\* the key its answer goes under is the one it was looked for.
LookupOf(t) ==
    /\ unified[t] \in Numbers
    /\ pc[t] # "idle" => job[t] \in Jobs
    /\ pc[t] \in {"look", "asking"} /\ Old(t) # None /\ unified[t] = None
         => job[t].route = "query"
    /\ pc[t] = "asking" => key[t] = KeyOf(t)
    /\ pc[t] = "again" =>
         /\ job[t].route = "query" /\ Old(t) # None /\ unified[t] = None
         /\ \E u \in Numbers : key[t] = KeyFor(job[t], u)
LookupsOK == \A t \in Threads : LookupOf(t)

\* What a cache holds was converted from the number, or fetched when it was put
\* away for every question that has its key.
Held(s, k, j, u) ==
    LET p == stores[s][k].value
    IN  /\ p.shown = "object" /\ p.fetchedAt = stores[s][k].at
        /\ p.wire = wire(j.request, IF p.legacyUsed THEN None ELSE u)
        /\ j.route = "contract" => ~p.legacyUsed
HeldOK ==
    /\ \A o \in Legacy : <<Env, "convert", o>> \in DOMAIN stores["cache"]
         => stores["cache"][<<Env, "convert", o>>].value.number \in Unified
    /\ \A s \in {"cache", "lists"}, j \in Jobs, u \in Numbers :
         KeyFor(j, u) \in DOMAIN stores[s] => Held(s, KeyFor(j, u), j, u)

\* An answer that was fetched is in its cache or past its time.
GivenFor(k, s) ==
    \/ now - given[k] >= Ttl(s)
    \/ k \in DOMAIN stores[s] /\ stores[s][k].at = given[k]
GivenOK ==
    /\ \A k \in DOMAIN given : given[k] \in 0..now
    /\ \A j \in Jobs, u \in Numbers :
         KeyFor(j, u) \in DOMAIN given => GivenFor(KeyFor(j, u), StoreFor(j))

\* No cache is past its size.
SizeOK ==
    \A s \in {"cache", "lists"} :
        IsFiniteSet(DOMAIN stores[s]) /\ Cardinality(DOMAIN stores[s]) <= Size

\* An answer given is to the question asked.
AnswerOf(t) ==
    pc[t] = "answered" /\ answer[t].ok =>
        LET a == answer[t]
        IN  /\ a.payload.shown = "object"
            /\ a.payload.wire =
                 wire(job[t].request, IF a.payload.legacyUsed THEN None ELSE a.number)
AnswersOK == \A t \in Threads : AnswerOf(t)

CachesOK == LookupsOK /\ HeldOK /\ GivenOK /\ SizeOK
-----------------------------------------------------------------------------
\* The request of a lookup in work is to the older route's endpoint, or to one
\* of the catalogue's.
LEMMA JobShape ==
    ASSUME NEW j \in Jobs
    PROVE  /\ j.route \in {"query", "contract"}
           /\ j.route = "contract" => j.request.endpoint = ContractEndpoint
           /\ j.route = "query" => /\ j.request.endpoint \in Endpoints
                                   /\ load_catalog(Endpoints)
           /\ j.request.values = [n \in Names(j.request.endpoint) |-> j.request.values[n]]
<1>1. PICK f \in Forms : Valid(f) /\ j = JobOf(f)
  BY DEF Jobs
<1>2. f.route \in {"query", "contract"}
  BY LookupAssumption
<1>3. j.route = f.route /\ j.request.endpoint = EndpointOf(f)
      /\ j.request.values = Cleaned(EndpointOf(f), f.inputs, Env)
  BY <1>1 DEF JobOf, Request
<1>4. j.request.values = [n \in Names(j.request.endpoint) |-> j.request.values[n]]
  BY <1>3 DEF Cleaned
<1> QED
  BY <1>1, <1>2, <1>3, <1>4 DEF Valid, EndpointOf

\* The older route asks for one number, which it always converts.
LEMMA ContractInput ==
    \E n : ContractEndpoint.inputs = {n} /\ ~n.legacyOk /\ n.name = "number"
<1> DEFINE n == [name |-> "number", location |-> "path", kind |-> "company_number",
                 required |-> TRUE, personal |-> FALSE, legacyOk |-> FALSE, choices |-> {},
                 sandboxChoices |-> {}, requiredIf |-> {}, pattern |-> {}, patternBy |-> {}]
<1>1. ~n.legacyOk /\ n.name = "number"
  OBVIOUS
<1>2. ContractEndpoint.inputs = {n}
  BY Zenon DEF ContractEndpoint
<1> QED
  BY <1>1, <1>2

\* An endpoint asks for one company number at most.
LEMMA OneNumber ==
    ASSUME NEW j \in Jobs, NEW a \in Conv(j.request.endpoint), NEW b \in Conv(j.request.endpoint)
    PROVE  a = b
<1>1. CASE j.route = "contract"
  <2>1. j.request.endpoint = ContractEndpoint
    BY <1>1, JobShape
  <2>2. PICK n : ContractEndpoint.inputs = {n}
    BY ContractInput
  <2> QED
    BY <2>1, <2>2 DEF Conv
<1>2. CASE j.route = "query"
  <2>1. LoadsEndpoint(j.request.endpoint)
    BY <1>2, JobShape DEF load_catalog
  <2> QED
    BY <2>1 DEF LoadsEndpoint, Conv
<1> QED
  BY <1>1, <1>2, JobShape

\* What is converted is an old number.
LEMMA OldNumber ==
    ASSUME NEW j \in Jobs
    PROVE  conversion_value(j.request) \in Legacy \cup {None}
<1> DEFINE r == j.request
<1>1. CASE \E i \in Conv(r.endpoint) : r.values[i.name] \in Legacy
  <2>1. PICK i \in Conv(r.endpoint) : r.values[i.name] \in Legacy
    BY <1>1
  <2>2. {c.name : c \in Conv(r.endpoint)} = {i.name}
    BY <2>1, OneNumber
  <2>3. (CHOOSE n \in {c.name : c \in Conv(r.endpoint)} : TRUE) = i.name
    BY <2>2
  <2> QED
    BY <1>1, <2>1, <2>3 DEF conversion_value
<1>2. CASE ~\E i \in Conv(r.endpoint) : r.values[i.name] \in Legacy
  BY <1>2 DEF conversion_value
<1> QED
  BY <1>1, <1>2

\* The older route never asks by an old number.
LEMMA ContractConverts ==
    ASSUME NEW j \in Jobs, j.route = "contract"
    PROVE  ~legacy_ok(j.request)
<1>1. j.request.endpoint = ContractEndpoint
  BY JobShape
<1>2. \A i \in Conv(ContractEndpoint) : ~i.legacyOk
  BY ContractInput DEF Conv
<1> QED
  BY <1>1, <1>2 DEF legacy_ok

\* A conversion's key is no answer's.
LEMMA KeysApart == \A o, j, u : KeyFor(j, u) # <<Env, "convert", o>>
<1> SUFFICES ASSUME NEW o, NEW j, NEW u, KeyFor(j, u) = <<Env, "convert", o>> PROVE FALSE
  OBVIOUS
<1>1. DOMAIN <<Env, "convert", o>> = 1..3
  OBVIOUS
<1>2. DOMAIN KeyFor(j, u) \in {1..4, 1..2}
  BY DEF KeyFor
<1>3. 3 \in 1..3 /\ 4 \in 1..4 /\ 4 \notin 1..3 /\ 3 \notin 1..2
  OBVIOUS
<1> QED
  BY <1>1, <1>2, <1>3

\* Two questions of the catalogue under one key are one question, whatever
\* stands hashed in the key.
LEMMA SameQuery ==
    ASSUME NEW i \in Jobs, NEW j \in Jobs, NEW u, NEW v,
           i.route = "query", j.route = "query", KeyFor(i, u) = KeyFor(j, v)
    PROVE  /\ u = v /\ i.request.endpoint = j.request.endpoint
           /\ i.request.values = j.request.values
           /\ i.request.language = j.request.language
<1> DEFINE a == i.request
           b == j.request
           Items(r) == [n \in {m \in Names(r.endpoint) : r.values[m] # None} |->
                          Hashed(CHOOSE c \in r.endpoint.inputs : c.name = n, r.values[n])]
<1>1. KeyFor(i, u)[1] = cache_key(Env, a) /\ KeyFor(i, u)[2] = u
      /\ KeyFor(j, v)[1] = cache_key(Env, b) /\ KeyFor(j, v)[2] = v
  BY DEF KeyFor
<1>2. u = v /\ cache_key(Env, a) = cache_key(Env, b)
  BY <1>1
<1>3. /\ cache_key(Env, a)[2] = a.endpoint.id /\ cache_key(Env, b)[2] = b.endpoint.id
      /\ cache_key(Env, a)[3] = Items(a) /\ cache_key(Env, b)[3] = Items(b)
      /\ cache_key(Env, a)[4] = a.language /\ cache_key(Env, b)[4] = b.language
  BY DEF cache_key
<1>4. a.endpoint = b.endpoint
  <2>1. a.endpoint \in Endpoints /\ b.endpoint \in Endpoints /\ load_catalog(Endpoints)
    BY JobShape
  <2>2. a.endpoint.id = b.endpoint.id
    BY <1>2, <1>3
  <2> QED
    BY <2>1, <2>2 DEF load_catalog
<1>5. Items(a) = Items(b)
  BY <1>2, <1>3
<1> DEFINE Filling(r) == {m \in Names(r.endpoint) : r.values[m] # None}
<1>6. DOMAIN Items(a) = Filling(a) /\ DOMAIN Items(b) = Filling(b)
  OBVIOUS
<1>7. Filling(a) = Filling(b)
  BY <1>5, <1>6
<1>8. ASSUME NEW n \in Names(a.endpoint) PROVE a.values[n] = b.values[n]
  <2>1. CASE n \notin Filling(a)
    BY <2>1, <1>4, <1>7, <1>8
  <2>2. CASE n \in Filling(a)
    <3> DEFINE c == CHOOSE c \in a.endpoint.inputs : c.name = n
    <3>1. Items(a)[n] = Hashed(c, a.values[n])
      BY <2>2
    <3>2. Items(b)[n] = Hashed(c, b.values[n])
      BY <2>2, <1>4, <1>7
    <3>3. Hashed(c, a.values[n]) = Hashed(c, b.values[n])
      BY <3>1, <3>2, <1>5
    <3> HIDE DEF c
    <3>4. CASE c.personal
      <4>1. <<"hmac", a.values[n]>>[2] = <<"hmac", b.values[n]>>[2]
        BY <3>3, <3>4 DEF Hashed
      <4> QED
        BY <4>1
    <3>5. CASE ~c.personal
      BY <3>3, <3>5 DEF Hashed
    <3> QED
      BY <3>4, <3>5
  <2> QED
    BY <2>1, <2>2
<1>9. a.values = b.values
  BY <1>4, <1>8, JobShape
<1> QED
  BY <1>2, <1>3, <1>4, <1>9

\* Two questions under one key send the same, to the same cache; only those of
\* the catalogue can be asked by the old number.
LEMMA SameWire ==
    ASSUME NEW i \in Jobs, NEW j \in Jobs, NEW u \in Numbers, NEW v \in Numbers,
           KeyFor(i, u) = KeyFor(j, v)
    PROVE  /\ StoreFor(i) = StoreFor(j) /\ i.route = j.route
           /\ wire(i.request, u) = wire(j.request, v)
           /\ i.route = "query" => u = v /\ wire(i.request, None) = wire(j.request, None)
<1>1. i.route = j.route
  <2>1. ASSUME NEW a \in Jobs, NEW b \in Jobs, NEW x, NEW y, a.route = "contract", b.route = "query",
               KeyFor(a, x) = KeyFor(b, y)
        PROVE  FALSE
    <3>1. DOMAIN KeyFor(a, x) = 1..4 /\ DOMAIN KeyFor(b, y) = 1..2
      BY <2>1 DEF KeyFor
    <3>2. 4 \in 1..4 /\ 4 \notin 1..2
      OBVIOUS
    <3> QED
      BY <2>1, <3>1, <3>2
  <2>2. i.route \in {"query", "contract"} /\ j.route \in {"query", "contract"}
    BY JobShape
  <2>3. ~(i.route = "contract" /\ j.route = "query")
    BY <2>1
  <2>4. ~(j.route = "contract" /\ i.route = "query")
    BY <2>1
  <2> QED
    BY <2>2, <2>3, <2>4
<1>2. CASE i.route = "query"
  <2>1. /\ u = v /\ i.request.endpoint = j.request.endpoint
        /\ i.request.values = j.request.values /\ i.request.language = j.request.language
    <3>1. j.route = "query"
      BY <1>1, <1>2
    <3> QED
      BY <1>2, <3>1, SameQuery
  <2>2. \A x : wire(i.request, x) = wire(j.request, x)
    BY <2>1 DEF wire, Filled, At
  <2> QED
    BY <1>1, <2>1, <2>2 DEF StoreFor
<1>3. CASE i.route = "contract"
  <2>1. i.request.endpoint = ContractEndpoint /\ j.request.endpoint = ContractEndpoint
    BY <1>1, <1>3, JobShape
  <2> DEFINE Asked(r, x) == IF x # None THEN x ELSE r.values["number"]
  <2>2. Asked(i.request, u) = Asked(j.request, v) /\ i.request.language = j.request.language
    <3>1. /\ KeyFor(i, u)[3] = Asked(i.request, u) /\ KeyFor(i, u)[4] = i.request.language
          /\ KeyFor(j, v)[3] = Asked(j.request, v) /\ KeyFor(j, v)[4] = j.request.language
      BY <1>1, <1>3 DEF KeyFor
    <3> QED
      BY <3>1
  <2>3. /\ ContractEndpoint.path = {"number"}
        /\ {c.name : c \in Conv(ContractEndpoint)} = {"number"}
    BY ContractInput DEF ContractEndpoint, Conv
  <2>5. Filled(i.request, "query") = {} /\ Filled(i.request, "header") = {}
        /\ Filled(j.request, "query") = {} /\ Filled(j.request, "header") = {}
    <3>1. \A c \in ContractEndpoint.inputs : c.location = "path"
      BY DEF ContractEndpoint
    <3> QED
      BY <2>1, <3>1 DEF Filled, At
  <2> QED
    BY <1>1, <1>3, <2>1, <2>2, <2>3, <2>5 DEF wire, StoreFor
<1> QED
  BY <1>1, <1>2, <1>3, JobShape
-----------------------------------------------------------------------------
(* What the operations of _Cache leave.                                    *)

Caches == {"cache", "lists"}

\* get drops the one entry asked for, once it is past its time.
LEMMA GetLeaves ==
    ASSUME TypeOK, NEW s \in Caches, NEW k, NEW c \in Caches
    PROVE  /\ DOMAIN get(s, k)[c] \subseteq DOMAIN stores[c]
           /\ \A x \in DOMAIN get(s, k)[c] : get(s, k)[c][x] = stores[c][x]
           /\ \A x \in DOMAIN stores[c] \ DOMAIN get(s, k)[c] :
                x = k /\ c = s /\ ~Fresh(s, k)
  BY DEF TypeOK, Caches, get, Without

\* put adds its own entry, and all other entries are ones that were there.
LEMMA PutLeaves ==
    ASSUME TypeOK, NEW s \in Caches, NEW k, NEW v, NEW new \in put(s, k, v), NEW c \in Caches
    PROVE  /\ c = s /\ Ttl(s) # 0 => k \in DOMAIN new[c] /\ new[c][k] = [at |-> now, value |-> v]
           /\ \A x \in DOMAIN new[c] :
                \/ c = s /\ x = k /\ new[c][x] = [at |-> now, value |-> v]
                \/ x \in DOMAIN stores[c] /\ new[c][x] = stores[c][x]
           /\ c # s => new[c] = stores[c]
<1>1. CASE Ttl(s) = 0
  BY <1>1 DEF put
<1>2. CASE Ttl(s) # 0 /\ Cardinality(DOMAIN stores[s]) >= Size
  <2>1. PICK o \in Oldest(stores[s]) : new = [stores EXCEPT ![s] = With(Without(@, o), k, v)]
    BY <1>2 DEF put
  <2> QED
    BY <1>2, <2>1 DEF TypeOK, Caches, With, Without
<1>3. CASE Ttl(s) # 0 /\ ~(Cardinality(DOMAIN stores[s]) >= Size)
  <2>1. new = [stores EXCEPT ![s] = With(@, k, v)]
    BY <1>3 DEF put
  <2> QED
    BY <1>3, <2>1 DEF TypeOK, Caches, With
<1> QED
  BY <1>1, <1>2, <1>3

\* Neither makes a cache larger than its size.
LEMMA GetSize ==
    ASSUME TypeOK, SizeOK, NEW s \in Caches, NEW k, NEW c \in Caches
    PROVE  /\ IsFiniteSet(DOMAIN get(s, k)[c])
           /\ Cardinality(DOMAIN get(s, k)[c]) <= Size
<1>1. IsFiniteSet(DOMAIN stores[c]) /\ Cardinality(DOMAIN stores[c]) <= Size
  BY DEF SizeOK, Caches
<1>2. DOMAIN get(s, k)[c] \subseteq DOMAIN stores[c]
  BY GetLeaves
<1>3. /\ IsFiniteSet(DOMAIN get(s, k)[c])
      /\ Cardinality(DOMAIN get(s, k)[c]) <= Cardinality(DOMAIN stores[c])
  BY <1>1, <1>2, FS_Subset
<1>4. Cardinality(DOMAIN get(s, k)[c]) \in Nat /\ Cardinality(DOMAIN stores[c]) \in Nat
  BY <1>1, <1>3, FS_CardinalityType
<1> QED
  BY <1>1, <1>3, <1>4, LookupAssumption

LEMMA PutSize ==
    ASSUME TypeOK, SizeOK, NEW s \in Caches, NEW k, NEW v, NEW new \in put(s, k, v), NEW c \in Caches
    PROVE  IsFiniteSet(DOMAIN new[c]) /\ Cardinality(DOMAIN new[c]) <= Size
<1> DEFINE D == DOMAIN stores[s]
<1>1. IsFiniteSet(D) /\ Cardinality(D) <= Size /\ Cardinality(D) \in Nat /\ Size \in Nat \ {0}
  BY FS_CardinalityType, LookupAssumption DEF SizeOK, Caches
<1>2. CASE c # s \/ Ttl(s) = 0
  <2>1. new[c] = stores[c]
    <3>1. CASE c # s
      BY <3>1 DEF put, TypeOK, Caches
    <3>2. CASE Ttl(s) = 0
      BY <3>2 DEF put
    <3> QED
      BY <1>2, <3>1, <3>2
  <2> QED
    BY <2>1 DEF SizeOK, Caches
<1>3. CASE c = s /\ Ttl(s) # 0 /\ Cardinality(D) >= Size
  <2>1. PICK o \in Oldest(stores[s]) : new = [stores EXCEPT ![s] = With(Without(@, o), k, v)]
    BY <1>3 DEF put
  <2>2. o \in D /\ DOMAIN new[c] = (D \ {o}) \cup {k}
    BY <1>3, <2>1 DEF TypeOK, Caches, With, Without, Oldest
  <2>3. IsFiniteSet(D \ {o}) /\ Cardinality(D \ {o}) = Cardinality(D) - 1
    BY <1>1, <2>2, FS_RemoveElement
  <2>4. /\ IsFiniteSet((D \ {o}) \cup {k})
        /\ Cardinality((D \ {o}) \cup {k}) \in {Cardinality(D \ {o}), Cardinality(D \ {o}) + 1}
    BY <2>3, FS_AddElement
  <2> QED
    BY <1>1, <2>2, <2>3, <2>4
<1>4. CASE c = s /\ Ttl(s) # 0 /\ ~(Cardinality(D) >= Size)
  <2>1. DOMAIN new[c] = D \cup {k}
    BY <1>4 DEF put, TypeOK, Caches, With
  <2>2. IsFiniteSet(D \cup {k}) /\ Cardinality(D \cup {k}) \in {Cardinality(D), Cardinality(D) + 1}
    BY <1>1, FS_AddElement
  <2> QED
    BY <1>1, <1>4, <2>1, <2>2
<1> QED
  BY <1>2, <1>3, <1>4

LEMMA TtlType == \A s : Ttl(s) \in Nat
  BY LookupAssumption DEF Ttl

\* Dropping what is past its time loses nothing that is still to be had.
LEMMA GetKeeps ==
    ASSUME TypeOK, HeldOK, GivenOK, SizeOK, NEW s \in Caches, NEW k,
           stores' = stores \/ stores' = get(s, k), UNCHANGED <<now, given>>
    PROVE  HeldOK' /\ GivenOK' /\ SizeOK'
<1>1. CASE stores' = stores
  BY <1>1 DEF HeldOK, Held, GivenOK, GivenFor, SizeOK, Ttl
<1>2. CASE stores' = get(s, k)
  <2>1. \A c \in Caches :
          /\ DOMAIN stores'[c] \subseteq DOMAIN stores[c]
          /\ \A x \in DOMAIN stores'[c] : stores'[c][x] = stores[c][x]
          /\ \A x \in DOMAIN stores[c] \ DOMAIN stores'[c] : x = k /\ c = s /\ ~Fresh(s, k)
    BY <1>2, GetLeaves
  <2>2. SizeOK'
    BY <1>2, GetSize DEF SizeOK, Caches
  <2>3. HeldOK'
    BY <2>1 DEF HeldOK, Held, Caches
  <2>4. ASSUME NEW x \in DOMAIN given, NEW c \in Caches, GivenFor(x, c)
        PROVE  GivenFor(x, c)'
    <3>1. now \in Nat /\ given[x] \in Nat /\ Ttl(c) \in Nat
      BY TtlType, LookupAssumption DEF GivenOK, TypeOK
    <3>2. CASE x \in DOMAIN stores[c] \ DOMAIN stores'[c]
      <4>1. x = k /\ c = s /\ ~Fresh(c, x)
        BY <2>1, <3>2
      <4> QED
        BY <2>4, <3>1, <3>2, <4>1 DEF GivenFor, Fresh, Ttl
    <3>3. CASE x \notin DOMAIN stores[c] \ DOMAIN stores'[c]
      BY <2>1, <2>4, <3>3 DEF GivenFor, Ttl
    <3> QED
      BY <3>2, <3>3
  <2>5. GivenOK'
    <3>1. \A j \in Jobs : StoreFor(j) \in Caches
      BY DEF StoreFor, Caches
    <3> QED
      BY <2>4, <3>1 DEF GivenOK
  <2> QED
    BY <2>2, <2>3, <2>5
<1> QED
  BY <1>1, <1>2

\* A conversion put away says the number it was asked for.
LEMMA ConvertPut ==
    ASSUME TypeOK, HeldOK, GivenOK, SizeOK, NEW o \in Legacy, UNCHANGED now,
           stores' \in put("cache", <<Env, "convert", o>>, [number |-> UnifiedOf[o]]),
           given' = Kept("cache")
    PROVE  HeldOK' /\ GivenOK' /\ SizeOK'
<1> DEFINE k == <<Env, "convert", o>>
           e == [at |-> now, value |-> [number |-> UnifiedOf[o]]]
<1>1. \A c \in Caches :
        /\ \A x \in DOMAIN stores'[c] :
             \/ c = "cache" /\ x = k /\ stores'[c][x] = e
             \/ x \in DOMAIN stores[c] /\ stores'[c][x] = stores[c][x]
        /\ c # "cache" => stores'[c] = stores[c]
  BY PutLeaves DEF Caches
<1>2. \A j, u : KeyFor(j, u) # k
  BY KeysApart
<1> HIDE DEF k
<1>3. SizeOK'
  BY PutSize DEF SizeOK, Caches
<1>4. HeldOK'
  <2>1. ASSUME NEW q \in Legacy, <<Env, "convert", q>> \in DOMAIN stores'["cache"]
        PROVE  stores'["cache"][<<Env, "convert", q>>].value.number \in Unified
    <3>1. e.value.number \in Unified
      BY LookupAssumption
    <3> QED
      BY <1>1, <2>1, <3>1 DEF HeldOK, Caches
  <2>2. ASSUME NEW c \in Caches, NEW j \in Jobs, NEW u \in Numbers,
               KeyFor(j, u) \in DOMAIN stores'[c]
        PROVE  Held(c, KeyFor(j, u), j, u)'
    BY <1>1, <1>2, <2>2 DEF HeldOK, Held, Caches
  <2> QED
    BY <2>1, <2>2 DEF HeldOK, Caches
<1>5. GivenOK'
  <2>1. \A x \in DOMAIN given' :
          /\ x \in DOMAIN given /\ given'[x] = given[x]
          /\ x \in DOMAIN stores["cache"] => x \in DOMAIN stores'["cache"]
    BY DEF Kept
  <2>2. ASSUME NEW x \in DOMAIN given', NEW c \in Caches, GivenFor(x, c), x # k
        PROVE  GivenFor(x, c)'
    BY <1>1, <2>1, <2>2 DEF GivenFor, Ttl, Caches
  <2>3. \A j \in Jobs : StoreFor(j) \in Caches
    BY DEF StoreFor, Caches
  <2> QED
    BY <1>2, <2>1, <2>2, <2>3 DEF GivenOK
<1> QED
  BY <1>3, <1>4, <1>5

\* An answer put away under the key of its question answers every question
\* that has this key.
LEMMA AnswerPut ==
    ASSUME TypeOK, HeldOK, GivenOK, SizeOK, UNCHANGED now, NEW j \in Jobs, NEW u \in Numbers, NEW p,
           p.shown = "object", p.fetchedAt = now, j.route = "contract" => ~p.legacyUsed,
           p.wire = wire(j.request, IF p.legacyUsed THEN None ELSE u),
           stores' \in put(StoreFor(j), KeyFor(j, u), p),
           given' = [x \in DOMAIN Kept(StoreFor(j)) \cup {KeyFor(j, u)} |->
                       IF x = KeyFor(j, u) THEN now ELSE given[x]]
    PROVE  HeldOK' /\ GivenOK' /\ SizeOK'
<1> DEFINE s == StoreFor(j)
           k == KeyFor(j, u)
           e == [at |-> now, value |-> p]
<1>0. s \in Caches
  BY DEF StoreFor, Caches
<1>1. \A c \in Caches :
        /\ c = s /\ Ttl(s) # 0 => k \in DOMAIN stores'[c] /\ stores'[c][k] = e
        /\ \A x \in DOMAIN stores'[c] :
             \/ c = s /\ x = k /\ stores'[c][x] = e
             \/ x \in DOMAIN stores[c] /\ stores'[c][x] = stores[c][x]
        /\ c # s => stores'[c] = stores[c]
  BY <1>0, PutLeaves
<1>2. \A o : k # <<Env, "convert", o>>
  BY KeysApart
<1>3. SizeOK'
  BY <1>0, PutSize DEF SizeOK, Caches
<1>4. HeldOK'
  <2>1. ASSUME NEW q \in Legacy, <<Env, "convert", q>> \in DOMAIN stores'["cache"]
        PROVE  stores'["cache"][<<Env, "convert", q>>].value.number \in Unified
    BY <1>1, <1>2, <2>1 DEF HeldOK, Caches
  <2>2. ASSUME NEW c \in Caches, NEW i \in Jobs, NEW v \in Numbers,
               KeyFor(i, v) \in DOMAIN stores'[c]
        PROVE  Held(c, KeyFor(i, v), i, v)'
    <3>1. CASE KeyFor(i, v) \in DOMAIN stores[c]
               /\ stores'[c][KeyFor(i, v)] = stores[c][KeyFor(i, v)]
      BY <3>1 DEF HeldOK, Held, Caches
    <3>2. CASE KeyFor(i, v) = k /\ stores'[c][KeyFor(i, v)] = e
      <4>1. /\ i.route = j.route /\ wire(i.request, v) = wire(j.request, u)
            /\ i.route = "query" => wire(i.request, None) = wire(j.request, None)
        BY <3>2, SameWire
      <4>2. i.route \in {"query", "contract"}
        BY JobShape
      <4>3. p.wire = wire(i.request, IF p.legacyUsed THEN None ELSE v)
        BY <4>1, <4>2
      <4>4. e.value = p /\ e.at = now
        OBVIOUS
      <4> QED
        BY <3>2, <4>1, <4>3, <4>4 DEF Held
    <3> QED
      BY <1>1, <2>2, <3>1, <3>2
  <2> QED
    BY <2>1, <2>2 DEF HeldOK, Caches
<1>5. GivenOK'
  <2>1. \A x \in DOMAIN given' :
          \/ x = k /\ given'[x] = now
          \/ /\ x # k /\ x \in DOMAIN given /\ given'[x] = given[x]
             /\ x \in DOMAIN stores[s] => x \in DOMAIN stores'[s]
    BY DEF Kept
  <2>2. now \in Nat
    BY LookupAssumption DEF TypeOK
  <2>3. ASSUME NEW x \in DOMAIN given', NEW c \in Caches, GivenFor(x, c), x # k
        PROVE  GivenFor(x, c)'
    BY <1>0, <1>1, <2>1, <2>3 DEF GivenFor, Ttl
  <2>4. GivenFor(k, s)' \/ k \notin DOMAIN given'
    <3>1. given'[k] = now
      OBVIOUS
    <3>2. CASE Ttl(s) = 0
      BY <2>2, <3>1, <3>2 DEF GivenFor, Ttl
    <3>3. CASE Ttl(s) # 0
      BY <1>0, <1>1, <3>1, <3>3 DEF GivenFor
    <3> QED
      BY <3>2, <3>3
  <2>5. ASSUME NEW i \in Jobs, NEW v \in Numbers, KeyFor(i, v) \in DOMAIN given'
        PROVE  GivenFor(KeyFor(i, v), StoreFor(i))'
    <3>1. StoreFor(i) \in Caches
      BY DEF StoreFor, Caches
    <3>2. CASE KeyFor(i, v) = k
      BY <2>4, <2>5, <3>2, SameWire
    <3>3. CASE KeyFor(i, v) # k
      BY <2>1, <2>3, <2>5, <3>1, <3>3 DEF GivenOK
    <3> QED
      BY <3>2, <3>3
  <2> QED
    BY <2>1, <2>2, <2>5 DEF GivenOK
<1> QED
  BY <1>3, <1>4, <1>5

\* The steps of a lookup keep what the caches hold.
LEMMA StepCaches ==
    ASSUME TypeOK, SpentOK, CachesOK, NEW t \in Threads, Ask(t) \/ Step(t)
    PROVE  HeldOK' /\ GivenOK' /\ SizeOK'
<1> USE DEF CachesOK, history
<1>1. /\ StoreOf(t) \in Caches /\ "cache" \in Caches
      /\ StoreOf(t) = StoreFor(job[t]) /\ KeyOf(t) = KeyFor(job[t], unified[t])
  BY DEF StoreOf, StoreFor, Caches, KeyOf
<1>2. ASSUME UNCHANGED <<stores, now, given>> PROVE HeldOK' /\ GivenOK' /\ SizeOK'
  BY <1>1, <1>2, GetKeeps
<1>3. ASSUME NEW s \in Caches, NEW k, stores' = get(s, k), UNCHANGED <<now, given>>
      PROVE  HeldOK' /\ GivenOK' /\ SizeOK'
  BY <1>3, GetKeeps
<1>4. CASE Ask(t) \/ (\E r \in Replies : Receive(t, r)) \/ AskAgain(t) \/ Unanswered(t) \/ Leave(t)
  <2>1. UNCHANGED <<stores, now, given>>
    BY <1>4 DEF Ask, Receive, AskAgain, Unanswered, Leave
  <2> QED
    BY <2>1, <1>2
<1>5. CASE NoKey(t)
  <2>1. UNCHANGED <<now, given>>
    BY <1>5 DEF NoKey
  <2>2. CASE stores' = get("cache", ConvertKey(t))
    BY <1>1, <1>3, <2>1, <2>2
  <2>3. CASE stores' = get(StoreOf(t), KeyOf(t))
    BY <1>1, <1>3, <2>1, <2>3
  <2> QED
    BY <1>5, <2>2, <2>3 DEF NoKey
<1>6. CASE Convert(t)
  <2>1. UNCHANGED <<now, given>> /\ (stores' = stores \/ stores' = get("cache", ConvertKey(t)))
    BY <1>6 DEF Convert
  <2> QED
    BY <1>1, <1>2, <1>3, <2>1
<1>7. CASE Look(t)
  <2>1. UNCHANGED <<now, given>> /\ stores' = get(StoreOf(t), KeyOf(t))
    BY <1>7 DEF Look
  <2> QED
    BY <1>1, <1>3, <2>1
<1>8. CASE Converted(t)
  <2>1. CASE Outcome(t).ok /\ Outcome(t).core = "object"
    <3>1. Old(t) \in Legacy
      BY <1>8, OldNumber DEF Converted, SpentOK, SpentOf, LookupsOK, LookupOf, Old
    <3>2. /\ stores' \in put("cache", <<Env, "convert", Old(t)>>, [number |-> UnifiedOf[Old(t)]])
          /\ given' = Kept("cache") /\ UNCHANGED now
      BY <1>8, <2>1 DEF Converted, ConvertKey, national_number
    <3> HIDE DEF history
    <3> QED
      BY <3>1, <3>2, ConvertPut
  <2>2. CASE ~(Outcome(t).ok /\ Outcome(t).core = "object")
    BY <1>2, <1>8, <2>2 DEF Converted
  <2> QED
    BY <2>1, <2>2
<1>9. CASE Answered(t)
  <2> DEFINE j == job[t]
             p == Payload(t)
  <2>1. j \in Jobs /\ pc[t] \in {"asking", "again"} /\ LookupOf(t)
    BY <1>9 DEF Answered, LookupsOK, LookupOf
  <2>2. PICK u \in Numbers : key[t] = KeyFor(j, u) /\ (pc[t] = "asking" => u = unified[t])
    BY <2>1, <1>1 DEF LookupOf
  <2>3. /\ p.shown = "object" /\ p.fetchedAt = now
        /\ p.legacyUsed <=> Old(t) # None /\ unified[t] = None
        /\ p.wire = wire(j.request, unified[t])
    BY <1>9 DEF Answered, Showable, Payload
  <2>4. j.route = "contract" => ~p.legacyUsed
    BY <2>1, <2>3 DEF LookupOf
  <2>5. p.wire = wire(j.request, IF p.legacyUsed THEN None ELSE u)
    BY <2>1, <2>2, <2>3 DEF LookupOf
  <2>6. /\ stores' \in put(StoreFor(j), KeyFor(j, u), p) /\ UNCHANGED now
        /\ given' = [x \in DOMAIN Kept(StoreFor(j)) \cup {KeyFor(j, u)} |->
                       IF x = KeyFor(j, u) THEN now ELSE given[x]]
    BY <1>9, <1>1, <2>2 DEF Answered, PutKey
  <2> HIDE DEF p, j
  <2> QED
    BY <2>1, <2>3, <2>4, <2>5, <2>6, AnswerPut DEF j
<1> QED
  BY <1>4, <1>5, <1>6, <1>7, <1>8, <1>9 DEF Step

\* The steps of a lookup keep its question, its number and its key.
LEMMA StepLookup ==
    ASSUME TypeOK, SpentOK, CachesOK, NEW t \in Threads, Ask(t) \/ Step(t)
    PROVE  LookupsOK'
<1> USE DEF TypeOK, LookupsOK, LookupOf, CachesOK, Go, Old, KeyOf, Active
<1>1. CASE Ask(t)
  BY <1>1 DEF Ask, Jobs, SpentOK, SpentOf
<1>2. CASE NoKey(t)
  BY <1>2 DEF NoKey, Errs, Respond
<1>3. CASE Convert(t)
  <2>1. job[t] \in Jobs /\ Old(t) \in Legacy \cup {None}
    BY <1>3, OldNumber DEF Convert
  <2>2. CASE Old(t) = None \/ Fresh("cache", ConvertKey(t))
    <3>1. unified' = [unified EXCEPT ![t] = IF Old(t) = None THEN None
                        ELSE stores["cache"][ConvertKey(t)].value.number]
      BY <1>3, <2>2 DEF Convert
    <3>2. /\ unified'[t] \in Numbers
          /\ Old(t) # None => unified'[t] # None
          /\ \A i \in Threads : i # t => unified'[i] = unified[i]
      BY <2>1, <2>2, <3>1, CatalogAssumption DEF HeldOK, Fresh, ConvertKey, Numbers
    <3> QED
      <4>1. /\ pc' = [pc EXCEPT ![t] = "look"] /\ job' = job /\ key' = key
        BY <1>3, <2>2, <3>1 DEF Convert
      <4>2. LookupOf(t)'
        BY <2>1, <3>2, <4>1
      <4>3. ASSUME NEW i \in Threads, i # t PROVE LookupOf(i)'
        BY <3>2, <4>1, <4>3
      <4> QED
        BY <4>2, <4>3
  <2>3. CASE ~(Old(t) = None \/ Fresh("cache", ConvertKey(t)))
    BY <1>3, <2>3 DEF Convert, Errs, Respond, Send
  <2> QED
    BY <2>2, <2>3
<1>4. CASE \E r \in Replies : Receive(t, r)
  BY <1>4 DEF Receive
<1>5. CASE Converted(t)
  <2>1. job[t] \in Jobs /\ Old(t) \in Legacy
    BY <1>5, OldNumber DEF Converted, SpentOK, SpentOf
  <2>2. CASE Outcome(t).ok /\ Outcome(t).core = "object"
    <3>1. UnifiedOf[Old(t)] \in Numbers /\ UnifiedOf[Old(t)] # None
      BY <2>1, LookupAssumption, CatalogAssumption DEF Numbers
    <3> QED
      BY <1>5, <2>2, <3>1 DEF Converted, national_number
  <2>3. CASE ~(Outcome(t).ok /\ Outcome(t).core = "object")
    <3>1. legacy_ok(job[t].request) => job[t].route = "query"
      BY <2>1, ContractConverts, JobShape
    <3> QED
      BY <1>5, <2>1, <2>3, <3>1 DEF Converted, Errs, Respond
  <2> QED
    BY <2>2, <2>3
<1>6. CASE Look(t)
  BY <1>6 DEF Look, Respond, Send
<1>7. CASE AskAgain(t)
  <2>1. job[t].route = "query"
    BY <1>7, ContractConverts, JobShape DEF AskAgain
  <2>2. Old(t) # None
    BY <1>7 DEF AskAgain, SpentOK, SpentOf
  <2>3. None \in Numbers
    BY DEF Numbers
  <2> QED
    BY <1>7, <2>1, <2>2, <2>3 DEF AskAgain, Errs, Respond, Used, Send
<1>8. CASE Answered(t)
  BY <1>8 DEF Answered, Respond, Used
<1>9. CASE Unanswered(t)
  BY <1>9 DEF Unanswered, Errs, Respond, Used
<1>10. CASE Leave(t)
  BY <1>10 DEF Leave, Numbers
<1> QED
  BY <1>1, <1>2, <1>3, <1>4, <1>5, <1>6, <1>7, <1>8, <1>9, <1>10 DEF Step

\* The steps of a lookup answer its own question.
LEMMA StepAnswer ==
    ASSUME TypeOK, CachesOK, AnswersOK, NEW t \in Threads, Ask(t) \/ Step(t)
    PROVE  AnswersOK'
<1> USE DEF TypeOK, AnswersOK, AnswerOf, Go
<1>1. CASE Ask(t)
  BY <1>1 DEF Ask
<1>2. CASE NoKey(t)
  BY <1>2 DEF NoKey, Errs, Respond
<1>3. CASE Convert(t)
  BY <1>3 DEF Convert, Errs, Respond, Send
<1>4. CASE \E r \in Replies : Receive(t, r)
  BY <1>4 DEF Receive
<1>5. CASE Converted(t)
  BY <1>5 DEF Converted, Errs, Respond
<1>6. CASE Look(t)
  <2>1. CASE Fresh(StoreOf(t), KeyOf(t))
    <3> DEFINE p == stores[StoreOf(t)][KeyOf(t)].value
    <3>1. job[t] \in Jobs /\ unified[t] \in Numbers
      BY <1>6 DEF Look, CachesOK, LookupsOK, LookupOf
    <3>2. p.shown = "object"
          /\ p.wire = wire(job[t].request, IF p.legacyUsed THEN None ELSE unified[t])
      BY <2>1, <3>1 DEF CachesOK, HeldOK, Held, Fresh, StoreOf, StoreFor, KeyOf
    <3>3. /\ answer' = [answer EXCEPT ![t] = Body(t, p, TRUE, unified[t])]
          /\ pc' = [pc EXCEPT ![t] = "answered"] /\ job' = job
      BY <1>6, <2>1 DEF Look, Respond
    <3>4. /\ Body(t, p, TRUE, unified[t]).payload = p
          /\ Body(t, p, TRUE, unified[t]).number = unified[t]
      BY DEF Body
    <3> HIDE DEF p
    <3> QED
      BY <3>2, <3>3, <3>4
  <2>2. CASE ~Fresh(StoreOf(t), KeyOf(t))
    BY <1>6, <2>2 DEF Look, Send
  <2> QED
    BY <2>1, <2>2
<1>7. CASE AskAgain(t)
  BY <1>7 DEF AskAgain, Errs, Respond, Send
<1>8. CASE Answered(t)
  <2>1. /\ Payload(t).shown = "object"
        /\ Payload(t).legacyUsed => unified[t] = None
        /\ Payload(t).wire = wire(job[t].request, unified[t])
    BY <1>8 DEF Answered, Showable, Payload
  <2>2. /\ answer' = [answer EXCEPT ![t] = Body(t, Payload(t), FALSE, unified[t])]
        /\ pc' = [pc EXCEPT ![t] = "answered"] /\ job' = job
    BY <1>8 DEF Answered, Respond
  <2>3. /\ Body(t, Payload(t), FALSE, unified[t]).payload = Payload(t)
        /\ Body(t, Payload(t), FALSE, unified[t]).number = unified[t]
    BY DEF Body
  <2> QED
    BY <2>1, <2>2, <2>3
<1>9. CASE Unanswered(t)
  BY <1>9 DEF Unanswered, Errs, Respond
<1>10. CASE Leave(t)
  BY <1>10 DEF Leave
<1> QED
  BY <1>1, <1>2, <1>3, <1>4, <1>5, <1>6, <1>7, <1>8, <1>9, <1>10 DEF Step

-----------------------------------------------------------------------------
(* What an answer is made of.                                              *)

\* A failure is never an answer.
LEMMA FailuresFail ==
    /\ \A reason : ~A!transport_error(reason).ok
    /\ \A status, code : ~A!error_for(status, code).ok
  BY DEF A!transport_error, A!error_for, A!Fails, A!FailsWith

\* Decompressing leaves a JSON value exactly where one is inside and packed in a
\* way that is undone, and it is that value.
LEMMA Unpacking ==
    ASSUME NEW label, NEW l \in Seq(A!Packings), NEW c \in A!Cores,
           label \in {"none", "gzip", "deflate", "unsupported"},
           NEW r, r.label = label, r.layers = l, r.core = c
    PROVE  LET body == A!_decompress(label, l, c)
           IN  /\ body \in A!Json <=> Packed(r) /\ c \in A!Json
               /\ body \in A!Json => body = c
<1> DEFINE body == A!_decompress(label, l, c)
           first  == A!Unpacks(label, 0, l, c)
           second == A!Unpacks(label, 1, Tail(l), c)
           third  == A!Unpacks(label, 2, Tail(Tail(l)), c)
<1>1. body = IF label = "unsupported" THEN IF A!Plain(l, c) THEN c ELSE "unsupported"
             ELSE IF first # "inflated" THEN first
             ELSE IF second # "inflated" THEN second ELSE third
  BY DEF A!_decompress
<1>2. /\ c \notin {"inflated", "unsupported", "too_deep", "binary", "cut_off", "not_compressed"}
      /\ \A w \in {"inflated", "unsupported", "too_deep", "binary", "cut_off", "not_compressed"} :
           w \notin A!Json
  BY DEF A!Cores, A!Json, A!Bracketed
<1> SUFFICES /\ body \in A!Json <=> Packed(r) /\ c \in A!Json
             /\ body \in A!Json => body = c
  OBVIOUS
<1> HIDE DEF body
<1>3. CASE l = <<>>
  <2>1. /\ Packed(r) <=> label = "none" \/ c \in A!Bracketed
        /\ A!Outside(l) = "nothing"
    BY <1>3 DEF Packed, A!Outside
  <2>2. /\ label = "none" => first = c
        /\ label \in {"gzip", "deflate"} =>
                first = IF c \in A!Bracketed THEN c ELSE "not_compressed"
    BY <1>3, <2>1 DEF A!Unpacks, A!LayerKind, A!Inflates, A!Plain
  <2>3. (A!Plain(l, c) <=> c \in A!Bracketed) /\ A!Bracketed \subseteq A!Json
    BY <1>3 DEF A!Plain, A!Json
  <2> HIDE DEF first, second, third
  <2> QED
    BY <1>1, <1>2, <2>1, <2>2, <2>3
<1>4. CASE l # <<>> /\ label = "unsupported"
  <2>1. ~A!Plain(l, c) /\ ~Packed(r)
    BY <1>4 DEF A!Plain, Packed
  <2> QED
    BY <1>1, <1>2, <1>4, <2>1
<1>5. CASE l # <<>> /\ label # "unsupported"
  <2>1. /\ A!Outside(l) = l[1] /\ l[1] \in A!Packings /\ Len(l) \in Nat \ {0}
        /\ Tail(l) \in Seq(A!Packings) /\ Len(Tail(l)) = Len(l) - 1
        /\ Tail(l) # <<>> => Tail(l)[1] = l[2]
    BY <1>5 DEF A!Outside
  <2>2. /\ first = "inflated" <=> \/ l[1] = "gzip" /\ label # "deflate"
                                  \/ l[1] \in {"deflate", "raw_deflate"} /\ label = "deflate"
        /\ first \in {"inflated", "binary", "cut_off", "not_compressed"}
    BY <1>5, <2>1 DEF A!Unpacks, A!LayerKind, A!Inflates, A!Plain, A!Packings
  <2>3. CASE first # "inflated"
    <3>1. ~Packed(r)
      BY <1>5, <2>2, <2>3 DEF Packed
    <3> HIDE DEF first, second, third
    <3> QED
      BY <1>1, <1>2, <1>5, <2>2, <2>3, <3>1
  <2>4. CASE first = "inflated" /\ Tail(l) = <<>>
    <3>1. Len(l) = 1
      <4>1. Len(Tail(l)) = 0
        BY <2>4
      <4>2. Len(Tail(l)) = Len(l) - 1 /\ Len(l) \in Int
        BY <2>1
      <4> HIDE DEF first, second, third
      <4> QED
        BY <4>1, <4>2
    <3>2. Packed(r)
      BY <1>5, <2>2, <2>4, <3>1 DEF Packed
    <3>3. second = c
      BY <2>4 DEF A!Unpacks, A!LayerKind, A!Outside
    <3> HIDE DEF first, second, third
    <3> QED
      BY <1>1, <1>2, <1>5, <2>4, <3>2, <3>3
  <2>5. CASE first = "inflated" /\ Tail(l) # <<>>
    <3>1. /\ A!Outside(Tail(l)) = l[2] /\ l[2] \in A!Packings /\ Len(l) >= 2
          /\ Tail(Tail(l)) \in Seq(A!Packings) /\ Len(Tail(Tail(l))) = Len(l) - 2
          /\ Tail(Tail(l)) # <<>> => A!Outside(Tail(Tail(l))) = l[3] /\ l[3] \in A!Packings
      BY <2>1, <2>5 DEF A!Outside
    <3>2. second = IF l[2] = "gzip" THEN "inflated"
                   ELSE IF l[2] = "cut_gzip" THEN "cut_off" ELSE "binary"
      BY <2>5, <3>1 DEF A!Unpacks, A!LayerKind, A!Inflates, A!Packings
    <3>3. CASE second # "inflated"
      <4>1. ~Packed(r)
        BY <1>5, <3>1, <3>2, <3>3 DEF Packed
      <4> HIDE DEF first, second, third
      <4> QED
        BY <1>1, <1>2, <1>5, <2>5, <3>2, <3>3, <4>1
    <3>4. CASE second = "inflated" /\ Tail(Tail(l)) = <<>>
      <4>1. Len(l) = 2
        <5>1. Len(Tail(Tail(l))) = 0
          BY <3>4
        <5> QED
          BY <2>1, <3>1, <5>1
      <4>2. Packed(r)
        BY <1>5, <2>2, <2>5, <3>2, <3>4, <4>1 DEF Packed
      <4>3. third = c
        BY <3>4 DEF A!Unpacks, A!LayerKind, A!Outside
      <4> HIDE DEF first, second, third
      <4> QED
        BY <1>1, <1>2, <1>5, <2>5, <3>4, <4>2, <4>3
    <3>5. CASE second = "inflated" /\ Tail(Tail(l)) # <<>>
      <4>1. Len(l) > 2
        BY <3>1, <3>5
      <4>2. ~Packed(r)
        BY <1>5, <4>1, <2>1 DEF Packed
      <4>3. third \in {"too_deep", "binary"}
        BY <3>5 DEF A!Unpacks, A!LayerKind
      <4> HIDE DEF first, second, third
      <4> QED
        BY <1>1, <1>2, <1>5, <2>5, <3>5, <4>2, <4>3
    <3> QED
      BY <3>3, <3>4, <3>5
  <2> QED
    BY <2>3, <2>4, <2>5
<1> QED
  BY <1>3, <1>4, <1>5

\* One request gives an answer exactly where a readable one came.
LEMMA Reading ==
    ASSUME NEW r \in Replies
    PROVE  A!_get(r).ok <=> Readable(r)
<1> DEFINE body == A!_decompress(r.label, r.layers, r.core)
<1>1. /\ body \in A!Json <=> Packed(r) /\ r.core \in A!Json
      /\ body \in A!Json => body = r.core
  BY ReplyAssumption, Unpacking
<1>2. A!decode_answer(r).ok <=> /\ r.status # "204"
                                /\ body \in A!Json
                                /\ body = "legacy_charset" => r.charset
  <2>1. CASE r.status = "204"
    BY <2>1 DEF A!decode_answer, A!Fails, A!Json, A!Bracketed
  <2>2. CASE r.status # "204" /\ body = "legacy_charset"
    <3>1. CASE r.charset
      BY <2>2, <3>1 DEF A!decode_answer, A!Gives, A!Json, A!Bracketed
    <3>2. CASE ~r.charset
      BY <2>2, <3>2 DEF A!decode_answer, A!Fails, A!Json, A!Bracketed
    <3> QED
      BY <3>1, <3>2
  <2>3. CASE r.status # "204" /\ body # "legacy_charset"
    BY <2>3 DEF A!decode_answer, A!Gives, A!Fails, A!Json, A!Bracketed
  <2> QED
    BY <2>1, <2>2, <2>3
<1> HIDE DEF body
<1>3. CASE r.failed = None /\ r.status \in {"200", "204"} /\ r.size = "fits"
  <2>1. A!_get(r) = A!decode_answer(r)
    BY <1>3 DEF A!_get
  <2> QED
    BY <1>1, <1>2, <1>3, <2>1 DEF Readable, A!Json, A!Bracketed
<1>4. CASE ~(r.failed = None /\ r.status \in {"200", "204"} /\ r.size = "fits")
  <2>1. ~A!_get(r).ok
    BY <1>4, FailuresFail DEF A!_get, A!Fails
  <2> QED
    BY <1>4, <2>1 DEF Readable
<1> QED
  BY <1>3, <1>4

-----------------------------------------------------------------------------
(* What is shown, and what is paid for again.                              *)

\* The clock and a refused form change nothing the caches say.
LEMMA OthersHold ==
    ASSUME TypeOK, CachesOK, AnswersOK, UNCHANGED vars \/ Tick \/ \E t \in Threads : Refuse(t)
    PROVE  CachesOK' /\ AnswersOK'
<1>1. UNCHANGED <<stores, thread, given>> /\ now \in Nat /\ (now' = now \/ now' = now + 1)
  BY LookupAssumption DEF Tick, Refuse, vars, history, TypeOK
<1>2. LookupsOK' /\ HeldOK' /\ SizeOK' /\ AnswersOK'
  BY <1>1 DEF CachesOK, LookupsOK, LookupOf, HeldOK, Held, SizeOK, AnswersOK, AnswerOf,
              thread, KeyOf, Old
<1>3. \A k \in DOMAIN given, s \in Caches : GivenFor(k, s) => GivenFor(k, s)'
  <2> SUFFICES ASSUME NEW k \in DOMAIN given, NEW s \in Caches, GivenFor(k, s)
               PROVE  GivenFor(k, s)'
    OBVIOUS
  <2>1. given[k] \in Nat /\ Ttl(s) \in Nat /\ now \in Nat
    BY <1>1, TtlType DEF CachesOK, GivenOK
  <2>2. Ttl(s)' = Ttl(s)
    BY DEF Ttl
  <2> HIDE DEF Ttl
  <2>3. CASE k \in DOMAIN stores[s] /\ stores[s][k].at = given[k]
    BY <1>1, <2>3 DEF GivenFor
  <2>4. CASE now - given[k] >= Ttl(s)
    BY <1>1, <2>1, <2>2, <2>4 DEF GivenFor
  <2> QED
    BY <2>3, <2>4 DEF GivenFor
<1>4. GivenOK'
  <2>1. \A j : StoreFor(j) \in Caches
    BY DEF StoreFor, Caches
  <2> QED
    BY <1>1, <1>3, <2>1 DEF CachesOK, GivenOK
<1> QED
  BY <1>2, <1>4 DEF CachesOK

\* The caches and the answers are right at every moment.
THEOREM CachesCorrect == Spec => [](CachesOK /\ AnswersOK)
<1>1. Init => CachesOK /\ AnswersOK
  <2> SUFFICES ASSUME Init PROVE CachesOK /\ AnswersOK
    OBVIOUS
  <2>1. LookupsOK /\ AnswersOK
    BY DEF Init, LookupsOK, LookupOf, AnswersOK, AnswerOf, Numbers
  <2>2. /\ \A s \in Caches : DOMAIN stores[s] = {}
        /\ DOMAIN given = {}
    BY DEF Init, Empty, Caches
  <2>3. HeldOK /\ GivenOK
    BY <2>2 DEF HeldOK, GivenOK, Caches
  <2>4. SizeOK
    <3>1. IsFiniteSet({}) /\ Cardinality({}) = 0 /\ 0 <= Size
      BY FS_EmptySet, LookupAssumption
    <3> QED
      BY <2>2, <3>1 DEF SizeOK, Caches
  <2> QED
    BY <2>1, <2>3, <2>4 DEF CachesOK
<1>2. IInv /\ CachesOK /\ AnswersOK /\ [Next]_vars => CachesOK' /\ AnswersOK'
  <2> SUFFICES ASSUME IInv, CachesOK, AnswersOK, [Next]_vars PROVE CachesOK' /\ AnswersOK'
    OBVIOUS
  <2>1. TypeOK /\ SpentOK
    BY DEF IInv
  <2>2. CASE UNCHANGED vars \/ Tick \/ \E t \in Threads : Refuse(t)
    BY <2>1, <2>2, OthersHold
  <2>3. ASSUME NEW t \in Threads, Ask(t) \/ Step(t) PROVE CachesOK' /\ AnswersOK'
    BY <2>1, <2>3, StepLookup, StepCaches, StepAnswer DEF CachesOK
  <2> QED
    BY <2>2, <2>3 DEF Next
<1> QED
  BY <1>1, <1>2, Invariant, PTL DEF Spec

\* A page is shown what Wathq answered to its own question, and an answer is a
\* failure where the decoder cannot read it and nowhere else.
THEOREM ShownIsAsked == Spec => []ShowsItsAnswer
<1>1. TypeOK /\ AnswersOK => ShowsItsAnswer
  <2> SUFFICES ASSUME TypeOK, AnswersOK PROVE ShowsItsAnswer
    OBVIOUS
  <2>1. AnswersItsQuestion
    BY DEF AnswersOK, AnswerOf, AnswersItsQuestion
  <2>2. GoodAnswersAreRead
    BY Reading DEF GoodAnswersAreRead, Outcome, TypeOK
  <2> QED
    BY <2>1, <2>2 DEF ShowsItsAnswer
<1>2. IInv => TypeOK
  BY DEF IInv
<1> QED
  BY <1>1, <1>2, Invariant, CachesCorrect, PTL

\* A lookup leaves "look" by its own step: to be refused for want of the key, to
\* be answered from the cache, or to ask because the cache has it no longer.
LEMMA LeavesLook ==
    ASSUME TypeOK, NEW t \in Threads, pc[t] = "look", pc'[t] # "look", [Next]_vars
    PROVE  \/ pc'[t] = "answered" /\ ~answer'[t].ok
           \/ /\ pc'[t] = "answered" /\ Fresh(StoreOf(t), KeyOf(t))
              /\ answer'[t].payload = stores[StoreOf(t)][KeyOf(t)].value
           \/ pc'[t] = "asking" /\ ~Fresh(StoreOf(t), KeyOf(t))
<1>1. ASSUME NEW i \in Threads, Ask(i) \/ Step(i), i # t PROVE FALSE
  <2> USE DEF TypeOK, Go
  <2>1. CASE Ask(i)
    BY <1>1, <2>1 DEF Ask
  <2>2. CASE NoKey(i)
    BY <1>1, <2>2 DEF NoKey, Errs, Respond
  <2>3. CASE Convert(i)
    BY <1>1, <2>3 DEF Convert, Errs, Respond, Send
  <2>4. CASE \E r \in Replies : Receive(i, r)
    BY <1>1, <2>4 DEF Receive
  <2>5. CASE Converted(i)
    BY <1>1, <2>5 DEF Converted, Errs, Respond
  <2>6. CASE Look(i)
    BY <1>1, <2>6 DEF Look, Respond, Send
  <2>7. CASE AskAgain(i)
    BY <1>1, <2>7 DEF AskAgain, Errs, Respond, Send
  <2>8. CASE Answered(i)
    BY <1>1, <2>8 DEF Answered, Respond
  <2>9. CASE Unanswered(i)
    BY <1>1, <2>9 DEF Unanswered, Errs, Respond
  <2>10. CASE Leave(i)
    BY <1>1, <2>10 DEF Leave
  <2> QED
    BY <1>1, <2>1, <2>2, <2>3, <2>4, <2>5, <2>6, <2>7, <2>8, <2>9, <2>10 DEF Step
<1>2. Ask(t) \/ Step(t)
  <2>1. CASE UNCHANGED vars \/ Tick \/ \E i \in Threads : Refuse(i)
    BY <2>1 DEF vars, thread, Tick, Refuse
  <2> QED
    BY <1>1, <2>1 DEF Next
<1>3. NoKey(t) \/ Look(t)
  BY <1>2 DEF Ask, Step, Convert, Receive, Converted, AskAgain, Answered, Unanswered, Leave
<1>4. CASE NoKey(t)
  BY <1>4 DEF NoKey, Errs, Respond, Go, TypeOK
<1>5. CASE Look(t)
  <2>1. CASE Fresh(StoreOf(t), KeyOf(t))
    BY <1>5, <2>1 DEF Look, Respond, Body, Go, TypeOK
  <2>2. CASE ~Fresh(StoreOf(t), KeyOf(t))
    BY <1>5, <2>2 DEF Look, Send, Go, TypeOK
  <2> QED
    BY <2>1, <2>2
<1> QED
  BY <1>3, <1>4, <1>5

\* What is still within its time is not paid for again, what is past it is not
\* shown as cached, and no cache outgrows its size.
THEOREM NothingPaidTwice == Spec => CachesHold
<1>1. IInv /\ CachesOK /\ CachesOK' /\ [Next]_vars
        => [/\ \A t \in Threads : PaidOnce(t) /\ NeverStale(t)
            /\ \A s \in DOMAIN stores : Cardinality(DOMAIN stores'[s]) <= Size]_vars
  <2> SUFFICES ASSUME IInv, CachesOK, CachesOK', [Next]_vars
               PROVE  /\ \A t \in Threads : PaidOnce(t) /\ NeverStale(t)
                      /\ \A s \in DOMAIN stores : Cardinality(DOMAIN stores'[s]) <= Size
    OBVIOUS
  <2>1. TypeOK /\ DOMAIN stores = Caches
    BY DEF IInv, TypeOK, Caches
  <2>2. ASSUME NEW t \in Threads, pc[t] = "look"
        PROVE  /\ job[t] \in Jobs /\ unified[t] \in Numbers
               /\ StoreOf(t) = StoreFor(job[t]) /\ KeyOf(t) = KeyFor(job[t], unified[t])
               /\ StoreOf(t) \in Caches
    BY <2>2 DEF CachesOK, LookupsOK, LookupOf, StoreOf, StoreFor, KeyOf, Caches
  <2>3. ASSUME NEW t \in Threads PROVE PaidOnce(t)
    <3> SUFFICES ASSUME pc[t] = "look", pc'[t] = "asking", KeyOf(t) \in DOMAIN given
                 PROVE  now - given[KeyOf(t)] >= Ttl(StoreOf(t))
      BY DEF PaidOnce
    <3>1. ~Fresh(StoreOf(t), KeyOf(t))
      BY <2>1, LeavesLook
    <3>2. GivenFor(KeyOf(t), StoreOf(t))
      BY <2>2 DEF CachesOK, GivenOK
    <3>3. now \in Nat /\ given[KeyOf(t)] \in Nat /\ Ttl(StoreOf(t)) \in Nat
      BY <2>1, TtlType, LookupAssumption DEF CachesOK, GivenOK, TypeOK
    <3> QED
      BY <3>1, <3>2, <3>3 DEF GivenFor, Fresh
  <2>4. ASSUME NEW t \in Threads PROVE NeverStale(t)
    <3> SUFFICES ASSUME pc[t] = "look", pc'[t] = "answered", answer'[t].ok
                 PROVE  now - answer'[t].payload.fetchedAt < Ttl(StoreOf(t))
      BY DEF NeverStale
    <3>1. /\ Fresh(StoreOf(t), KeyOf(t))
          /\ answer'[t].payload = stores[StoreOf(t)][KeyOf(t)].value
      BY <2>1, LeavesLook
    <3>2. stores[StoreOf(t)][KeyOf(t)].value.fetchedAt = stores[StoreOf(t)][KeyOf(t)].at
      BY <2>2, <3>1 DEF CachesOK, HeldOK, Held, Fresh, Caches
    <3> QED
      BY <3>1, <3>2 DEF Fresh
  <2>5. \A s \in DOMAIN stores : Cardinality(DOMAIN stores'[s]) <= Size
    BY <2>1 DEF CachesOK, SizeOK, Caches
  <2> QED
    BY <2>3, <2>4, <2>5
<1> QED
  BY <1>1, Invariant, CachesCorrect, PTL DEF Spec, CachesHold
=============================================================================
