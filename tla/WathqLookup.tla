----------------------------- MODULE WathqLookup -----------------------------
(***************************************************************************)
(* wathq_api.py: paid lookups behind one slot and two caches that expire.  *)
(*                                                                         *)
(* A lookup is asked for (Ask), turns an old company number into a unified *)
(* one if it has to (Convert), looks into the cache (Look), asks Wathq,    *)
(* perhaps once more by the old number, and answers.  Each request on the  *)
(* wire is three steps, since it is counted before it is sent, perhaps     *)
(* taken off the count when it fails, and only then made use of.           *)
(***************************************************************************)
EXTENDS WathqCatalog, Integers, Sequences

CONSTANTS
    Threads,      \* request threads
    Env,          \* WATHQ_ENV
    Forms,        \* what pages may send to /query and /company-contract
    Replies,      \* what may happen to a request on the wire
    TTL, ListTTL, \* seconds an answer and a reference list are kept, 0 for never
    Size,         \* entries a cache holds
    UnifiedOf,    \* the unified number Wathq knows an old one by
    MaxNow, MaxAsks  \* bounds: the clock, lookups asked for

A == INSTANCE WathqAnswer

ASSUME LookupAssumption ==
    /\ Env \in Envs
    /\ {TTL, ListTTL, MaxNow, MaxAsks} \subseteq Nat /\ Size \in Nat \ {0}
    /\ UnifiedOf \in [Legacy -> Unified]
    /\ None \notin Threads
    /\ \A f \in Forms : f.route \in {"query", "contract"}

\* A request that failed before it was sent reached nobody.
ASSUME ReplyAssumption ==
    /\ None \notin Replies
    /\ \A r \in Replies : /\ r.layers \in Seq(A!Packings) /\ r.core \in A!Cores
                          /\ r.charset \in BOOLEAN
                          /\ r.label \in {"none", "gzip", "deflate", "unsupported"}
                          /\ r.reached => r.failed = None \/ ~A!before_send(r.failed)

VARIABLES
    now,        \* the clock
    stores,     \* cache and lookup_cache: key to [at, value]
    sent,       \* WathqClient._sent
    slot,       \* the thread that holds the one slot, or None
    pc, job,    \* where each thread is, and the request it makes
    unified,    \* _run_query's unified
    key,        \* the key computed before the answer was looked for
    before,     \* sent_before
    reply,      \* what came of the thread's request, until it is used
    answer,     \* the JSON body the page gets
    own,        \* history: requests this lookup sent and left on the count
    reached,    \* history: requests that reached Wathq
    given,      \* history: when an answer was last fetched for a key, until a put evicts
    asks        \* bound

thread  == <<pc, job, unified, key, before, reply, answer, own>>
history == <<reached, given>>
vars    == <<now, stores, sent, slot, thread, history, asks>>

Active == {"convert", "converting", "look", "asking", "again"}
Empty  == [k \in {} |-> None]

Init ==
    /\ now = 0 /\ sent = 0 /\ reached = 0 /\ asks = 0 /\ given = Empty
    /\ stores = [s \in {"cache", "lists"} |-> Empty]
    /\ slot = None
    /\ pc = [t \in Threads |-> "idle"]
    /\ job = [t \in Threads |-> None]
    /\ unified = [t \in Threads |-> None]
    /\ key = [t \in Threads |-> None]
    /\ before = [t \in Threads |-> 0]
    /\ reply = [t \in Threads |-> None]
    /\ answer = [t \in Threads |-> None]
    /\ own = [t \in Threads |-> 0]

-----------------------------------------------------------------------------
(* _Cache.                                                                 *)

Ttl(s)        == IF s = "lists" THEN (IF TTL = 0 THEN 0 ELSE ListTTL) ELSE TTL
Fresh(s, k)   == k \in DOMAIN stores[s] /\ now - stores[s][k].at < Ttl(s)
Without(f, k) == [j \in DOMAIN f \ {k} |-> f[j]]
With(f, k, v) == [j \in DOMAIN f \cup {k} |-> IF j = k THEN [at |-> now, value |-> v] ELSE f[j]]

\* get: a stale entry is dropped when it is met.
get(s, k) ==
    IF Fresh(s, k) THEN stores ELSE [stores EXCEPT ![s] = Without(stores[s], k)]

Oldest(f) == {k \in DOMAIN f : \A j \in DOMAIN f : f[k].at <= f[j].at}

\* put: a full cache lets go of an oldest entry first.
put(s, k, v) ==
    IF Ttl(s) = 0 THEN {stores}
    ELSE IF Cardinality(DOMAIN stores[s]) >= Size
    THEN {[stores EXCEPT ![s] = With(Without(@, o), k, v)] : o \in Oldest(stores[s])}
    ELSE {[stores EXCEPT ![s] = With(@, k, v)]}

\* History: what a put has just evicted is no longer given from that cache.
Kept(s) == [k \in DOMAIN given \ (DOMAIN stores[s] \ DOMAIN stores'[s]) |-> given[k]]

-----------------------------------------------------------------------------
(* A request for a lookup.                                                 *)

\* The endpoint the older /company-contract route stands for.
ContractEndpoint ==
    [id |-> "contract", path |-> {"number"}, language |-> TRUE, lookup |-> FALSE,
     inSandbox |-> TRUE, sandboxBase |-> TRUE, oneOf |-> {}, fixed |-> {}, view |-> "contract",
     inSpec |-> TRUE, declared |-> {<<"number", "path">>, <<"language", "query">>},
     inputs |-> {[name |-> "number", location |-> "path", kind |-> "company_number",
                  required |-> TRUE, personal |-> FALSE, legacyOk |-> FALSE, choices |-> {},
                  sandboxChoices |-> {}, requiredIf |-> {}, pattern |-> {}, patternBy |-> {}]}]

EndpointOf(f) == IF f.route = "contract" THEN ContractEndpoint ELSE f.endpoint

\* guard: this machine, this app's own page, and its header.
guard(f) == f.from = "own_page"

\* What is refused before the slot is tried for.
Valid(f) ==
    /\ guard(f)
    /\ f.route = "query" => load_catalog(Endpoints) /\ f.endpoint \in Endpoints
    /\ Acceptable(EndpointOf(f), f.inputs, f.language, Env)
    /\ available(EndpointOf(f), Env)

JobOf(f) ==
    [route |-> f.route, language |-> f.language,
     request |-> Request(EndpointOf(f), f.inputs, f.language, Env)]

\* Bug: two lookups at a time.
SlotFree_always(t) == TRUE

SlotFree(t) == slot = None

Refuse(t) ==
    /\ pc[t] = "idle" /\ asks < MaxAsks
    /\ \E f \in Forms : ~Valid(f) \/ ~SlotFree(t)
    /\ asks' = asks + 1
    /\ UNCHANGED <<now, stores, sent, slot, thread, history>>

Ask(t) ==
    /\ pc[t] = "idle" /\ asks < MaxAsks /\ SlotFree(t)
    /\ \E f \in Forms : Valid(f) /\ job' = [job EXCEPT ![t] = JobOf(f)]
    /\ slot' = t
    /\ pc' = [pc EXCEPT ![t] = "convert"]
    /\ before' = [before EXCEPT ![t] = sent]
    /\ own' = [own EXCEPT ![t] = 0]
    /\ asks' = asks + 1
    /\ UNCHANGED <<now, stores, sent, unified, key, reply, answer, history>>

Go(t, label)  == pc' = [pc EXCEPT ![t] = label]
StoreFor(j)   == IF j.request.endpoint.lookup THEN "lists" ELSE "cache"
StoreOf(t)    == StoreFor(job[t])
Old(t)        == conversion_value(job[t].request)
ConvertKey(t) == <<Env, "convert", Old(t)>>

\* The two routes name the same answer differently.
KeyFor(j, number) ==
    IF j.route = "contract"
    THEN <<Env, "contract", IF number # None THEN number ELSE j.request.values["number"],
           j.request.language>>
    ELSE <<cache_key(Env, j.request), number>>
KeyOf(t) == KeyFor(job[t], unified[t])

\* The page's answer; the slot is given back with it.
Respond(t, body) ==
    /\ answer' = [answer EXCEPT ![t] = body]
    /\ slot' = None
    /\ Go(t, "answered")

\* Bug: a failed lookup keeps the slot.
Errs_keeps(t, status) ==
    /\ answer' = [answer EXCEPT ![t] = [ok |-> FALSE, status |-> status, used |-> 0]]
    /\ Go(t, "answered") /\ UNCHANGED slot

Errs(t, status) == Respond(t, [ok |-> FALSE, status |-> status, used |-> sent - before[t]])

\* _fetch: the key is read before anything is counted.
Send(t, label) ==
    /\ sent' = sent + 1
    /\ own' = [own EXCEPT ![t] = @ + 1]
    /\ Go(t, label)

\* The key file may have gone or been spoilt since the last lookup.
NoKey(t) ==
    /\ \/ /\ pc[t] = "convert" /\ Env = "production"
          /\ Old(t) # None /\ ~Fresh("cache", ConvertKey(t))
          /\ stores' = get("cache", ConvertKey(t))
       \/ /\ pc[t] = "look" /\ ~Fresh(StoreOf(t), KeyOf(t))
          /\ stores' = get(StoreOf(t), KeyOf(t))
    /\ Errs(t, 503)
    /\ UNCHANGED <<now, sent, job, unified, key, before, reply, own, history, asks>>

\* The conversion: from the cache, not to be had in the sandbox, or asked for.
Convert(t) ==
    /\ pc[t] = "convert"
    /\ stores' = IF Old(t) = None THEN stores ELSE get("cache", ConvertKey(t))
    /\ IF Old(t) = None \/ Fresh("cache", ConvertKey(t))
       THEN /\ unified' = [unified EXCEPT ![t] =
                 IF Old(t) = None THEN None ELSE stores["cache"][ConvertKey(t)].value.number]
            /\ Go(t, "look") /\ UNCHANGED <<sent, own, slot, answer>>
       ELSE IF Env = "sandbox"
       THEN Errs(t, 400) /\ UNCHANGED <<sent, own, unified>>
       ELSE Send(t, "converting") /\ UNCHANGED <<unified, slot, answer>>
    /\ UNCHANGED <<now, job, key, before, reply, history, asks>>

\* What became of the request: its failure may take it off the count again.
Receive(t, r) ==
    /\ pc[t] \in {"converting", "asking", "again"} /\ reply[t] = None
    /\ reply' = [reply EXCEPT ![t] = r]
    /\ IF r.failed # None /\ A!before_send(r.failed)
       THEN sent' = sent - 1 /\ own' = [own EXCEPT ![t] = @ - 1]
       ELSE UNCHANGED <<sent, own>>
    /\ reached' = IF r.reached THEN reached + 1 ELSE reached
    /\ UNCHANGED <<now, stores, slot, pc, job, unified, key, before, answer, given, asks>>

Outcome(t)   == A!_get(reply[t])
Used(t)      == reply' = [reply EXCEPT ![t] = None]
NotFound(t)  == ~Outcome(t).ok /\ Outcome(t).status = 404

\* What Wathq's conversion gives for an old number.
national_number(old) == UnifiedOf[old]

\* The conversion's answer.  A struck-off record has no unified number; for
\* the registration product Wathq finds it by the old one.
Converted(t) ==
    /\ pc[t] = "converting" /\ reply[t] # None
    /\ Used(t)
    /\ IF Outcome(t).ok /\ Outcome(t).core = "object"
       THEN /\ unified' = [unified EXCEPT ![t] = national_number(Old(t))]
            /\ stores' \in put("cache", ConvertKey(t), [number |-> national_number(Old(t))])
            /\ given' = Kept("cache")
            /\ Go(t, "look") /\ UNCHANGED <<slot, answer>>
       ELSE /\ IF NotFound(t) /\ legacy_ok(job[t].request)
               THEN Go(t, "look") /\ UNCHANGED <<slot, answer>>
               ELSE Errs(t, IF Outcome(t).ok THEN 502 ELSE Outcome(t).status)
            /\ UNCHANGED <<unified, stores, given>>
    /\ UNCHANGED <<now, sent, job, key, before, own, reached, asks>>

Body(t, payload, cached, number) ==
    [ok |-> TRUE, cached |-> cached, used |-> sent - before[t], payload |-> payload,
     number |-> number]

\* The answer is looked for under the unified number; if it is not there
\* Wathq is asked.
Look(t) ==
    /\ pc[t] = "look"
    /\ key' = [key EXCEPT ![t] = KeyOf(t)]
    /\ stores' = get(StoreOf(t), KeyOf(t))
    /\ IF Fresh(StoreOf(t), KeyOf(t))
       THEN /\ Respond(t, Body(t, stores[StoreOf(t)][KeyOf(t)].value, TRUE, unified[t]))
            /\ UNCHANGED <<sent, own>>
       ELSE Send(t, "asking") /\ UNCHANGED <<slot, answer>>
    /\ UNCHANGED <<now, job, unified, before, reply, history, asks>>

\* Wathq does not know the unified number: the old one, once.
AskAgain(t) ==
    /\ pc[t] = "asking" /\ reply[t] # None
    /\ NotFound(t) /\ unified[t] # None /\ legacy_ok(job[t].request)
    /\ Used(t)
    /\ \/ /\ unified' = [unified EXCEPT ![t] = None]
          /\ Send(t, "again") /\ UNCHANGED <<slot, answer>>
       \/ Errs(t, 503) /\ UNCHANGED <<unified, sent, own>>    \* the key again
    /\ UNCHANGED <<now, stores, job, key, before, history, asks>>

\* Bug: the key of the answer is computed when it is put away.
PutKey_late(t) == KeyOf(t)

PutKey(t) == key[t]

Showable(t) == Outcome(t).core = "object"

Payload(t) ==
    [wire |-> wire(job[t].request, unified[t]), shown |-> Outcome(t).core, fetchedAt |-> now,
     legacyUsed |-> Old(t) # None /\ unified[t] = None]

\* The answer is shaped, shown to survive as JSON, put away and given.
Answered(t) ==
    /\ pc[t] \in {"asking", "again"} /\ reply[t] # None
    /\ Outcome(t).ok /\ Showable(t)
    /\ Used(t)
    /\ stores' \in put(StoreOf(t), PutKey(t), Payload(t))
    /\ given' = [k \in DOMAIN Kept(StoreOf(t)) \cup {key[t]} |->
                   IF k = key[t] THEN now ELSE given[k]]
    /\ Respond(t, Body(t, Payload(t), FALSE, unified[t]))
    /\ UNCHANGED <<now, sent, job, unified, key, before, own, reached, asks>>

\* Wathq's own error in a 2xx, an answer that cannot be shown, a failure.
Unanswered(t) ==
    /\ pc[t] \in {"asking", "again"} /\ reply[t] # None
    /\ ~(Outcome(t).ok /\ Showable(t))
    /\ ~(/\ pc[t] = "asking" /\ NotFound(t)
         /\ unified[t] # None /\ legacy_ok(job[t].request))
    /\ Used(t)
    /\ Errs(t, IF A!code_in(Outcome(t)) THEN A!error_for(None, reply[t].code).status
               ELSE IF Outcome(t).ok THEN 502 ELSE Outcome(t).status)
    /\ UNCHANGED <<now, stores, sent, job, unified, key, before, own, history, asks>>

\* The page has its answer.
Leave(t) ==
    /\ pc[t] = "answered"
    /\ Go(t, "idle")
    /\ job' = [job EXCEPT ![t] = None]
    /\ unified' = [unified EXCEPT ![t] = None]
    /\ key' = [key EXCEPT ![t] = None]
    /\ answer' = [answer EXCEPT ![t] = None]
    /\ before' = [before EXCEPT ![t] = 0]
    /\ own' = [own EXCEPT ![t] = 0]
    /\ UNCHANGED <<now, stores, sent, slot, reply, history, asks>>

Tick == now < MaxNow /\ now' = now + 1
        /\ UNCHANGED <<stores, sent, slot, thread, history, asks>>

Step(t) ==
    \/ NoKey(t) \/ Convert(t) \/ Converted(t) \/ Look(t)
    \/ AskAgain(t) \/ Answered(t) \/ Unanswered(t) \/ Leave(t)
    \/ \E r \in Replies : Receive(t, r)

-----------------------------------------------------------------------------
Next == Tick \/ \E t \in Threads : Refuse(t) \/ Ask(t) \/ Step(t)

Spec     == Init /\ [][Next]_vars
FairSpec == Spec /\ \A t \in Threads : WF_vars(Step(t))

-----------------------------------------------------------------------------
(* Properties.                                                             *)

TypeOK ==
    /\ now \in 0..MaxNow /\ asks \in 0..MaxAsks
    /\ sent \in Int /\ reached \in Nat
    /\ slot \in Threads \cup {None}
    /\ pc \in [Threads -> Active \cup {"idle", "answered"}]
    /\ before \in [Threads -> Int] /\ own \in [Threads -> Int]
    /\ reply \in [Threads -> Replies \cup {None}]
    /\ DOMAIN job = Threads /\ DOMAIN unified = Threads
    /\ DOMAIN key = Threads /\ DOMAIN answer = Threads
    /\ DOMAIN stores = {"cache", "lists"}

\* What is shown as sent is never less than what Wathq received and may bill.
SentCoversBilled == reached <= sent

\* calls_used counts this lookup's own requests, never a neighbour's: one, or
\* three where an old number is converted, not found and asked for itself.
CallsUsedIsOwn ==
    \A t \in Threads : pc[t] = "answered" =>
        /\ answer[t].used = own[t]
        /\ own[t] <= IF Old(t) = None THEN 1 ELSE 3

\* The money is told right: the count covers all that may be billed, though
\* every request shares it, and what a page is told it spent is what it spent
\* (before_send, calls_used and the slot).
CountIsRight == SentCoversBilled /\ CallsUsedIsOwn

\* An answer, cached or not, is the one Wathq gave to this very question: the
\* same path, query, headers and language, by the number it says it used.
AnswersItsQuestion ==
    \A t \in Threads : pc[t] = "answered" /\ answer[t].ok =>
        LET a == answer[t]
        IN  /\ a.payload.shown = "object"
            /\ a.payload.wire =
                 wire(job[t].request, IF a.payload.legacyUsed THEN None ELSE a.number)

\* However Wathq's gateway packs a good answer, up to twice, it is read, and so
\* is one it packs without saying so; nothing else is.  One it calls packed and
\* sends as it is is read where it starts as an object or a list does: there a
\* JSON string, a number or a marked object is refused (_decompress).
Packed(r) ==
    IF r.layers = <<>> THEN r.label = "none" \/ r.core \in A!Bracketed
    ELSE /\ r.label # "unsupported" /\ Len(r.layers) <= 2
         /\ \/ r.layers[1] = "gzip" /\ r.label # "deflate"
            \/ r.layers[1] \in {"deflate", "raw_deflate"} /\ r.label = "deflate"
         /\ \A d \in 2..Len(r.layers) : r.layers[d] = "gzip"
Readable(r) ==
    /\ r.failed = None /\ r.status = "200" /\ r.size = "fits" /\ Packed(r)
    /\ r.core \in A!Json
    /\ r.core = "legacy_charset" => r.charset
GoodAnswersAreRead ==
    \A t \in Threads : reply[t] # None => (Outcome(t).ok <=> Readable(reply[t]))

\* A page is shown what Wathq answered to its question, from the wire or from
\* a cache, and an answer is a failure where the decoder cannot read it and
\* nowhere else.
ShowsItsAnswer == AnswersItsQuestion /\ GoodAnswersAreRead

PaidOnce(t) ==
    pc[t] = "look" /\ pc'[t] = "asking" /\ KeyOf(t) \in DOMAIN given
        => now - given[KeyOf(t)] >= Ttl(StoreOf(t))
NeverStale(t) ==
    pc[t] = "look" /\ pc'[t] = "answered" /\ answer'[t].ok
        => now - answer'[t].payload.fetchedAt < Ttl(StoreOf(t))

\* An answer still within its time is never paid for again, one past it is
\* never shown as cached, and a cache never grows past its size (_Cache): the
\* answer is put away under the key it was looked for, not the one it has by then.
CachesHold ==
    [][/\ \A t \in Threads : PaidOnce(t) /\ NeverStale(t)
       /\ \A s \in DOMAIN stores : Cardinality(DOMAIN stores'[s]) <= Size]_vars

\* Every lookup ends and gives the slot back, whatever Wathq does.
SlotComesBack == slot # None ~> slot = None
=============================================================================
