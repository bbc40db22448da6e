----------------------------- MODULE Comparison -----------------------------
(* Comparing two documents: compare() of comparison.py and the endpoint of    *)
(* comparison_api.py.  One slot for the whole server; a worker thread that    *)
(* pairs passages and asks the model about each pair, and a stream that hands *)
(* its events to a browser that may leave at any moment.                      *)
(*                                                                            *)
(* A text is a sequence of lines [page, words]; page # 0 is a printed page    *)
(* marker, a word is [w, num], num for a run of digits.                       *)
EXTENDS Integers, Sequences, FiniteSets, Functions, FiniteSetsExt

CONSTANTS
    CLIENTS,
    DOCS,           \* the documents, by name
    REQUESTS,       \* the pairs of names each browser may send
    ROWS,           \* the rows the model may write
    MAX_LINES,      \* MAX_CHARS, in lines
    CHUNK_LINES,    \* CHUNK_CHARS, in lines
    ALL_PAIRS,      \* up to so many pairs, every passage meets every passage
    FREE_PAIRS,     \* bound: the pairs the model may answer with rows
    None

ASSUME ComparisonAssumption ==
    /\ CHUNK_LINES \in Nat \ {0} /\ ALL_PAIRS \in Nat \ {0} /\ MAX_LINES \in Nat
    /\ None \notin {"progress", "result", "error", "broken"} /\ None \notin BOOLEAN

ASPECTS == {"purpose", "entities", "values", "requirements", "process", "claims", "language",
            "structure", "other"}
STATUSES == {"same", "different", "potential_conflict", "only_a", "only_b", "not_comparable"}
Words == Seq([w : STRING, num : BOOLEAN])
Documents == [text : Seq([page : Nat, words : Words]), page_count : Nat,
              empty_pages : SUBSET Nat]
Names == DOMAIN DOCS

(* What Document.parse and the schema of an answer let through.               *)
ASSUME DocumentAssumption ==
    /\ \A n \in Names : DOCS[n] \in Documents
    /\ REQUESTS \in [CLIENTS -> SUBSET (Names \X Names)]
    /\ ROWS \subseteq [aspect : ASPECTS, status : STATUSES, quote_a : Words, quote_b : Words]

VARIABLES
    slot,           \* the free places of the semaphore
    stream,         \* "none", "ready", "open", "ended": the response of a client
    here,           \* the client is still connected
    cancelled,      \* the event between the stream and its worker
    messages,       \* the queue between the worker and its stream
    shown,          \* the last event the client was sent
    pc,             \* where the worker of a client is
    job,            \* its documents and what it has found
    late            \* history: the calls begun after the client was given up

control == <<slot, stream, here, cancelled, shown>>
vars == <<slot, stream, here, cancelled, messages, shown, pc, job, late>>

-----------------------------------------------------------------------------
(* Documents and their passages.                                              *)
(* The words of these lines, from a line of the document on.                  *)
Onward(text, rows) ==
    LET from[r \in 1..(Len(text) + 1)] ==
            IF r > Len(text) THEN <<>>
            ELSE (IF r \in rows THEN text[r].words ELSE <<>>) \o from[r + 1]
    IN from
Flat(text, rows) == Onward(text, rows)[1]
Parses(d) ==
    /\ Len(d.text) <= MAX_LINES
    /\ \E r \in DOMAIN d.text : d.text[r].words # <<>>
    /\ d.empty_pages \subseteq 1..d.page_count

(* A printed marker is one only in a document that has pages.                 *)
IsMarker(d, r) == d.page_count > 0 /\ d.text[r].page # 0
Marker(d, r) == Max({0} \cup {m \in 1..r : IsMarker(d, m)})
PageAt(d, r) == IF Marker(d, r) = 0 THEN None ELSE d.text[Marker(d, r)].page
Readable(d) == {r \in DOMAIN d.text : ~IsMarker(d, r) /\ d.text[r].words # <<>>}

PassageFrom(d, r) ==
    {k \in r..(r + CHUNK_LINES - 1) : k <= Len(d.text) /\ Marker(d, k) = Marker(d, r)}

CutAt(d, r) ==
    ~IsMarker(d, r) /\ \E n \in 0..r : r = Marker(d, r) + 1 + n * CHUNK_LINES
Starts(d) == {r \in DOMAIN d.text : CutAt(d, r) /\ PassageFrom(d, r) \cap Readable(d) # {}}

(* A set as a sequence, each member at its rank.                              *)
Ordered(rank) ==
    [i \in 1..Cardinality(DOMAIN rank) |-> CHOOSE x \in DOMAIN rank : rank[x] = i]
Ascending(S) == Ordered([r \in S |-> Cardinality({s \in S : s <= r})])

chunks(d) ==
    LET order == Ascending(Starts(d))
    IN [i \in 1..Cardinality(Starts(d)) |->
          [rows |-> PassageFrom(d, order[i]), page |-> PageAt(d, order[i]),
           words |-> Flat(d.text, PassageFrom(d, order[i]))]]
Passages == [n \in DOMAIN DOCS |-> chunks(DOCS[n])]

-----------------------------------------------------------------------------
(* Which passage meets which.  max() keeps the first of equals.               *)
FirstBest(score) ==
    Min({j \in DOMAIN score : \A k \in DOMAIN score : score[k] <= score[j]})

NearestPairs(n, m, scores) ==
    {<<i, FirstBest([j \in 1..m |-> scores[<<i, j>>]])>> : i \in 1..n}
        \cup {<<FirstBest([i \in 1..n |-> scores[<<i, j>>]]), j>> : j \in 1..m}

Upto(p, q) == q[1] < p[1] \/ (q[1] = p[1] /\ q[2] <= p[2])
InOrder(pairs) == Ordered([p \in pairs |-> Cardinality({q \in pairs : Upto(p, q)})])

(* A bag of words: each with its first, second, ... occurrence.               *)
_words(passage) ==
    {<<passage.words[i].w,
       Cardinality({k \in 1..i : passage.words[k].w = passage.words[i].w})>> :
        i \in DOMAIN passage.words}

(* The fallback: words in common over words in all, in millionths.            *)
LexicalScores(a, b) ==
    [p \in (DOMAIN a) \X (DOMAIN b) |->
        LET x == _words(a[p[1]])
            y == _words(b[p[2]])
        IN (1000000 * Cardinality(x \cap y)) \div Max({1, Cardinality(x \cup y)})]

-----------------------------------------------------------------------------
(* Quotes and what the report may say of them.                                *)
Prints(T, quote, i) ==
    i + Len(quote) - 1 <= Len(T) /\ \A k \in DOMAIN quote : T[i + k - 1] = quote[k]

Nowhere == [quote |-> <<>>, page |-> None, line |-> 0]
Cited(c) == c.quote # <<>>

PrintedAt(d, rows, quote) ==
    {r \in rows : \E i \in DOMAIN d.text[r].words :
                     Prints(Onward(d.text, rows)[r], quote, i)}
citation(d, passage, quote) ==
    LET at == PrintedAt(d, passage.rows, quote)
    IN IF quote = <<>> \/ at = {} THEN Nowhere
       ELSE [quote |-> quote, page |-> passage.page, line |-> Min(at)]

NUMBERS(words) == SelectSeq(words, LAMBDA t : t.num)
Skeleton(words) == [i \in DOMAIN words |-> IF words[i].num THEN "#" ELSE words[i].w]
Edited(x, y) == Skeleton(x) = Skeleton(y) /\ NUMBERS(x) # NUMBERS(y)

_validated(d, x, e, y, row) ==
    LET ca == citation(d, x, row.quote_a)
        cb == citation(e, y, row.quote_b)
    IN IF \/ row.status # "only_b" /\ ~Cited(ca)
          \/ row.status # "only_a" /\ ~Cited(cb)
          \/ row.quote_a # <<>> /\ ~Cited(ca)
          \/ row.quote_b # <<>> /\ ~Cited(cb)
          \/ row.status = "same" /\ Edited(row.quote_a, row.quote_b)
       THEN None
       ELSE [aspect |-> row.aspect, status |-> row.status, a |-> ca, b |-> cb]

(* One line on each side, worded alike, with other numbers; a word stands for *)
(* four letters or more.                                                      *)
NumbersChanged(la, lb) ==
    /\ NUMBERS(la) # <<>> /\ NUMBERS(lb) # <<>>
    /\ \E t \in Range(la) : ~t.num
    /\ Edited(la, lb)
exact_value_findings(d, x, e, y) ==
    {[aspect |-> "values", status |-> "different",
      a |-> citation(d, x, d.text[p[1]].words), b |-> citation(e, y, e.text[p[2]].words)] :
        p \in {q \in x.rows \X y.rows :
                 NumbersChanged(d.text[q[1]].words, e.text[q[2]].words)}}

Key(f) == <<f.aspect, f.status, f.a.quote, f.b.quote>>
add(findings, items) ==
    findings \cup {f \in items : \A g \in findings : Key(g) # Key(f)}

-----------------------------------------------------------------------------
(* The worker.  job.lost is history: a row of the model is not in the report. *)
NoJob ==
    [a |-> None, b |-> None, pairs |-> <<>>, at |-> 1, findings |-> {}, seen_a |-> {},
     seen_b |-> {}, failures |-> {}, rejected |-> 0, invalid |-> 0, lost |-> FALSE,
     complete |-> None]

Identical(j) == DOCS[j.a].text = DOCS[j.b].text
Left(j) == Passages[j.a][j.pairs[j.at][1]]
Right(j) == Passages[j.b][j.pairs[j.at][2]]
Valid(j, row) == _validated(DOCS[j.a], Left(j), DOCS[j.b], Right(j), row)
Differences(j) == exact_value_findings(DOCS[j.a], Left(j), DOCS[j.b], Right(j))

Reviewed(j) ==
    [j EXCEPT !.seen_a = @ \cup {j.pairs[j.at][1]}, !.seen_b = @ \cup {j.pairs[j.at][2]},
              !.at = @ + 1]
Failed(j) == [j EXCEPT !.failures = @ \cup {j.at}, !.at = @ + 1]

(* Identical texts are told to agree, passage by passage.                     *)
Agreed(j) ==
    LET whole(n, x) == citation(DOCS[n], x, x.words)
    IN Reviewed([j EXCEPT !.findings = add(@,
            {[aspect |-> "language", status |-> "same",
              a |-> whole(j.a, Left(j)), b |-> whole(j.b, Right(j))]})])

Compared(j) == [j EXCEPT !.findings = add(@, Differences(j))]

(* The rows that hold are kept; the others are asked for once more.           *)
Bad(j, rows) == {i \in DOMAIN rows : Valid(j, rows[i]) = None}
Good(j, rows) == {Valid(j, rows[i]) : i \in DOMAIN rows \ Bad(j, rows)}
Kept(j, rows) == [j EXCEPT !.findings = add(@, Good(j, rows)),
                           !.invalid = Cardinality(Bad(j, rows))]

(* Only the rows that came back wrong count; those left out do not.           *)
Rejected_returned(invalid, accepted, wrong) == wrong
Rejected(invalid, accepted, wrong) == Max({wrong, invalid - accepted})

Repaired(j, rows) ==
    LET wrong == Cardinality(Bad(j, rows))
    IN Reviewed([j EXCEPT
            !.findings = add(@, Good(j, rows)),
            !.rejected = @ + Rejected(j.invalid, Len(rows) - wrong, wrong),
            !.lost = @ \/ wrong > 0 \/ Len(rows) < j.invalid])
Unrepaired(j) == Reviewed([j EXCEPT !.rejected = @ + j.invalid, !.lost = TRUE])

Complete(j) ==
    /\ j.failures = {} /\ j.rejected = 0
    /\ DOCS[j.a].empty_pages = {} /\ DOCS[j.b].empty_pages = {}

-----------------------------------------------------------------------------
Init ==
    /\ slot = 1
    /\ stream = [c \in CLIENTS |-> "none"] /\ here = [c \in CLIENTS |-> FALSE]
    /\ cancelled = [c \in CLIENTS |-> FALSE] /\ messages = [c \in CLIENTS |-> <<>>]
    /\ shown = [c \in CLIENTS |-> None] /\ job = [c \in CLIENTS |-> NoJob]
    /\ pc = [c \in CLIENTS |-> "idle"] /\ late = [c \in CLIENTS |-> 0]

(* run(): what does not parse is refused, and so is a second comparison.      *)
Parsed(q) == Parses(DOCS[q[1]]) /\ Parses(DOCS[q[2]])
Asks(c) == stream[c] \in {"none", "ended"} /\ pc[c] = "idle"
Refuse(c) ==
    /\ Asks(c) /\ \E q \in REQUESTS[c] : slot = 0 \/ ~Parsed(q)
    /\ UNCHANGED vars
Run(c) ==
    /\ Asks(c) /\ slot = 1
    /\ slot' = 0
    /\ \E q \in {r \in REQUESTS[c] : Parsed(r)} :
            job' = [job EXCEPT ![c] = [NoJob EXCEPT !.a = q[1], !.b = q[2]]]
    /\ late' = [late EXCEPT ![c] = 0] /\ UNCHANGED pc
    /\ stream' = [stream EXCEPT ![c] = "ready"] /\ here' = [here EXCEPT ![c] = TRUE]
    /\ cancelled' = [cancelled EXCEPT ![c] = FALSE]
    /\ messages' = [messages EXCEPT ![c] = <<>>] /\ shown' = [shown EXCEPT ![c] = None]

FreedUnstarted == 1

(* The stream opens and starts the worker, or cannot start one.               *)
Start(c) ==
    /\ stream[c] = "ready"
    /\ \/ /\ stream' = [stream EXCEPT ![c] = "open"] /\ pc' = [pc EXCEPT ![c] = "begin"]
          /\ UNCHANGED <<slot, cancelled, shown>>
       \/ /\ stream' = [stream EXCEPT ![c] = "ended"]
          /\ cancelled' = [cancelled EXCEPT ![c] = TRUE] /\ slot' = slot + FreedUnstarted
          /\ shown' = [shown EXCEPT ![c] = "broken"] /\ UNCHANGED pc
    /\ UNCHANGED <<here, messages, job, late>>

Leave(c) ==
    /\ stream[c] \in {"ready", "open"} /\ here[c]
    /\ here' = [here EXCEPT ![c] = FALSE]
    /\ UNCHANGED <<slot, stream, cancelled, messages, shown, pc, job, late>>

(* A stream that ends gives the slot back, whoever holds it.                  *)
FreedByStream_always == 1
FreedByStream == 0

Close(c) ==
    /\ stream' = [stream EXCEPT ![c] = "ended"]
    /\ cancelled' = [cancelled EXCEPT ![c] = TRUE]
    /\ slot' = slot + FreedByStream
    /\ UNCHANGED here

(* One turn of the stream's loop: gone, the end of the queue, or one event.   *)
Poll(c) ==
    /\ stream[c] = "open"
    /\ \/ ~here[c] /\ Close(c) /\ UNCHANGED <<messages, shown>>
       \/ /\ here[c] /\ messages[c] # <<>>
          /\ messages' = [messages EXCEPT ![c] = Tail(@)]
          /\ IF Head(messages[c]) = None
             THEN Close(c) /\ UNCHANGED shown
             ELSE /\ shown' = [shown EXCEPT ![c] = Head(messages[c])]
                  /\ UNCHANGED <<slot, stream, here, cancelled>>
    /\ UNCHANGED <<pc, job, late>>

-----------------------------------------------------------------------------
emit(c, event) ==
    messages' = [messages EXCEPT ![c] = IF cancelled[c] THEN @ ELSE Append(@, event)]
Quietly == UNCHANGED messages
Goes(c, label) == pc' = [pc EXCEPT ![c] = label]
Becomes(c, j, label) == job' = [job EXCEPT ![c] = j] /\ Goes(c, label)

(* An error inside compare() is told, a cancellation is not.                  *)
Tells_nothing(c) == Quietly
Tells(c) == emit(c, "error")
Raises(c) == Goes(c, "ending") /\ UNCHANGED job /\ Tells(c)
Cancels(c) == Goes(c, "ending") /\ UNCHANGED job /\ Quietly

Stopped(c) == cancelled[c]

Paired(j, pairs) == [j EXCEPT !.pairs = InOrder(pairs)]

Begin(c) ==
    LET j == job[c]
        n == Len(Passages[j.a])
        m == Len(Passages[j.b])
    IN /\ pc[c] = "begin" /\ UNCHANGED late
       /\ IF n = 0 \/ m = 0 THEN Raises(c)
          ELSE IF cancelled[c] THEN Cancels(c)
          ELSE /\ emit(c, "progress")
               /\ IF Identical(j)
                  THEN Becomes(c, Paired(j, {<<i, i>> : i \in 1..Min({n, m})}), "pair")
                  ELSE IF n * m <= ALL_PAIRS
                  THEN Becomes(c, Paired(j, (1..n) \X (1..m)), "pair")
                  ELSE Becomes(c, j, "embed")

(* local_vectors(): whatever the embedding model says, or the words in common.*)
Embed(c) ==
    LET j == job[c]
        n == Len(Passages[j.a])
        m == Len(Passages[j.b])
        scored(scores) == Becomes(c, Paired(j, NearestPairs(n, m, scores)), "pair")
    IN /\ pc[c] = "embed" /\ Quietly /\ UNCHANGED late
       /\ \/ cancelled[c] /\ Cancels(c)
          \/ ~cancelled[c] /\ \E scores \in [(1..n) \X (1..m) -> 0..1] : scored(scores)
          \/ scored(LexicalScores(Passages[j.a], Passages[j.b]))

Pair(c) ==
    LET j == job[c]
    IN /\ pc[c] = "pair" /\ j.at <= Len(j.pairs) /\ UNCHANGED late
       /\ IF cancelled[c] THEN Cancels(c)
          ELSE /\ emit(c, "progress")
               /\ IF Identical(j) THEN Becomes(c, Agreed(j), "pair")
                  ELSE Becomes(c, Compared(j), "call")

BeginsCall(c, label) ==
    /\ Becomes(c, job[c], label)
    /\ late' = [late EXCEPT ![c] = @ + (IF cancelled[c] THEN 1 ELSE 0)]

(* Nothing is checked between the announcement of a pair and its call.        *)
Call(c) == pc[c] = "call" /\ Quietly /\ BeginsCall(c, "called")

Answers(j) ==
    IF j.at <= FREE_PAIRS THEN {<<>>} \cup {<<r>> : r \in ROWS} \cup (ROWS \X ROWS)
    ELSE {<<>>}

(* An answer that raises, is cut short or is no report fails the round.       *)
Answer(c) ==
    LET j == job[c]
    IN /\ pc[c] = "called" /\ Quietly /\ UNCHANGED late
       /\ \/ Becomes(c, Failed(j), "pair")
          \/ Stopped(c) /\ Cancels(c)
          \/ /\ ~Stopped(c)
             /\ \E rows \in Answers(j) :
                    IF Bad(j, rows) = {} THEN Becomes(c, Reviewed(Kept(j, rows)), "pair")
                    ELSE Becomes(c, Kept(j, rows), "repair")

Repair(c) ==
    /\ pc[c] = "repair" /\ Quietly
    /\ IF Stopped(c) THEN Cancels(c) /\ UNCHANGED late ELSE BeginsCall(c, "repairing")

RepairAnswer(c) ==
    /\ pc[c] = "repairing" /\ Quietly /\ UNCHANGED late
    /\ \/ Becomes(c, Unrepaired(job[c]), "pair")
       \/ Stopped(c) /\ Cancels(c)
       \/ ~Stopped(c) /\ \E rows \in Answers(job[c]) :
                            Becomes(c, Repaired(job[c], rows), "pair")

Report(c) ==
    LET j == job[c]
    IN /\ pc[c] = "pair" /\ j.at > Len(j.pairs) /\ UNCHANGED late
       /\ IF cancelled[c] THEN Cancels(c)
          ELSE /\ emit(c, "result")
               /\ Becomes(c, [j EXCEPT !.complete = Complete(j)], "ending")

(* Only a worker that finished its report marks the end of the queue.         *)
Ended_on_success(c) == IF job[c].complete = None THEN messages[c] ELSE Append(messages[c], None)
Ended(c) == Append(messages[c], None)

(* The worker's last two acts: the end of the queue, then the slot.           *)
End(c) ==
    /\ pc[c] = "ending" /\ Goes(c, "release")
    /\ messages' = [messages EXCEPT ![c] = Ended(c)]
    /\ UNCHANGED <<job, late>>
Release(c) ==
    /\ pc[c] = "release" /\ Becomes(c, NoJob, "idle")
    /\ slot' = slot + 1
    /\ UNCHANGED <<stream, here, cancelled, messages, shown, late>>

Work(c) ==
    /\ \/ Begin(c) \/ Embed(c) \/ Pair(c) \/ Call(c) \/ Answer(c)
       \/ Repair(c) \/ RepairAnswer(c) \/ Report(c) \/ End(c)
    /\ UNCHANGED control
Worker(c) == Work(c) \/ Release(c)

Next == \E c \in CLIENTS : Refuse(c) \/ Run(c) \/ Start(c) \/ Leave(c) \/ Poll(c) \/ Worker(c)
Spec == Init /\ [][Next]_vars

(* An accepted response is started, its loop turns, and its thread runs: every*)
(* call has a timeout.                                                        *)
FairSpec == Spec /\ \A c \in CLIENTS :
                WF_vars(Start(c)) /\ WF_vars(Poll(c)) /\ WF_vars(Worker(c))

-----------------------------------------------------------------------------
Ends == {"result", "error", "broken"}

TypeOK ==
    /\ slot \in 0..1
    /\ stream \in [CLIENTS -> {"none", "ready", "open", "ended"}]
    /\ here \in [CLIENTS -> BOOLEAN] /\ cancelled \in [CLIENTS -> BOOLEAN]
    /\ messages \in [CLIENTS -> Seq({None, "progress", "result", "error"})]
    /\ shown \in [CLIENTS -> {None, "progress"} \cup Ends]
    /\ pc \in [CLIENTS -> {"idle", "begin", "embed", "pair", "call", "called", "repair",
                           "repairing", "ending", "release"}]
    /\ late \in [CLIENTS -> Nat]

Holds(c) == stream[c] = "ready" \/ pc[c] # "idle"

(* One comparison holds the slot and gives it back once: the two places that  *)
(* release it, the worker and a stream whose thread never started, never both *)
(* run for one acquisition, however the client leaves.                        *)
OneAtATime == Cardinality({c \in CLIENTS : Holds(c)}) + slot = 1

(* A client that stays to the end of its stream is told a result or an error; *)
(* it is never left with the last progress.                                   *)
StreamsEndWithAVerdict ==
    \A c \in CLIENTS : (stream[c] = "ended" /\ here[c]) => shown[c] \in Ends

(* A report that calls itself complete had every readable line of both        *)
(* documents in a passage it reviewed, long tails included, lost no row of    *)
(* the model's answers and knows of no page without text; identical texts     *)
(* aside whose page counts cut them differently.                              *)
SameCut(j) == Identical(j) => Len(Passages[j.a]) = Len(Passages[j.b])
ReadWhole(n, seen) == Readable(DOCS[n]) \subseteq UNION {Passages[n][p].rows : p \in seen}
CompleteIsHonest ==
    \A c \in CLIENTS : LET j == job[c] IN (j.complete = TRUE /\ SameCut(j)) =>
        /\ ReadWhole(j.a, j.seen_a) /\ ReadWhole(j.b, j.seen_b)
        /\ ~j.lost /\ j.failures = {}
        /\ DOCS[j.a].empty_pages = {} /\ DOCS[j.b].empty_pages = {}

(* The quotes of a finding stand in the two passages of one compared pair,    *)
(* on the page and the line the finding gives.                                *)
Stands(d, passage, c) ==
    Cited(c) => /\ c.line \in passage.rows /\ c.page = PageAt(d, c.line)
                /\ \E i \in DOMAIN passage.words : Prints(passage.words, c.quote, i)
QuotesComeFromOnePair ==
    \A c \in CLIENTS : LET j == job[c] IN \A f \in j.findings :
        \E p \in Range(j.pairs) :
            /\ Stands(DOCS[j.a], Passages[j.a][p[1]], f.a)
            /\ Stands(DOCS[j.b], Passages[j.b][p[2]], f.b)

(* Two lines worded alike with other numbers, in passages that met, are       *)
(* reported as different even when the model's answer about them failed.      *)
LinesTold(j, la, lb) ==
    \E f \in j.findings : f.status = "different" /\ f.a.quote = la /\ f.b.quote = lb
EditedNumbersAreTold ==
    \A c \in CLIENTS : LET j == job[c] IN
        \A k \in 1..(j.at - 1) : ~Identical(j) =>
            \A ra \in Passages[j.a][j.pairs[k][1]].rows, rb \in Passages[j.b][j.pairs[k][2]].rows :
                LET la == DOCS[j.a].text[ra].words
                    lb == DOCS[j.b].text[rb].words
                IN NumbersChanged(la, lb) => LinesTold(j, la, lb)

(* What a report says can be relied on, whatever the model answered or failed *)
(* to answer: its completeness, its quotes and the numbers that changed.      *)
ReportIsHonest == CompleteIsHonest /\ QuotesComeFromOnePair /\ EditedNumbersAreTold

(* Once its client is given up, a worker calls the model at most once more.   *)
AtMostOneLateCall == \A c \in CLIENTS : late[c] <= 1

(* A comparison that was accepted ends, its stream closes and its slot comes  *)
(* back for the next one, whether or not its client is there to see it.       *)
RunsEnd ==
    \A c \in CLIENTS : stream[c] = "ready" ~> (stream[c] = "ended" /\ ~Holds(c))
=============================================================================
