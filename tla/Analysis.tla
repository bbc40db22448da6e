------------------------------- MODULE Analysis -------------------------------
(***************************************************************************)
(* complaints.analyze and insights: the steps of one complaint through a   *)
(* model that may be away, answer nonsense, run out of tokens or be told   *)
(* by the text what to say; then a reviewer, and the letter that goes out. *)
(***************************************************************************)
EXTENDS Triage

CONSTANTS
    Taxonomies,   \* the files the loader may be given
    Documents,    \* texts of complaints
    Windows,      \* context sizes of the providers
    Readings,     \* what a model may answer to step 1
    Verdicts,     \* what it may answer to step 2
    Corrections,  \* what a reviewer may set
    Boards,       \* analytics and samples for the insights
    InsightsFixed, FullFacts, BriefFacts, RowCost  \* tokens

\* What the YAML parser gives: lists of entries, whole numbers for ranks.
ASSUME TaxonomiesAssumption == \A raw \in Taxonomies :
    /\ {"priorities", "categories", "signals"} \subseteq DOMAIN raw
    /\ raw.priorities \in Seq(Elements(raw.priorities))
    /\ raw.categories \in Seq(Elements(raw.categories))
    /\ raw.signals \in Seq(Elements(raw.signals))
    /\ \A p \in Elements(raw.priorities) : p.rank \in Int
    /\ None \notin Ids(raw.categories)
    /\ \A n \in PlaceNames(raw) : Name(n)

\* Texts, answers and rows are lists, a window has room for the instructions
\* (MIN_N_CTX of complaints_llm), and a row of the insights takes some.
ASSUME AnalysisAssumption ==
    /\ \A text \in Documents : text \in Seq(Elements(text))
    /\ \A a \in Readings, k \in FieldKeys : a[k] \in Seq(Elements(a[k]))
    /\ \A b \in Boards : b.samples \in Seq(Elements(b.samples))
    /\ \A n \in Windows : n \in Nat /\ n >= 4096
    /\ {InsightsFixed, FullFacts, BriefFacts} \subseteq Nat /\ RowCost \in Nat \ {0}

VARIABLES
    tax,          \* the taxonomy loaded
    job,          \* the document, the provider's window, the history
    pc,
    ask,          \* _ask: the step, its attempt, limit and last request
    structured, cls,
    looked,       \* national ids the history was asked for
    result,       \* what analyze returned, or raised
    letter        \* the acknowledgment, once drafted

vars == <<tax, job, pc, ask, structured, cls, looked, result, letter>>

Absent == [kind |-> "none"]
NoBoard == [samples |-> <<>>, corrected |-> {}]
Doc == _prepare(job.text)

Init ==
    /\ tax \in {Taxonomy(raw) : raw \in {t \in Taxonomies : Loads(t)}}
    /\ \/ job \in [kind : {"analyze"}, text : Documents, n_ctx : Windows,
                   history : {0, 1, -1}, board : {NoBoard}]
       \/ job \in [kind : {"insights"}, text : {<<>>}, n_ctx : Windows, history : {0}, board : Boards]
    /\ pc = "start"
    /\ ask = Absent /\ structured = Absent /\ cls = Absent
    /\ looked = {} /\ result = Absent /\ letter = Absent

-----------------------------------------------------------------------------
(* The provider: chat_json of an OpenAI-compatible server.                 *)

Wire == {"429", "503", "400", "500", "no_connection", "bad_protocol", "huge", "no_choices", "cut", "json"}

\* What reaches _ask.
chat_json(w) ==
    CASE w \in {"429", "503"} -> "busy"
      [] w = "no_connection" -> "unavailable"
      [] w \in {"400", "500", "bad_protocol", "huge", "no_choices"} -> "error"
      [] w = "cut" -> "length"
      [] OTHER -> "answer"

-----------------------------------------------------------------------------
(* _ask.                                                                   *)

Ask(step, request, rows) ==
    ask' = [kind |-> "ask", step |-> step, again |-> FALSE, limit |-> request.limit,
            fixed |-> request.fixed, max_tokens |-> request.max_tokens, rows |-> rows,
            body |-> <<>>, cut |-> FALSE, sent |-> 0]

\* insights: the facts, brief when they would take half of the room, and the
\* rows that fit behind them (the first always does).
RowsFor(rows, limit) ==
    LET facts == IF FullFacts <= limit \div 2 THEN FullFacts ELSE BriefFacts
        fit   == Most(1, (limit - facts) \div RowCost)
        kept  == SubSeq(rows, 1, Least(Len(rows), fit))
    IN  [body |-> kept, cut |-> Len(kept) < Len(rows) \/ facts # FullFacts,
         sent |-> facts + Len(kept) * RowCost]

Render(limit) ==
    IF ask.step = "insights" THEN RowsFor(ask.rows, limit)
    ELSE LET c == _clip(Doc, limit, ask.step = "structure")
         IN  [body |-> c.body, cut |-> c.cut, sent |-> Size(c.body)]

Send ==
    /\ pc = "ask"
    /\ LET r == Render(ask.limit)
       IN  ask' = [ask EXCEPT !.body = r.body, !.cut = r.cut, !.sent = r.sent]
    /\ pc' = "wait"
    /\ UNCHANGED <<tax, job, structured, cls, looked, result, letter>>

Shrunk(sent) == Most(1, (sent * 6) \div 10)

\* Busy and unavailable go up to the worker, which owns those retries.
Propagates ==
    /\ pc = "wait"
    /\ \E w \in Wire : /\ chat_json(w) \in {"busy", "unavailable"}
                       /\ result' = [kind |-> chat_json(w)]
    /\ pc' = "raised"
    /\ UNCHANGED <<tax, job, ask, structured, cls, looked, letter>>

\* Bug: it is asked again as long as it takes.
MayRetry_always == TRUE

MayRetry == ~ask.again

\* An answer that cannot be used: once more with less, then AnalysisError.
Retries ==
    /\ pc = "wait"
    /\ IF MayRetry
       THEN /\ ask' = [ask EXCEPT !.again = TRUE, !.limit = Shrunk(ask.sent)]
            /\ pc' = "ask" /\ UNCHANGED result
       ELSE /\ result' = [kind |-> "AnalysisError"]
            /\ pc' = "raised" /\ UNCHANGED ask
    /\ UNCHANGED <<tax, job, structured, cls, looked, letter>>

\* The request was refused, cut off, or answered with something else.
Unusable ==
    /\ \E w \in Wire : chat_json(w) \in {"error", "length"}
    /\ Retries

-----------------------------------------------------------------------------
(* Step 1.                                                                 *)

TooLittle == Len(Doc) * WordChars < MIN_TEXT_CHARS

\* Too little to read: no model, straight to a reviewer.
Empty ==
    /\ pc = "start" /\ job.kind = "analyze" /\ TooLittle
    /\ structured' = [kind |-> "structured", is_complaint |-> FALSE, region |-> Unknown,
                      governorate |-> Unknown, addressed |-> TRUE, truncated |-> FALSE,
                      fields |-> [k \in FieldKeys |-> Field(<<>>, <<>>, <<>>)]]
    /\ result' = [kind |-> "analysis", category |-> "other", ministry |-> "other",
                  priority |-> From("low", "llm"), reasons |-> {"empty_text"}, signals |-> {}]
    /\ pc' = "done"
    /\ UNCHANGED <<tax, job, ask, cls, looked, letter>>

Structuring ==
    /\ pc = "start" /\ job.kind = "analyze" /\ ~TooLittle
    /\ Ask("structure", StructRequest(job.n_ctx), <<>>)
    /\ pc' = "ask"
    /\ UNCHANGED <<tax, job, structured, cls, looked, result, letter>>

Structure ==
    /\ pc = "wait" /\ ask.step = "structure"
    /\ \E a \in Readings :
         structured' = Structured(tax, job.text, ask.body, ask.cut, a)
    /\ pc' = "history"
    /\ UNCHANGED <<tax, job, ask, cls, looked, result, letter>>

\* Only an id the text carries may count other complaints.
LooksUp(field) == field.verified /\ field.value # <<>>

\* The history, or its failure; then step 2 begins.
History ==
    /\ pc = "history"
    /\ LET nid == structured.fields["national_id"]
       IN  looked' = looked \cup IF LooksUp(nid) THEN {nid.value} ELSE {}
    /\ Ask("classify", ClassifyRequest(job.n_ctx, Len(Doc) * WordChars), <<>>)
    /\ pc' = "ask"
    /\ UNCHANGED <<tax, job, structured, cls, result, letter>>

RepeatCount == IF LooksUp(structured.fields["national_id"]) THEN Most(0, job.history) ELSE 0

-----------------------------------------------------------------------------
(* Step 2.                                                                 *)

\* Decisions that are no ids of the taxonomy make the whole answer unusable.
Classifies(v) ==
    /\ v.category \in Ids(tax.categories) /\ v.ministry \in Ids(tax.ministries)
    /\ v.priority \in Ids(tax.priorities)

\* A subcategory of another category is dropped.
Sub(v) == IF category_of_subcategory(tax, v.subcategory) = v.category THEN v.subcategory ELSE None

\* Bug: only the last line is looked at.
LeftOut_last(sent) == SubSeq(Doc, Len(Doc), Len(Doc))

\* What the model did not see: a head-only clip.
LeftOut(sent) == SubSeq(Doc, Len(sent) + 1, Len(Doc))

Verdict(v) ==
    [kind |-> "cls", category |-> v.category, ministry |-> v.ministry, model_priority |-> v.priority,
     subcategory |-> Sub(v),
     confidence |-> v.confidence,
     evidence |-> {Quote(job.text, ask.body, q) : q \in v.evidence},
     truncated |-> ask.cut /\ ~_signature_only(LeftOut(ask.body))]

Classify ==
    /\ pc = "wait" /\ ask.step = "classify"
    /\ \E v \in Verdicts : Classifies(v) /\ cls' = Verdict(v)
    /\ pc' = "rules"
    /\ UNCHANGED <<tax, job, ask, structured, looked, result, letter>>

Misclassify == pc = "wait" /\ ask.step = "classify" /\ (\E v \in Verdicts : ~Classifies(v)) /\ Retries

-----------------------------------------------------------------------------
(* The rules.                                                              *)

\* Earlier complaints on record act as one more signal.
Signals ==
    detect_signals(tax, job.text, _place_spans(tax, job.text, structured))
    \cup {s \in Elements(tax.signals) : s.id = "repeated_unresolved" /\ RepeatCount > 0}

Flags(signals, priority) ==
    LET model_top == cls.model_priority = tax.priorities[1].id
        default   == default_ministry(tax, cls.category)
        When(reason, holds) == IF holds THEN {reason} ELSE {}
    IN  When("not_a_complaint", ~structured.is_complaint)
        \cup When("suspected_instructions", _suspected_instructions(job.text))
        \cup When("low_confidence", cls.confidence = "low")
        \cup When("critical_unsupported", model_top /\ ~_critical_supported(tax, signals))
        \cup When("priority_floor_applied", priority.source = "rule_floor")
        \cup When("category_other", cls.category = "other")
        \cup When("ministry_other", cls.ministry = "other")
        \cup When("input_truncated", structured.truncated \/ cls.truncated)
        \cup When("evidence_unverified", cls.evidence # {} /\ \A q \in cls.evidence : ~q.verified)
        \cup When("fields_unverified", \E k \in FieldKeys :
                      structured.fields[k].value # <<>> /\ ~structured.fields[k].verified)
        \cup When("repeat_complainant", RepeatCount > 0)
        \cup When("ministry_mismatch", cls.ministry # default /\ default # "other")
        \cup When("outside_jurisdiction", structured.region.id \notin {"unknown", tax.home})
        \cup When("addressed_elsewhere", ~structured.addressed)

Decide ==
    /\ pc = "rules"
    /\ LET signals  == Signals
           priority == Priority(tax, cls.model_priority, signals, _suspected_instructions(job.text))
       IN  result' = [kind |-> "analysis", category |-> cls.category, ministry |-> cls.ministry,
                      priority |-> priority, signals |-> signals, reasons |-> Flags(signals, priority)]
    /\ pc' = "done"
    /\ UNCHANGED <<tax, job, ask, structured, cls, looked, letter>>

-----------------------------------------------------------------------------
(* The reviewer and the letter.                                            *)

\* The record as the store holds it: the analysis, then the corrections.
Record ==
    [region |-> structured.region.id, ministry |-> result.ministry, priority |-> result.priority.id,
     status |-> "new", reviewed |-> FALSE]
Corrected(correction) ==
    [k \in DOMAIN Record |-> IF k \in DOMAIN correction THEN correction[k] ELSE Record[k]]

\* Bug: the analysis's region wins over the reviewer's.
_outside_region_model(record) ==
    IF "outside_jurisdiction" \in result.reasons THEN [outside |-> TRUE, where |-> structured.region.id]
    ELSE [outside |-> record.region \notin {"unknown", tax.home}, where |-> record.region]

\* The record's region when it is known, else what the analysis flagged.
_outside_region(record) ==
    IF record.region # "unknown"
    THEN [outside |-> record.region # tax.home, where |-> record.region]
    ELSE IF "outside_jurisdiction" \in result.reasons
    THEN [outside |-> TRUE, where |-> structured.region.id]
    ELSE [outside |-> FALSE, where |-> None]

\* A dismissed complaint, or one read as none that no reviewer has referred.
_receipt_only(record) ==
    \/ record.status = "rejected"
    \/ /\ ~(record.reviewed /\ record.ministry # "other")
       /\ ~structured.is_complaint \/ "empty_text" \in result.reasons

\* Drafted on demand, from the record as it then is.
acknowledgment ==
    /\ pc = "done" /\ job.kind = "analyze"
    /\ \E c \in Corrections :
         LET record == Corrected(c)
             to     == _outside_region(record)
         IN  letter' = [kind |-> "letter", record |-> record,
                        plain |-> _receipt_only(record),
                        forwarded |-> IF ~_receipt_only(record) /\ to.outside THEN to.where ELSE None,
                        promised |-> IF _receipt_only(record) \/ to.outside THEN None
                                     ELSE record.priority]
    /\ UNCHANGED <<tax, job, pc, ask, structured, cls, looked, result>>

-----------------------------------------------------------------------------
(* Insights.                                                               *)

Refs == <<"C1", "C2", "C3", "C4">>

\* Corrected complaints first, those the sample misses before it.
SampleRows(board) == Only(Refs, board.corrected \ Elements(board.samples)) \o board.samples

Insights ==
    /\ pc = "start" /\ job.kind = "insights"
    /\ Ask("insights", [fixed |-> InsightsFixed, max_tokens |-> 1400,
                        limit |-> Most(1, job.n_ctx - 1400 - InsightsFixed)], SampleRows(job.board))
    /\ pc' = "ask"
    /\ UNCHANGED <<tax, job, structured, cls, looked, result, letter>>

Given(rows, body) == body

\* Refs of complaints that were not given are dropped; nothing left is unusable.
_insights_output ==
    /\ pc = "wait" /\ ask.step = "insights"
    /\ \E refs \in SUBSET {Refs[i] : i \in DOMAIN Refs} :
         LET rows == Given(ask.rows, ask.body)
         IN  result' = [kind |-> "insights", refs |-> {r \in refs : \E i \in DOMAIN rows : rows[i] = r}]
    /\ pc' = "done"
    /\ UNCHANGED <<tax, job, ask, structured, cls, looked, letter>>

Stopped == pc \in {"raised", "done"} /\ UNCHANGED vars

\* What the analysis does by itself.
Step ==
    \/ Empty \/ Structuring \/ Structure \/ History \/ Classify \/ Misclassify
    \/ Send \/ Propagates \/ Unusable
    \/ Decide \/ Insights \/ _insights_output

Next == Step \/ acknowledgment \/ Stopped

\* A model answers, or its caller's timeout makes an error of the call.
Spec == Init /\ [][Next]_vars /\ WF_vars(Step)

-----------------------------------------------------------------------------
(* Properties.                                                             *)

Ran == pc = "done" /\ job.kind = "analyze" /\ cls # Absent

\* The rules raise the model's priority by the signals' floors and never to
\* the first one; they lower it only for a text that talks to the model, by
\* one level and never under a floor; and such a text never gets the first
\* priority (resolve_priority, analyze).
PriorityHonest == Ran =>
    LET model == priority_rank(tax, cls.model_priority)
        final == priority_rank(tax, result.priority.id)
        top   == tax.priorities[1].rank
    IN  /\ final = top => model = top /\ "suspected_instructions" \notin result.reasons
        /\ final < model => /\ "suspected_instructions" \in result.reasons
                            /\ final = tax.priorities[2].rank
        /\ \A s \in result.signals : final >= priority_rank(tax, s.floor)
        /\ final > model => \E s \in result.signals : priority_rank(tax, s.floor) = final

SubcategoryFits == cls # Absent =>
    cls.subcategory \in {None} \cup Get(tax.categories, cls.category).subcategories

\* The verdict keeps to the taxonomy and to the rules, whatever the model said:
\* a subcategory of its own category and a priority the signals justify
\* (classify, resolve_priority).
VerdictHonest == SubcategoryFits /\ PriorityHonest

\* No id the document does not carry is ever looked up in the history: it
\* would count a stranger's complaints (analyze).
OwnIdOnly == \A id \in looked : Contains(job.text, id)

\* A region or governorate is one the letter itself names somewhere else than
\* where it says whom it is addressed to (_resolve_place, _support_text).
Elsewhere(name) ==
    LET line == structured.fields["addressed_to"].value
    IN  \E i \in DOMAIN job.text :
          /\ Occurs(job.text, i, name)
          /\ line = <<>> \/ \A k \in DOMAIN job.text :
                  Occurs(job.text, k, line) => i \notin k..(k + Len(line) - 1)
Backed ==
    /\ structured.region.source = "llm" =>
         \E r \in tax.city_rules \cup tax.place_rules :
            r.of \in {structured.region.id, structured.governorate.id} /\ Elsewhere(r.name)
    /\ structured.governorate.id # "unknown" =>
         /\ structured.region.id = tax.home
         /\ \E r \in tax.place_rules : r.of = structured.governorate.id /\ Contains(job.text, r.name)
PlaceIsBacked == Ran => Backed

\* An analysis that rests on less than the document says so, unless step 2
\* missed only the closing block (input_truncated, _signature_only).
TruncationTold == Ran /\ "input_truncated" \notin result.reasons =>
    \A i \in DOMAIN Doc : Doc[i] \in Contact \/ Contains(ask.body, <<Doc[i]>>)

\* Every approximate source lies in what the model was shown: the clipped
\* middle of a document is the source of nothing (_near_source, _find_quote).
SourcesWereSeen ==
    pc = "history" => \A k \in FieldKeys :
        structured.fields[k].near => Contains(ask.body, Reworded(structured.fields[k].value))

\* A word the letter uses as the name of a place is no alarm anywhere in it
\* (detect_signals, _Places).
PlacesAreNoAlarm == Ran =>
    \A s \in result.signals : s.id # "repeated_unresolved" =>
        \E i \in DOMAIN job.text :
            /\ job.text[i] \in s.patterns
            /\ ~ /\ places_in(tax, <<job.text[i]>>) # {}
                 /\ \E j \in DOMAIN job.text : job.text[j] = job.text[i] /\ Word(job.text, j - 1) \in PlaceWords

\* What is counted, located or raised as an alarm rests on the complainant's
\* own words: not on an id, an addressee or a place the letter merely prints.
OwnWordsOnly == OwnIdOnly /\ PlaceIsBacked /\ PlacesAreNoAlarm

\* Instructions, document and answer fit the provider's window together, but
\* for the documents that get the least room there is (_doc_limit).
RequestFits ==
    pc = "wait" /\ ~ask.again /\ ask.step # "insights"
    /\ ask.limit > MIN_DOC_CHARS
      => ask.fixed + Tokens(ask.sent) + ask.max_tokens <= job.n_ctx

\* The insights cite only complaints of the rows the accepted request held
\* (insights, shown).
CitedWereShown == pc = "done" /\ job.kind = "insights" =>
    \A r \in result.refs : Contains(ask.body, <<r>>)

\* A request fits its window, and the record claims no more than what the
\* requests held: what was left out is told, quoted from nowhere and never cited.
RestsOnWhatWasSent == TruncationTold /\ SourcesWereSeen /\ RequestFits /\ CitedWereShown

\* A letter sends the complaint where the record now says it belongs, and
\* promises a deadline only for one that stays (acknowledgment).
LetterFollowsRecord == letter # Absent =>
    /\ letter.forwarded # None =>
         letter.forwarded # tax.home /\ letter.record.region \in {"unknown", letter.forwarded}
    /\ letter.promised # None =>
         /\ letter.record.region \in {"unknown", tax.home}
         /\ letter.record.status # "rejected"
         /\ structured.is_complaint \/ letter.record.reviewed

\* Every analysis ends, in a result or in an error the worker knows.
Ends == <>(pc \in {"done", "raised"})
=============================================================================
