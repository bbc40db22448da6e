-------------------------------- MODULE Triage --------------------------------
(***************************************************************************)
(* complaints.py, the part that decides: what of a document a model is     *)
(* sent, what of its answers is kept, and the rules over both.             *)
(*                                                                         *)
(* A document is a sequence of words, each WordChars characters long; a    *)
(* value a model gives is a sequence of words, empty for none.             *)
(***************************************************************************)
EXTENDS Taxonomy, FiniteSetsExt

CONSTANTS
    WordChars,       \* characters of a word
    StructFixed, FullFixed, CompactFixed   \* tokens of the three instructions

ASSUME TriageAssumption ==
    /\ WordChars \in Nat /\ WordChars > 5      \* no shorter than the mark of a clip
    /\ StructFixed \in Nat /\ FullFixed \in Nat /\ CompactFixed \in Nat

\* Words with a role of their own.
Contact    == {"phone", "regards", "id_1", "id_2"}  \* lines of a closing block
PageMarker == "--- Page ---"
Fence      == "<<<END DOCUMENT>>>"
Addressed  == {"SYSTEM:", "priority: critical", Fence} \* wording meant for the model

-----------------------------------------------------------------------------
(* Budgets.                                                                *)

STRUCT_OUT == 1400
CLASSIFY_OUT == 900
CLASSIFY_OUT_SMALL == 600
SMALL_CTX == 4096
OVERHEAD == 900
SignatureMax == 700      \* _SIGNATURE_MAX: a longer remainder is no closing block
MIN_TEXT_CHARS == 40
MIN_DOC_CHARS == 1000
MIN_CLASSIFY_DOC_CHARS == 3000

Least(a, b) == IF a < b THEN a ELSE b
Most(a, b)  == IF a > b THEN a ELSE b

\* 1.5 characters a token.
Chars(tokens) == (tokens * 3) \div 2
Tokens(chars) == (chars * 2) \div 3

input_budget_chars(n_ctx, out) == Most(1500, Least(12000, Chars(n_ctx - out - OVERHEAD)))

_room(n_ctx, out, fixed) == input_budget_chars(n_ctx, out) - Chars(Most(0, fixed - OVERHEAD))

_doc_limit(n_ctx, out, fixed) == Most(MIN_DOC_CHARS, _room(n_ctx, out, fixed))

\* classify_complaint's request: the short catalogue when the long one would
\* crowd out the document, and the answer gets what the window leaves.
ClassifyOut(n_ctx) == IF n_ctx <= SMALL_CTX THEN CLASSIFY_OUT_SMALL ELSE CLASSIFY_OUT
ClassifyFixed(n_ctx, chars) ==
    IF _room(n_ctx, ClassifyOut(n_ctx), FullFixed) < Least(chars, MIN_CLASSIFY_DOC_CHARS)
    THEN CompactFixed ELSE FullFixed
ClassifyRequest(n_ctx, chars) ==
    LET fixed == ClassifyFixed(n_ctx, chars)
        limit == _doc_limit(n_ctx, ClassifyOut(n_ctx), fixed)
    IN  [fixed |-> fixed, limit |-> limit,
         max_tokens |-> Most(ClassifyOut(n_ctx),
                             Least(CLASSIFY_OUT, n_ctx - (fixed + Tokens(limit) + 40)))]
StructRequest(n_ctx) ==
    [fixed |-> StructFixed, limit |-> _doc_limit(n_ctx, STRUCT_OUT, StructFixed),
     max_tokens |-> STRUCT_OUT]

\* What the model sees: no page markers, nothing that reads as a fence.
_prepare(text) == Only(text, Elements(text) \ {PageMarker, Fence})

Gap == "[...]"      \* _CLIP_MARK
\* Characters of a request's body.
Size(body) ==
    LET gaps == {i \in DOMAIN body : body[i] = Gap}
    IN  Len(body) * WordChars - Cardinality(gaps) * (WordChars - 5)

_head(doc, limit) == SubSeq(doc, 1, Least(Len(doc), limit \div WordChars))

\* The document within the limit; with a tail, a quarter of it from the end.
_clip(doc, limit, tail) ==
    LET keep == IF tail THEN limit \div 4 ELSE 0
        head == _head(doc, limit - keep - 5)
        start == Len(doc) - keep \div WordChars
    IN  IF Len(doc) * WordChars <= limit THEN [body |-> doc, cut |-> FALSE]
        ELSE IF keep < 40 \/ start <= Len(head) THEN [body |-> _head(doc, limit), cut |-> TRUE]
        ELSE [body |-> head \o <<Gap>> \o SubSeq(doc, start + 1, Len(doc)), cut |-> TRUE]

\* What a head left out is a closing block: short, and only such words.
_signature_only(rest) ==
    /\ rest # <<>> /\ Len(rest) * WordChars <= SignatureMax
    /\ \A i \in DOMAIN rest : rest[i] \in Contact

-----------------------------------------------------------------------------
(* Citing.                                                                 *)

\* A value in words of the model's own, and the word of the text it rewords.
Rewords == [dark_street |-> "lamp_out", no_water |-> "water_cut"]
Reworded(value) == IF Len(value) = 1 /\ value[1] \in DOMAIN Rewords THEN <<Rewords[value[1]]>> ELSE value

_cite(text, value) == value # <<>> /\ Contains(text, value)

\* The clause a value rewords, in what the model was shown.
_near_source(text, shown, value) == value # <<>> /\ Contains(shown, Reworded(value))

FieldKeys == {"addressed_to", "national_id", "city", "district_or_address", "incident_location"}

Field(text, shown, value) ==
    [value |-> value, verified |-> _cite(text, value),
     near |-> ~_cite(text, value) /\ _near_source(text, shown, value)]

\* A quote is verified when the text has it, or a clause of what was shown is
\* close enough to it.
Quote(text, shown, quote) ==
    [quote |-> quote, exact |-> Contains(text, quote),
     verified |-> Contains(text, quote) \/ Contains(shown, Reworded(quote))]

-----------------------------------------------------------------------------
(* The receiving entity.                                                   *)

Label(tax, region) == Get(tax.regions, region).label
OfficeNames(label) == {<<word>> \o n : word \in {"emirate", "emir"}, n \in {label, _region_short(label)}}

\* The office's Arabic names, the prince's, and "of the region" for both.
_entity_names(tax) == OfficeNames(Label(tax, tax.home)) \cup {<<"emirate", "this_region">>, <<"emir", "this_region">>}
_entity_names_en(tax) ==
    UNION {{<<"Emirate", "of">> \o n, n \o <<"Emirate">>, n \o <<"Region", "Emirate">>}
           : n \in Get(tax.regions, tax.home).places_en}

Covered(text, names) ==
    UNION {{j \in DOMAIN text : o[2] <= j /\ j < o[2] + Len(o[1])}
           : o \in {q \in names \X DOMAIN text : Occurs(text, q[2], q[1])}}
Blank(text, names) ==
    LET covered == Covered(text, names)
    IN  [j \in DOMAIN text |-> IF j \in covered THEN Blanked ELSE text[j]]

\* The governor of one of the entity's governorates, or that office when it
\* opens the line or follows a word of address.
_governor_named(tax, text) ==
    \E g \in {h \in Elements(tax.governorates) : h.id # "unknown"} :
       \/ Contains(text, <<"governor">> \o g.label)
       \/ \E i \in DOMAIN text :
             /\ Occurs(text, i, <<"governorate">> \o g.label)
             /\ Word(text, i - 1) \in {None, "to", "governor"}

\* An empty line addresses the entity; another region's office is cut first.
addresses_entity(tax, line) ==
    LET others == UNION {OfficeNames(r.label) : r \in {q \in Elements(tax.regions) :
                                                          q.id \notin {tax.home, "unknown"}}}
        rest == Blank(line, others)
    IN  line = <<>> \/ (\E n \in _entity_names(tax) : Contains(rest, n)) \/ _governor_named(tax, rest)

\* Bug: the letter's opening line backs a place too.
_support_text_all(tax, text, addressee) == text

\* The text that may back a place the model inferred.
_support_text(tax, text, addressee) ==
    LET rest == IF addressee = <<>> THEN text ELSE Blank(text, {addressee})
    IN  Blank(rest, _entity_names(tax) \cup _entity_names_en(tax))

-----------------------------------------------------------------------------
(* Where the problem is.                                                   *)

Unknown == [id |-> "unknown", source |-> "none"]
From(id, source) == [id |-> id, source |-> source]

\* The verified values, in the order they are tried.
Tried(incident, city, district) ==
    LET both == IF city = <<>> THEN district ELSE IF district = <<>> THEN city ELSE city \o <<Comma>> \o district
    IN  Only(<<incident, city, both>>, {incident, city, both} \ {<<>>})

\* The value the search stops at: a place of a governorate, or a city of
\* another region unless the entity's own was named before.  0: none does.
Stops(tax, tried) ==
    LET Home(i) == region_for_city(tax, tried[i]) = tax.home
        Ends(i) == \/ governorate_for_place(tax, tried[i]) # None
                   \/ /\ region_for_city(tax, tried[i]) \notin {None, tax.home}
                      /\ \A j \in 1..(i - 1) : ~Home(j)
    IN  IF \E i \in DOMAIN tried : Ends(i)
        THEN CHOOSE i \in DOMAIN tried : Ends(i) /\ \A j \in 1..(i - 1) : ~Ends(j)
        ELSE 0

\* With no place to look up, the model's word stands when the text backs it.
Inferred(tax, home_named, region, governorate, support) ==
    LET backed == governorate # "unknown" /\ governorate \in governorates_in(tax, support)
        where == IF home_named THEN From(tax.home, "city_map")
                 ELSE IF region # "unknown" /\ region \in regions_in(tax, support)
                 THEN From(region, "llm")
                 ELSE IF backed THEN From(tax.home, "llm") ELSE Unknown
    IN  [region |-> where,
         governorate |-> IF backed /\ where.id = tax.home THEN From(governorate, "llm") ELSE Unknown]

_resolve_place(tax, incident, city, district, region, governorate, support) ==
    LET tried == Tried(incident, city, district)
        stop  == Stops(tax, tried)
        gov   == governorate_for_place(tax, tried[stop])
    IN  IF stop = 0
        THEN Inferred(tax, \E i \in DOMAIN tried : region_for_city(tax, tried[i]) = tax.home,
                      region, governorate, support)
        ELSE IF gov # None
        THEN [region |-> From(tax.home, "place_map"), governorate |-> From(gov, "place_map")]
        ELSE [region |-> From(region_for_city(tax, tried[stop]), "city_map"), governorate |-> Unknown]

\* structure_complaint, from the answer on: each value cited, the place
\* resolved from the verified ones.
Structured(tax, text, shown, cut, answer) ==
    LET fields == [k \in FieldKeys |-> Field(text, shown, answer[k])]
        Verified(k) == IF fields[k].verified THEN fields[k].value ELSE <<>>
        \* an id outside the taxonomy is "unknown"
        Known(kind, id) == IF id \in Ids(kind) THEN id ELSE "unknown"
        place == _resolve_place(tax, Verified("incident_location"), Verified("city"),
                    Verified("district_or_address"), Known(tax.regions, answer.region),
                    Known(tax.governorates, answer.governorate),
                    _support_text(tax, text, fields["addressed_to"].value))
    IN  [kind |-> "structured", is_complaint |-> answer.is_complaint, fields |-> fields,
         region |-> place.region, governorate |-> place.governorate,
         addressed |-> addresses_entity(tax, answer["addressed_to"]), truncated |-> cut]

-----------------------------------------------------------------------------
(* Signals and the priority.                                               *)

PlaceWords == {"governorate", "town", "people_of"}    \* _PLACE_WORD
Exceptions == [pregnant |-> {"card"}]                 \* _SIGNAL_EXCEPTIONS

\* Raw positions of the complaint's own place names.
_place_spans(tax, text, structured) ==
    LET own == UNION {places_in(tax, structured.fields[k].value) : k \in
                        {f \in {"city", "district_or_address", "incident_location"} :
                           structured.fields[f].verified}}
        gov == structured.governorate
    IN  Covered(text, own \cup (IF gov.source = "place_map" THEN Places(Get(tax.governorates, gov.id)) ELSE {}))

\* The word is a place used as one: in the complaint's own place, after a
\* place word, or anywhere once the text has named it so.
Used(tax, text, spans, i) ==
    /\ places_in(tax, <<text[i]>>) # {}
    /\ \/ i \in spans
       \/ \E j \in DOMAIN text : text[j] = text[i] /\ Word(text, j - 1) \in PlaceWords

Excepted(text, i) == text[i] \in DOMAIN Exceptions /\ Word(text, i + 1) \in Exceptions[text[i]]

detect_signals(tax, text, spans) ==
    {s \in Elements(tax.signals) :
       \E i \in DOMAIN text : text[i] \in s.patterns /\ ~Excepted(text, i) /\ ~Used(tax, text, spans, i)}

\* Bug: a floor may reach the first priority, or lower.
resolve_priority_sets(tax, model, signals) ==
    LET floors == {s.floor : s \in signals}
    IN  IF floors = {} THEN From(model, "llm")
        ELSE From(CHOOSE f \in floors : \A g \in floors : priority_rank(tax, f) >= priority_rank(tax, g), "rule_floor")

\* The highest of the model's priority and the floors below the first one.
resolve_priority(tax, model, signals) ==
    LET top == tax.priorities[1].rank
        base == priority_rank(tax, model)
        floors == {f \in {s.floor : s \in signals} : base < priority_rank(tax, f) /\ priority_rank(tax, f) < top}
    IN  IF floors = {} THEN From(model, "llm")
        ELSE From(CHOOSE f \in floors : \A g \in floors : priority_rank(tax, f) >= priority_rank(tax, g), "rule_floor")

_suspected_instructions(text) == \E i \in DOMAIN text : text[i] \in Addressed

\* Two harms, or one at the strongest floor; repetition is none.
_critical_supported(tax, signals) ==
    LET strongest == Max({priority_rank(tax, s.floor) : s \in Elements(tax.signals)})
        harm == {s \in signals : s.id # "repeated_unresolved"}
    IN  Cardinality(harm) >= 2 \/ \E s \in harm : priority_rank(tax, s.floor) >= strongest

\* analyze: a text that talks to the model does not get the first priority on
\* the model's word.
Priority(tax, model, signals, suspicious) ==
    IF suspicious /\ model = tax.priorities[1].id /\ Len(tax.priorities) > 1
    THEN [resolve_priority(tax, tax.priorities[2].id, signals) EXCEPT !.source = "rule_cap"]
    ELSE resolve_priority(tax, model, signals)
=============================================================================
