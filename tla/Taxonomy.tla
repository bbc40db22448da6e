------------------------------- MODULE Taxonomy -------------------------------
(***************************************************************************)
(* complaints_taxonomy.py: the vocabulary of the complaint pipeline, what  *)
(* the loader refuses, and the lookups of places in a text.                *)
(*                                                                         *)
(* A text is a sequence of words and a name is one too, already folded to  *)
(* one spelling (registry.Normalizer) and matched as whole words.          *)
(***************************************************************************)
EXTENDS Integers, Sequences, FiniteSets

CONSTANT None

\* Words that change what the next (or the last) word names.
NamePrefixes  == {"street_of", "prince"}          \* _NAME_PREFIXES
RegionWords   == {"region", "emirate", "emir"}    \* _REGION_WORD
PersonBefore  == {"King", "Prince"}               \* _LATIN_PERSON_BEFORE
RoadAfter     == {"Road"}                         \* _LATIN_ROAD_AFTER
RegionAfter   == {"Region"}                       \* _LATIN_REGION_AFTER
RegionBefore  == {"Emirate", "Prince"}            \* _LATIN_REGION_BEFORE
Comma         == ","
Separators    == {Comma}                          \* _SEGMENTS
Blanked       == " "                              \* a word taken out of a text
LeadFollower  == {"district"}                     \* _LEAD_FOLLOWER
Ambiguous     == {<<"the_city">>}                 \* AMBIGUOUS_CITIES

Ids(kind)     == {kind[i].id : i \in DOMAIN kind}
Get(kind, id) == kind[CHOOSE i \in DOMAIN kind : kind[i].id = id]
Elements(kind) == {kind[i] : i \in DOMAIN kind}

\* The entries of a list that are kept, in their order (SelectSeq, written as a
\* function the provers can expand).
Only(list, kept) ==
    LET upto[n \in 0..Len(list)] ==
            IF n = 0 THEN <<>>
            ELSE IF list[n] \in kept THEN Append(upto[n - 1], list[n]) ELSE upto[n - 1]
    IN  upto[Len(list)]

-----------------------------------------------------------------------------
(* Loading.                                                                *)

\* A kind lists something, and each id once.
_entries(kind) == kind # <<>> /\ Cardinality(Ids(kind)) = Len(kind)

\* Ranks fall strictly from the first priority down, every deadline is real.
LoadsPriorities(raw) ==
    /\ _entries(raw.priorities)
    /\ \A i \in DOMAIN raw.priorities :
         /\ raw.priorities[i].rank >= 1 /\ raw.priorities[i].sla_hours > 0
         /\ i > 1 => raw.priorities[i].rank < raw.priorities[i - 1].rank

\* Every default ministry is one, a subcategory has one category.
LoadsCategories(raw) ==
    /\ _entries(raw.ministries) /\ "other" \in Ids(raw.ministries)
    /\ _entries(raw.categories) /\ "other" \in Ids(raw.categories)
    /\ \A c \in Elements(raw.categories) :
         c.ministry \in Ids(raw.ministries) /\ c.subcategories # {}
    /\ \A c, d \in Elements(raw.categories) :
         c # d => c.subcategories \cap d.subcategories = {}

\* A region's own English label is a name of it, no city; <<>> has no Latin word.
LabelEn(r) == IF r.id = "unknown" THEN {} ELSE {r.label_en} \ {<<>>}
NamesEn(r) == r.places_en \cup LabelEn(r)

\* A city, and a Latin name, is of one region; "unknown" has none.
LoadsRegions(raw) ==
    /\ _entries(raw.regions) /\ "unknown" \in Ids(raw.regions)
    /\ \A r \in Elements(raw.regions) :
         r.id = "unknown" => r.cities = {} /\ r.places_en = {}
    /\ \A r, s \in Elements(raw.regions) :
         r # s => r.cities \cap s.cities = {} /\ NamesEn(r) \cap NamesEn(s) = {}

LoadsEntity(raw) == raw.home # "unknown" /\ raw.home \in Ids(raw.regions)

\* A governorate's own label is a place of it, "unknown" has none.
Places(gov) == IF gov.id = "unknown" THEN {} ELSE gov.places \cup {gov.label}
PlacesEn(gov) == IF gov.id = "unknown" THEN {} ELSE gov.places_en

\* A place is of one governorate, and no city of another region.
LoadsGovernorates(raw) ==
    /\ _entries(raw.governorates) /\ "unknown" \in Ids(raw.governorates)
    /\ \A g \in Elements(raw.governorates) :
         g.id = "unknown" => g.places = {} /\ g.places_en = {}
    /\ \A g, h \in Elements(raw.governorates) :
         g # h => Places(g) \cap Places(h) = {} /\ PlacesEn(g) \cap PlacesEn(h) = {}
    /\ \A g \in Elements(raw.governorates), r \in Elements(raw.regions) :
         r.id # raw.home => /\ Places(g) \cap r.cities = {}
                            /\ PlacesEn(g) \cap NamesEn(r) = {}

\* Every name a rule may look for, and what a name is: words, no separator and
\* nothing blanked among them.
PlaceNames(raw) ==
    (UNION {r.cities \cup NamesEn(r) \cup {r.label} : r \in Elements(raw.regions)})
    \cup (UNION {Places(g) \cup PlacesEn(g) : g \in Elements(raw.governorates)})
Name(n) ==
    /\ n # <<>> /\ n \in Seq(Elements(n))
    /\ \A k \in DOMAIN n : n[k] \notin Separators \cup {Blanked}

\* A rule may raise a priority, never to the first.
LoadsSignals(raw) ==
    /\ _entries(raw.signals)
    /\ \A s \in Elements(raw.signals) :
         /\ s.floor \in Ids(raw.priorities) \ {raw.priorities[1].id}
         /\ s.patterns # {}

\* load_taxonomy: whether the file is taken at all.
Loads(raw) ==
    /\ LoadsPriorities(raw) /\ LoadsCategories(raw)
    /\ LoadsRegions(raw) /\ LoadsEntity(raw) /\ LoadsGovernorates(raw)
    /\ LoadsSignals(raw)

-----------------------------------------------------------------------------
(* Lookups.                                                                *)

priority_rank(tax, id) == IF id \in Ids(tax.priorities) THEN Get(tax.priorities, id).rank ELSE 0
default_ministry(tax, c) == Get(tax.categories, c).ministry
category_of_subcategory(tax, sub) ==
    IF \E c \in Elements(tax.categories) : sub \in c.subcategories
    THEN (CHOOSE c \in Elements(tax.categories) : sub \in c.subcategories).id
    ELSE None

Occurs(text, i, name) ==
    /\ i + Len(name) - 1 <= Len(text)
    /\ \A k \in DOMAIN name : text[i + k - 1] = name[k]

Contains(text, name) == \E i \in DOMAIN text : Occurs(text, i, name)

Word(text, i) == IF i \in DOMAIN text THEN text[i] ELSE None

\* The name at i is of a road or a person, or (region_word) of the region.
_not_a_place(text, i, rule, region_word) ==
    LET before == Word(text, i - 1)
        after  == Word(text, i + Len(rule.name))
    IN  IF ~rule.latin
        THEN before \in NamePrefixes \/ (region_word /\ before \in RegionWords)
        ELSE \/ before \in PersonBefore \/ after \in RoadAfter
             \/ region_word /\ \/ after \in RegionAfter
                               \/ before = "of" /\ Word(text, i - 2) \in RegionBefore

\* An ambiguous city standing as a field of its own.
_whole_field(text, name) ==
    \/ \E i \in DOMAIN text :
         /\ Occurs(text, i, name)
         /\ Word(text, i - 1) \in Separators \cup {None}
         /\ Word(text, i + Len(name)) \in Separators \cup {None}
    \/ Occurs(text, 1, name) /\ Word(text, 1 + Len(name)) \in LeadFollower

\* The label without its leading "region".
_region_short(label) == IF Len(label) > 1 /\ label[1] = "region" THEN Tail(label) ELSE label

Rule(name, of, is_city, latin) == [name |-> name, of |-> of, is_city |-> is_city, latin |-> latin]

\* Cities, then the region's own names; the home region owns the Latin names
\* of its governorates.
_build_city_rules(raw) == UNION {
    {Rule(c, r.id, TRUE, FALSE) : c \in r.cities}
    \cup {Rule(n, r.id, FALSE, FALSE) : n \in {r.label, _region_short(r.label)}}
    \cup {Rule(n, r.id, TRUE, TRUE) : n \in r.places_en}
    \cup {Rule(n, r.id, FALSE, TRUE) : n \in LabelEn(r)}
    \cup (IF r.id = raw.home
          THEN UNION {{Rule(n, r.id, TRUE, TRUE) : n \in PlacesEn(g)} : g \in Elements(raw.governorates)}
          ELSE {})
    : r \in {q \in Elements(raw.regions) : q.id # "unknown"}}

PlaceRules(raw) == UNION {
    {Rule(n, g.id, TRUE, FALSE) : n \in Places(g)} \cup {Rule(n, g.id, TRUE, TRUE) : n \in PlacesEn(g)}
    : g \in Elements(raw.governorates)}

\* The taxonomy as it is kept once loaded: with the rules of its names.
Taxonomy(raw) ==
    [k \in DOMAIN raw \cup {"city_rules", "place_rules", "names"} |->
       CASE k = "city_rules" -> _build_city_rules(raw)
         [] k = "place_rules" -> PlaceRules(raw)
         [] k = "names" -> ((UNION {Places(g) : g \in Elements(raw.governorates)})
                            \cup (UNION {r.cities : r \in Elements(raw.regions)})) \ Ambiguous
         [] OTHER -> raw[k]]

\* Where a rule finds its name in the text.
Starts(text, rule, region_word) ==
    IF rule.name \in Ambiguous THEN IF _whole_field(text, rule.name) THEN {1} ELSE {}
    ELSE {i \in DOMAIN text : Occurs(text, i, rule.name) /\ ~_not_a_place(text, i, rule, region_word)}

Hits(text, rules, region_word) ==
    {[rule |-> r, start |-> CHOOSE i \in Starts(text, r, region_word) :
                               \A j \in Starts(text, r, region_word) : i <= j]
     : r \in {q \in rules : Starts(text, q, region_word) # {}}}

\* Unambiguous before ambiguous, a city before a region's name, the longer
\* before the shorter, the earlier before the later.
Beats(a, b) ==
    LET Sure(h) == h.rule.name \notin Ambiguous
    IN  \/ Sure(a) /\ ~Sure(b)
        \/ Sure(a) = Sure(b) /\ \/ a.rule.is_city /\ ~b.rule.is_city
                                \/ /\ a.rule.is_city = b.rule.is_city
                                   /\ \/ Len(a.rule.name) > Len(b.rule.name)
                                      \/ Len(a.rule.name) = Len(b.rule.name) /\ a.start < b.start

Best(hits) == IF hits = {} THEN None
              ELSE (CHOOSE h \in hits : \A k \in hits : ~Beats(k, h)).rule.of

region_for_city(tax, text) == Best(Hits(text, tax.city_rules, FALSE))
governorate_for_place(tax, text) == Best(Hits(text, tax.place_rules, TRUE))

regions_in(tax, text) == {h.rule.of : h \in Hits(text, tax.city_rules, FALSE)}
governorates_in(tax, text) == {h.rule.of : h \in Hits(text, tax.place_rules, TRUE)}

\* The Arabic place names that occur in the text, wherever.
places_in(tax, text) == {n \in tax.names : Contains(text, n)}
=============================================================================
