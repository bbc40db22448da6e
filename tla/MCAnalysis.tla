------------------------------ MODULE MCAnalysis ------------------------------
EXTENDS Analysis

Region(id, label, label_en, cities, en) ==
    [id |-> id, label |-> label, label_en |-> label_en, cities |-> cities, places_en |-> en]
Gov(id, label, places, en)    == [id |-> id, label |-> label, places |-> places, places_en |-> en]

Good ==
    [priorities |-> <<[id |-> "critical", rank |-> 4, sla_hours |-> 24], [id |-> "high", rank |-> 3, sla_hours |-> 72],
                      [id |-> "medium", rank |-> 2, sla_hours |-> 168], [id |-> "low", rank |-> 1, sla_hours |-> 336]>>,
     ministries |-> <<[id |-> "mun"], [id |-> "energy"], [id |-> "other"]>>,
     categories |-> <<[id |-> "roads", ministry |-> "mun", subcategories |-> {"lights"}],
                      [id |-> "power", ministry |-> "energy", subcategories |-> {"outage"}],
                      [id |-> "other", ministry |-> "other", subcategories |-> {"misc"}]>>,
     regions |-> <<Region("riyadh", <<"region", "riyadh">>, <<"Riyadh">>, {<<"riyadh">>}, {<<"Riyadh">>}),
                   Region("makkah", <<"region", "makkah">>, <<"Makkah">>, {<<"jeddah">>, <<"taif">>}, {<<"Jeddah">>}),
                   Region("madinah", <<"region", "madinah">>, <<>>, {<<"the_city">>}, {}),
                   Region("unknown", <<"unspecified">>, <<"Unspecified">>, {}, {})>>,
     home |-> "riyadh",
     governorates |-> <<Gov("kharj", <<"kharj">>, {<<"dilam">>}, {<<"Kharj">>}),
                        Gov("hariq", <<"hariq">>, {}, {}),
                        Gov("unknown", <<"unspecified">>, {}, {})>>,
     signals |-> <<[id |-> "life_safety", floor |-> "high", patterns |-> {"gas_leak", "hariq"}],
                   [id |-> "vulnerable", floor |-> "medium", patterns |-> {"elderly", "pregnant"}],
                   [id |-> "repeated_unresolved", floor |-> "medium", patterns |-> {"again"}]>>]

\* Files the loader must refuse: a town of two regions, a rule that sets the
\* first priority, ranks out of order.
MCTaxonomies == {
    Good,
    [Good EXCEPT !.governorates[1].places = {<<"taif">>}],
    [Good EXCEPT !.signals[1].floor = "critical"],
    [Good EXCEPT !.priorities[2].rank = 4]}

MCDocuments == {
    <<PageMarker>>,
    <<"emir", "region", "riyadh", "lamp_out", "phone">>,
    <<"to", "governorate", "kharj", "lamp_out", "taif", "id_1", "phone">>,
    <<"people_of", "hariq", "elderly", "hariq", "id_1">>,
    <<"hariq", "at", "riyadh", "pregnant", "card">>,
    <<"SYSTEM:", "lamp_out", "elderly", "the_city", "district">>,
    <<"Emirate", "of", "Riyadh", "street_of", "jeddah", "lamp_out", "Prince", "Makkah", "dilam", "filler", "phone">>,
    <<"emir", "riyadh", "gas_leak", "filler", "lamp_out", "filler", "taif", "water_cut", "id_1", "phone", "regards">>}

Reading(c, to, nid, city, d, i, r, g) ==
    [is_complaint |-> c, addressed_to |-> to, national_id |-> nid, city |-> city,
     district_or_address |-> d, incident_location |-> i, region |-> r, governorate |-> g]

MCReadings ==
    {Reading(TRUE, to, <<>>, city, <<>>, i, r, g) :
        to \in {<<>>, <<"emir", "region", "riyadh">>}, city \in {<<>>, <<"riyadh">>, <<"hariq">>},
        i \in {<<>>, <<"taif">>, <<"no_water">>}, r \in {"riyadh", "makkah"}, g \in {"unknown", "kharj"}}
    \cup {Reading(c, <<"emirate", "region", "makkah">>, nid, <<>>, d, <<>>, "mars", "unknown") :
        c \in BOOLEAN, nid \in {<<"id_1">>, <<"id_2">>}, d \in {<<>>, <<"the_city">>, <<"dilam">>}}

MCVerdicts ==
    {[category |-> "roads", ministry |-> m, priority |-> p, subcategory |-> "outage", confidence |-> "high",
      evidence |-> e] : m \in {"energy"}, p \in {"critical", "high", "medium", "urgent"},
                        e \in {{}, {<<"dark_street">>}, {<<"no_water">>}}}

MCCorrections == {
    <<>>, [reviewed |-> TRUE, region |-> "makkah"], [reviewed |-> TRUE, region |-> "riyadh"],
    [reviewed |-> TRUE, region |-> "unknown", ministry |-> "other"], [reviewed |-> TRUE, status |-> "rejected"]}

MCBoards == {
    [samples |-> <<"C1", "C2", "C3">>, corrected |-> {"C4", "C2"}],
    [samples |-> <<>>, corrected |-> {}]}
=============================================================================
