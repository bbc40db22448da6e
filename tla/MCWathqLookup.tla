---------------------------- MODULE MCWathqLookup ----------------------------
(* Small instances of WathqLookup: a company by its old number and by its     *)
(* unified one, a person, and a reference list.                               *)
EXTENDS WathqLookup

CONSTANTS t1, t2
MCThreads == {t1, t2}

MCUnified   == {"700"}
MCLegacy    == {"101"}
MCWords     == {"p1", "p2", "id", "border"}
MCUnifiedOf == [n \in MCLegacy |-> "700"]

Input(name, location, kind) ==
    [name |-> name, location |-> location, kind |-> kind, required |-> TRUE,
     personal |-> FALSE, legacyOk |-> FALSE, choices |-> {}, sandboxChoices |-> {},
     requiredIf |-> {}, pattern |-> {}, patternBy |-> {}]
Endpoint(id, inputs) ==
    [id |-> id, path |-> {i.name : i \in {j \in inputs : j.location = "path"}},
     inputs |-> inputs, language |-> FALSE, lookup |-> FALSE, inSandbox |-> TRUE,
     sandboxBase |-> TRUE, oneOf |-> {}, fixed |-> {}, view |-> "generic", inSpec |-> TRUE,
     declared |-> {<<i.name, i.location>> : i \in inputs} \cup {<<"language", "query">>}]

Info   == [Endpoint("info", {[Input("id", "path", "company_number") EXCEPT !.legacyOk = TRUE]})
             EXCEPT !.language = TRUE]
Person == Endpoint("person",
            {[Input("who", "header", "person_or_entity_id") EXCEPT !.personal = TRUE,
                !.pattern = {"p1", "p2"},
                !.patternBy = {[other |-> "type", value |-> "border", allowed |-> {"p2"}]}],
             [Input("type", "query", "id_type") EXCEPT !.choices = {"id", "border"},
                !.sandboxChoices = {"id"}]})
List   == [Endpoint("list", {}) EXCEPT !.lookup = TRUE]
MCEndpoints == {Info, Person, List}

Typed(v)  == [text |-> v, dress |-> "plain"]
Form(endpoint, inputs) ==
    [route |-> "query", endpoint |-> endpoint, inputs |-> inputs, language |-> "ar",
     from |-> "own_page"]
Who(v, k) == [n \in {"who", "type"} |-> IF n = "who" THEN Typed(v) ELSE Typed(k)]

MCForms ==
    {Form(Info, [n \in {"id"} |-> [text |-> "101", dress |-> "dressed"]]),
     Form(Person, Who("p1", "id")), Form(Person, Who("p2", "id")),
     [Form(List, <<>>) EXCEPT !.language = "en"],
     [Form(Info, [n \in {"number"} |-> Typed("101")]) EXCEPT !.route = "contract"],
     [Form(Info, [n \in {"number"} |-> Typed("700")]) EXCEPT !.route = "contract"],
     Form(Person, Who("p1", "border")), Form(Person, Who("101", "id")), Form(Info, <<>>),
     [Form(List, <<>>) EXCEPT !.from = "another_site"]}

Reply ==
    [failed |-> None, status |-> "200", code |-> None, label |-> "none", layers |-> <<>>,
     core |-> "object", charset |-> FALSE, size |-> "fits", reached |-> TRUE]
Failed(how) == [Reply EXCEPT !.failed = how, !.reached = how \in A!Reading]

MCReplies ==
    {Reply, [Reply EXCEPT !.core = "error_body", !.code = "404"],
     [Reply EXCEPT !.core = "odd_value"], [Reply EXCEPT !.size = "cut"],
     [Reply EXCEPT !.status = "404"], [Reply EXCEPT !.status = "400", !.code = "404"],
     [Reply EXCEPT !.label = "gzip", !.layers = <<"gzip", "gzip">>],
     [Reply EXCEPT !.layers = <<"gzip", "gzip", "gzip">>], [Reply EXCEPT !.label = "gzip"],
     [Reply EXCEPT !.label = "unsupported", !.layers = <<"gzip">>],
     [Reply EXCEPT !.label = "deflate", !.layers = <<"raw_deflate">>],
     [Reply EXCEPT !.core = "legacy_charset", !.charset = TRUE],
     [Reply EXCEPT !.core = "quoted_object"], [Reply EXCEPT !.core = "marked_object"],
     [Reply EXCEPT !.core = "quoted_object", !.label = "deflate"],
     [Reply EXCEPT !.core = "marked_object", !.label = "gzip"],
     [Reply EXCEPT !.core = "list", !.label = "unsupported"],
     [Reply EXCEPT !.core = "odd_value", !.label = "unsupported"],
     Failed("refused"), Failed("slow_connect"), Failed("slow_read"),
     [Failed("slow_connect") EXCEPT !.reached = TRUE]}
=============================================================================
