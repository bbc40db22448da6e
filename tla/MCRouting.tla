------------------------------ MODULE MCRouting ------------------------------
(* A registry of two families and three templates — a sale deed, an          *)
(* inheritance deed and a will — with every gate the classifier knows, the   *)
(* broken files maintainers could leave behind, and the pages that tell the  *)
(* gates apart.                                                              *)
EXTENDS Routing

W(w) == Written(w)
AnchorOf(phrase, weight, group) ==
    [text |-> W(phrase), weight |-> weight, group |-> group, voice |-> "operative",
     window |-> None, not_preceded_by |-> {}, co_occurs_with |-> {}, within |-> None,
     in_section |-> {}]
FieldOf(key, type) ==
    [key |-> key, type |-> type, label |-> W(key), aliases |-> {}, values |-> {},
     required |-> FALSE, repeatable |-> FALSE, section |-> W("parties")]
Inst(prefix, require) ==
    [prefix |-> prefix, role |-> W(prefix), require |-> require, section |-> None,
     repeatable |-> None]
Ref(use, require, instances) ==
    [use |-> use, require |-> require, section |-> None, instances |-> instances]
Type(fallback, matches) == [compiles |-> TRUE, fallback |-> fallback, matches |-> matches]

Sale ==
    [id |-> "sale", family |-> <<"property">>, sections |-> {Ornate("ruling"), W("parties")},
     groups |-> <<Ref("person", {}, <<Inst("seller", {"name"}), Inst("buyer", {})>>),
                  Ref("legacy_register", {"number"}, <<>>)>>,
     fields |-> <<FieldOf("price", "text")>>,
     anchors |-> <<AnchorOf("sale deed", 3, "title"), AnchorOf("deed", 2, "title"),
                   [AnchorOf("owned", 3, None) EXCEPT !.text = Ornate("owned"),
                        !.in_section = {W("ruling")}],
                   AnchorOf("kingdom", 3, None)>>,
     anchor_regexes |-> <<>>, negative_anchors |-> {W("bequest")}]
Estate ==
    [Sale EXCEPT !.id = "estate", !.family = <<"estates">>,
        !.groups = <<Ref("person", {"name"}, <<>>)>>,
        !.anchors = <<[AnchorOf("heirs deed", 3, "title") EXCEPT
                            !.not_preceded_by = {W("under")}],
                      [AnchorOf("confined", 3, None) EXCEPT
                            !.voice = "any", !.co_occurs_with = {W("heirs")}]>>,
        !.anchor_regexes = <<[pattern |-> W("clause"), weight |-> 1, group |-> None,
                              voice |-> "operative"]>>,
        !.negative_anchors = {}]
Will ==
    [Estate EXCEPT !.id = "will", !.anchors = <<AnchorOf("bequest", 3, None),
        AnchorOf("clause", 1, "g"), AnchorOf("deed", 2, "g")>>,
        !.anchor_regexes = <<>>]

Good ==
    [apply |-> TRUE,
     types |-> [n \in {"text", "deed_number", "legacy_deed_number"} |->
                IF n = "text" THEN Type({}, None) ELSE Type({}, {"7"})],
     groups |-> [g \in {"person", "legacy_register"} |->
        [fields |-> IF g = "person" THEN <<FieldOf("name", "text"), FieldOf("id", "text")>>
                    ELSE <<FieldOf("number", "deed_number")>>,
         repeatable |-> FALSE, instantiable |-> g = "person", section |-> W("parties")]],
     families |-> <<[id |-> "property", members |-> {"sale"}],
                    [id |-> "estates", members |-> {"estate", "will"}]>>,
     neutral |-> {Ornate("kingdom")},
     markers |-> {W("under")},
     templates |-> <<Sale, Estate, Will>>]

MCRaws ==
    {Good,
     \* without the will: a shorter registry, still sound
     [Good EXCEPT !.templates = <<Sale, Estate>>, !.families[2].members = {"estate"}],
     \* the will removed from the templates, left in its family
     [Good EXCEPT !.templates = <<Sale, Estate>>],
     \* readable Arabic that load-time normalisation may not touch
     [Good EXCEPT !.apply = FALSE],
     \* a gate on a section the template does not declare
     [Good EXCEPT !.templates[1].sections = {W("parties")}],
     \* a pattern not in normalised form
     [Good EXCEPT !.templates[2].anchor_regexes[1].pattern = Ornate("ornate clause")],
     \* require: written beside instances:, on the reference itself
     [Good EXCEPT !.templates[1].groups[1] =
        Ref("person", {"id"}, <<Inst("seller", {}), Inst("buyer", {})>>)],
     \* require: names no field of the group
     [Good EXCEPT !.templates[2].groups[1].require = {"nmae"}],
     \* two roles with one prefix
     [Good EXCEPT !.templates[1].groups[1].instances[2].prefix = "seller"],
     \* a companion to be found within no distance, within less than none, within
     \* a phrase, and in the anchor's own words: all four load, two never fire
     [Good EXCEPT !.templates[2].anchors[2].within = 0],
     [Good EXCEPT !.templates[2].anchors[2].within = 0 - 1],
     [Good EXCEPT !.templates[2].anchors[2].within = 1],
     [Good EXCEPT !.templates[2].anchors[1].within = 0,
                  !.templates[2].anchors[1].co_occurs_with = {W("heirs")}],
     \* a run-up, a heading and a companion that normalise away
     [Good EXCEPT !.templates[3].anchors[1].not_preceded_by = {W("")},
                  !.templates[3].anchors[2].co_occurs_with = {W("")},
                  !.templates[1].sections = {W("ruling"), W("parties"), W("")},
                  !.templates[1].anchors[1].in_section = {W("")}],
     \* an anchor that is a heading of its own, gated to another one
     [Good EXCEPT !.templates[1].sections = {W("ruling"), W("parties"), W("owned")}]}

MCTexts ==
    {<<W("sale deed"), W("owned")>>,
     <<Ornate("sale deed"), W("ruling"), Ornate("owned")>>,
     <<W("sale deed"), W("ruling"), W("owned")>>,
     <<W("heirs deed"), W("under"), W("sale deed")>>,
     <<W("under"), W("heirs deed"), W("kingdom"), W("deed")>>,
     <<W("heirs"), W("confined"), W("clause")>>,
     <<W("bequest"), W("deed"), W("clause")>>,
     <<W("kingdom"), W("ornate clause")>>,
     <<W("under"), W("bequest")>>,
     <<W("clause"), W("kingdom")>>}
MCPartOf == {<<"deed", "sale deed">>, <<"deed", "heirs deed">>, <<"clause", "ornate clause">>,
             <<"heirs", "heirs deed">>}
MCConfidences == {0, 4900, 5000, 8700, 8800, 10000}
=============================================================================
