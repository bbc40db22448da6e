------------------------------ MODULE Registry ------------------------------
(* The template registry (registry.py): what a registry file says, what the   *)
(* loader refuses, and what it hands to the classifier and the structurer.    *)
(*                                                                            *)
(* A written string is a record [w, marked]: w is what it says, marked that   *)
(* it is written with something the normaliser folds away (tashkeel, tatweel, *)
(* alef and hamza forms, Arabic digits, bidi marks, extra spaces).            *)
(* Normalising keeps w.  A string the classifier or the structurer compares   *)
(* is therefore a normalised one, or it matches nothing.                      *)
(*                                                                            *)
(* A raw registry is the parsed YAML: apply, types, groups, families,         *)
(* neutral (phrases), markers, templates.  Which of several errors is the one *)
(* reported is wording, so a load simply fails or succeeds.                   *)
EXTENDS Integers, Sequences, FiniteSets, FiniteSetsExt, SequencesExt, Functions

CONSTANTS
    DefaultWindow,  \* the run-up a citation marker is looked for in, in words
    None            \* an absent optional key

ASSUME WindowAssumption == DefaultWindow \in Nat \ {0}

IsList(s) == s \in Seq(Range(s))

(* Some of the places of a list, in ascending order, and what stands there.   *)
Ascending(S) ==
    [p \in 1..Cardinality(S) |-> CHOOSE i \in S : Cardinality({j \in S : j <= i}) = p]
Kept(s, S) == [p \in 1..Cardinality(S) |-> s[Ascending(S)[p]]]

Written(w) == [w |-> w, marked |-> FALSE]
Ornate(w) == [w |-> w, marked |-> TRUE]

normalize(s) == s.w
(* What a string is in a comparison nothing normalised it for.              *)
Verbatim(s) == IF s.marked THEN "~" \o s.w ELSE s.w
Normal(strings) == {normalize(s) : s \in strings}
(* A string made only of what the normaliser drops is no phrase to look for. *)
Phrases(strings) == Normal(strings) \ {""}

-----------------------------------------------------------------------------
(* Labels.  A role's label is its field's base label with the possessor      *)
(* attached; the base label alone is shared by every role of the group.      *)
compose_idafa(base, possessor) ==
    IF possessor = None THEN <<base>> ELSE <<base, possessor>>

(* A label matches through its normalised twin, so marks on either part go.  *)
LabelNorm(label) == [i \in DOMAIN label |-> normalize(label[i])]

(* One group field for one instance of the group (inst), or for none.        *)
Instance(ref, group, spec, inst) ==
    [prefix |-> IF inst = None THEN None ELSE inst.prefix,
     role |-> IF inst = None THEN None ELSE inst.role,
     require |-> IF inst = None THEN ref.require ELSE inst.require,
     section |-> IF inst = None
                 THEN (IF ref.section = None THEN spec.section ELSE ref.section)
                 ELSE (IF inst.section = None THEN spec.section ELSE inst.section),
     repeatable |-> IF inst = None \/ inst.repeatable = None
                    THEN spec.repeatable ELSE inst.repeatable,
     source |-> group]

Key(prefix, key) == IF prefix = None THEN key ELSE prefix \o "_" \o key

_resolve_group_field(f, at, legacy) ==
    [key |-> Key(at.prefix, f.key),
     type |-> f.type,
     section |-> normalize(at.section),
     required |-> f.key \in at.require,
     repeatable |-> at.repeatable,
     label |-> LabelNorm(compose_idafa(f.label, at.role)),
     aliases |-> IF at.role = None THEN {<<normalize(a)>> : a \in f.aliases} ELSE {},
     shared |-> IF at.role = None THEN {}
                ELSE {<<normalize(a)>> : a \in {f.label} \cup f.aliases},
     values |-> Normal(f.values),
     role |-> at.role,
     source |-> at.source,
     fallback |-> IF legacy /\ f.type = "deed_number"
                  THEN {"legacy_deed_number"} ELSE {}]

_resolve_local_field(f) ==
    [_resolve_group_field(f, [prefix |-> None, role |-> None, section |-> f.section,
                  require |-> IF f.required THEN {f.key} ELSE {},
                  repeatable |-> f.repeatable, source |-> "local"], FALSE)
        EXCEPT !.aliases = {<<normalize(a)>> : a \in f.aliases}]

-----------------------------------------------------------------------------
(* A group reference as the loader expands it: once per instance, or once.   *)
Places(ref, groups) ==
    LET at(inst) == Instance(ref, ref.use, groups[ref.use], inst)
    IN IF ref.instances = <<>> THEN <<at(None)>>
       ELSE [i \in DOMAIN ref.instances |-> at(ref.instances[i])]

UsesLegacy(t) == \E i \in DOMAIN t.groups : t.groups[i].use = "legacy_register"

GroupFields(t, groups) ==
    FlattenSeq([r \in DOMAIN t.groups |->
        FlattenSeq([i \in DOMAIN Places(t.groups[r], groups) |->
            LET spec == groups[t.groups[r].use].fields
                at == Places(t.groups[r], groups)[i]
            IN [k \in DOMAIN spec |->
                    _resolve_group_field(spec[k], at, UsesLegacy(t))]])])

(* The template's fields, in the order the loader claims their keys.         *)
_expand_template_fields(t, groups) ==
    GroupFields(t, groups)
        \o [i \in DOMAIN t.fields |-> _resolve_local_field(t.fields[i])]

(* A reference must name a group that exists, use only the keys that are     *)
(* honoured for its form, and require only fields the group has.             *)
RefHonoured(ref, groups) ==
    /\ ref.use \in DOMAIN groups
    /\ LET spec == groups[ref.use]
           keys == {spec.fields[i].key : i \in DOMAIN spec.fields}
       IN IF ref.instances # <<>>
          THEN /\ spec.instantiable
               /\ ref.require = {} /\ ref.section = None
               /\ \A i \in DOMAIN ref.instances :
                    /\ ref.instances[i].prefix # None
                    /\ ref.instances[i].require \subseteq keys
          ELSE ref.require \subseteq keys

RefsHonoured(t, groups) ==
    \A i \in DOMAIN t.groups : RefHonoured(t.groups[i], groups)

KeysUnique(t, groups) ==
    LET fs == _expand_template_fields(t, groups)
    IN \A i, j \in DOMAIN fs : fs[i].key = fs[j].key => i = j

(* A bug: any gate loads.                                                    *)
GatesDeclared_any(t) == TRUE

(* A gate on a section the template does not declare could never open.       *)
GatesDeclared(t) ==
    \A a \in Range(t.anchors) : Normal(a.in_section) \subseteq Normal(t.sections)

(* Patterns are compiled as written: one that is not already in normalised   *)
(* form is refused, because it could match no normalised page.               *)
RegexesNormal(t) == \A r \in Range(t.anchor_regexes) : ~r.pattern.marked

FamiliesKnown(t, families) ==
    /\ t.family # <<>>
    /\ Range(t.family) \subseteq {families[i].id : i \in DOMAIN families}

_validate_types(t, raw) ==
    \A f \in Range(_expand_template_fields(t, raw.groups)) :
        /\ f.type \in DOMAIN raw.types
        /\ f.fallback \cup raw.types[f.type].fallback \subseteq DOMAIN raw.types
        /\ f.type = "enum" => f.values # {}

MembersKnown(raw) ==
    \A i \in DOMAIN raw.families :
        raw.families[i].members \subseteq
            {raw.templates[j].id : j \in DOMAIN raw.templates}

Distinct(s) == \A i, j \in DOMAIN s : s[i].id = s[j].id => i = j

Loads(raw) ==
    /\ raw.apply
    /\ DOMAIN raw.types # {}
    /\ \A n \in DOMAIN raw.types : raw.types[n].compiles
    /\ Distinct(raw.families) /\ Distinct(raw.templates)
    /\ raw.templates # <<>>
    /\ \A i \in DOMAIN raw.templates :
        LET t == raw.templates[i]
        IN /\ FamiliesKnown(t, raw.families)
           /\ RegexesNormal(t)
           /\ RefsHonoured(t, raw.groups)
           /\ KeysUnique(t, raw.groups)
           /\ GatesDeclared(t)
           /\ _validate_types(t, raw)
    /\ MembersKnown(raw)

-----------------------------------------------------------------------------
(* Every string an anchor is matched with is normalised, one that normalises *)
(* away among them, and an anchor whose text is a neutral phrase never       *)
(* scores.  Its own distances are any whole number, as the file has them.    *)
_build_anchors(a, neutral) ==
    [text |-> normalize(a.text),
     weight |-> IF normalize(a.text) \in neutral THEN 0 ELSE a.weight,
     group |-> a.group,
     voice |-> a.voice,
     window |-> IF a.window = None THEN DefaultWindow ELSE a.window,
     not_preceded_by |-> Normal(a.not_preceded_by),
     co_occurs_with |-> Normal(a.co_occurs_with),
     within |-> a.within,
     in_section |-> Normal(a.in_section)]

(* A pattern is matched as it is written, and scores as no anchor does.      *)
_build_regexes(r) ==
    [text |-> Verbatim(r.pattern), weight |-> r.weight, voice |-> r.voice,
     group |-> IF r.group = None THEN "__re_" \o r.pattern.w ELSE r.group]

(* Blank headings, citation markers and negative phrases are passed over.    *)
Template(t, raw) ==
    [id |-> t.id,
     families |-> t.family,
     sections |-> Phrases(t.sections),
     anchors |-> {_build_anchors(a, Phrases(raw.neutral)) : a \in Range(t.anchors)},
     anchor_regexes |-> {_build_regexes(r) : r \in Range(t.anchor_regexes)},
     negative_anchors |-> Phrases(t.negative_anchors),
     fields |-> _expand_template_fields(t, raw.groups)]

load_registry(raw) ==
    [families |-> [f \in {raw.families[i].id : i \in DOMAIN raw.families} |->
        LET i == CHOOSE i \in DOMAIN raw.families : raw.families[i].id = f
        IN raw.families[i].members],
     templates |-> [i \in DOMAIN raw.templates |-> Template(raw.templates[i], raw)],
     types |-> raw.types,
     markers |-> Phrases(raw.markers)]

Ids(reg) == {reg.templates[i].id : i \in DOMAIN reg.templates}
Get(reg, id) == CHOOSE t \in Range(reg.templates) : t.id = id

required_fields(t) == Kept(t.fields, {i \in DOMAIN t.fields : t.fields[i].required})
optional_fields(t) == Kept(t.fields, {i \in DOMAIN t.fields : ~t.fields[i].required})

scoring_anchors(t) == {a \in t.anchors : a.weight > 0}

(* The best weight each scoring group of the given hits reaches, summed: as  *)
(* many pairs of a group and a number as each group's best weight.           *)
GroupOf(h) == IF h.group = None THEN "__" \o h.text ELSE h.group
MaxPerGroup(hits) == Cardinality(UNION {{GroupOf(h)} \X (1..h.weight) : h \in hits})

max_possible_score(t) == MaxPerGroup(scoring_anchors(t) \cup t.anchor_regexes)

(* What an extracted value is to a field: the enum is checked before the     *)
(* pattern chain, which ends with "ok" at the first type without a pattern.  *)
Field_validate(f, value, types) ==
    IF value = None THEN "empty"
    ELSE IF f.type = "enum"
    THEN (IF f.values = {} \/ value.w \in f.values THEN "ok" ELSE "mismatch")
    ELSE LET chain == {f.type} \cup types[f.type].fallback \cup f.fallback
         IN IF \E n \in chain \cap DOMAIN types :
                    types[n].matches = None \/ value.w \in types[n].matches
            THEN "ok" ELSE "mismatch"
=============================================================================
