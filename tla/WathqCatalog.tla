---------------------------- MODULE WathqCatalog ----------------------------
(***************************************************************************)
(* wathq_catalog.py: which endpoints a catalog may offer, what a form      *)
(* filled in by a person becomes, and what of it names a cached answer.    *)
(*                                                                         *)
(* Values are abstract.  Unified and Legacy are the two series of company  *)
(* numbers, Words everything else that is typed.  A typed value carries    *)
(* its dress: "plain", or "dressed" in separators and Arabic digits.       *)
(***************************************************************************)
EXTENDS Naturals, FiniteSets

CONSTANTS Unified, Legacy, Words, Endpoints, None

ASSUME CatalogAssumption ==
    /\ Unified \cap Legacy = {} /\ (Unified \cup Legacy) \cap Words = {}
    /\ None \notin Unified \cup Legacy \cup Words

Envs      == {"production", "sandbox"}
Languages == {"ar", "en"}
Values    == Unified \cup Legacy \cup Words

-----------------------------------------------------------------------------
(* Loading: what load_catalog refuses.                                     *)

KINDS == {"unified_number", "company_number", "cr_number_any", "person_or_entity_id", "id_type",
          "boolean", "other"}
Names(e) == {i.name : i \in e.inputs}

\* An input: a known kind and place, sandbox choices among its choices.
LoadsInput(i) ==
    /\ i.kind \in KINDS
    /\ i.location \in {"path", "query", "header"}
    /\ i.sandboxChoices \subseteq i.choices

\* Every parameter sent is one the product's own spec declares, where it does.
InSpec(e) ==
    /\ e.inSpec
    /\ {<<i.name, i.location>> : i \in e.inputs} \subseteq e.declared
    /\ (e.fixed \cup (IF e.language THEN {"language"} ELSE {})) \X {"query"} \subseteq e.declared

\* An endpoint: every placeholder of its path is a path input, one company
\* number at most, references to its own inputs, one_of among optional ones.
LoadsEndpoint(e) ==
    /\ InSpec(e)
    /\ \A i \in e.inputs : LoadsInput(i)
    /\ \A i, j \in e.inputs : i.name = j.name => i = j
    /\ \A p \in e.path : \E i \in e.inputs : i.name = p /\ i.location = "path"
    /\ \A i, j \in e.inputs : {i.kind, j.kind} = {"company_number"} => i = j
    /\ \A i \in e.inputs : {r.other : r \in i.requiredIf \cup i.patternBy} \subseteq Names(e)
    /\ e.fixed \cap (Names(e) \cup {"language"}) = {}
    /\ e.view \in {"generic", "contract"}
    /\ e.oneOf # {} => /\ Cardinality(e.oneOf) >= 2
                       /\ e.oneOf \subseteq {i.name : i \in {j \in e.inputs : ~j.required}}

\* No two endpoints have one id.
load_catalog(raw) ==
    /\ raw # {}
    /\ \A e \in raw : LoadsEndpoint(e)
    /\ \A e, f \in raw : e.id = f.id => e = f

available(e, env) == env = "production" \/ (e.sandboxBase /\ e.inSandbox)

-----------------------------------------------------------------------------
(* A form: Input.clean on each value, then Catalog.request.                *)

Refused == "refused"
Strips  == KINDS \ {"id_type", "boolean", "other"}

choices_for(i, env) ==
    IF env = "sandbox" /\ i.sandboxChoices # {} THEN i.sandboxChoices ELSE i.choices

Matches(kind, v) ==
    CASE kind = "unified_number" -> v \in Unified
      [] kind \in {"company_number", "cr_number_any"} -> v \in Unified \cup Legacy
      [] kind = "boolean" -> v \in {"true", "false"}
      [] OTHER -> TRUE

\* Input.clean: nothing typed is None; separators go from some kinds only.
clean(i, raw, env) ==
    IF raw = None THEN None
    ELSE IF \/ raw.dress = "dressed" /\ i.kind \notin Strips
            \/ i.choices # {} /\ raw.text \notin choices_for(i, env)
            \/ i.choices = {} /\ ~Matches(i.kind, raw.text)
            \/ i.choices = {} /\ i.pattern # {} /\ raw.text \notin i.pattern
    THEN Refused
    ELSE raw.text

Cleaned(e, inputs, env) ==
    [n \in Names(e) |->
        IF n \in DOMAIN inputs
        THEN clean(CHOOSE i \in e.inputs : i.name = n, inputs[n], env)
        ELSE None]

\* What one input asks of the others: a stricter pattern for the kind chosen
\* beside it, or to be there at all.
FitsTheOthers(i, values) ==
    IF values[i.name] # None
    THEN \A r \in i.patternBy : values[r.other] = r.value => values[i.name] \in r.allowed
    ELSE ~i.required /\ \A r \in i.requiredIf : values[r.other] \notin r.values

\* The language is kept only where the endpoint takes one.
Request(e, inputs, language, env) ==
    [endpoint |-> e, language |-> IF e.language THEN language ELSE None,
     values   |-> Cleaned(e, inputs, env)]

Acceptable(e, inputs, language, env) ==
    LET values == Cleaned(e, inputs, env)
    IN  /\ DOMAIN inputs \subseteq Names(e)
        /\ language \in Languages
        /\ \A n \in Names(e) : values[n] # Refused
        /\ \A i \in e.inputs : FitsTheOthers(i, values)
        /\ e.oneOf # {} => \E n \in e.oneOf : values[n] # None

-----------------------------------------------------------------------------
(* What a request sends, and the name its answer is cached under.          *)

Conv(e)      == {i \in e.inputs : i.kind = "company_number"}
legacy_ok(r) == \E i \in Conv(r.endpoint) : i.legacyOk

\* An old number where the unified one is needed, or None.
conversion_value(r) ==
    IF \E i \in Conv(r.endpoint) : r.values[i.name] \in Legacy
    THEN r.values[CHOOSE n \in {i.name : i \in Conv(r.endpoint)} : TRUE]
    ELSE None

At(r, location) == {i.name : i \in {j \in r.endpoint.inputs : j.location = location}}
Filled(r, location) == {n \in At(r, location) : r.values[n] # None}

\* Request.path, query and headers: the request on the wire.
wire(r, unified) ==
    [endpoint |-> r.endpoint.id,
     path     |-> [n \in r.endpoint.path |->
                     IF unified # None /\ n \in {i.name : i \in Conv(r.endpoint)}
                     THEN unified ELSE r.values[n]],
     query    |-> [n \in Filled(r, "query") |-> r.values[n]],
     headers  |-> [n \in Filled(r, "header") |-> r.values[n]],
     language |-> r.language]

\* A bug: header parameters left out of the key.
cache_key_headless(env, r) ==
    <<env, r.endpoint.id,
      [n \in {m \in Names(r.endpoint) \ At(r, "header") : r.values[m] # None} |-> r.values[n]],
      r.language>>

\* Request.cache_key: a person's id stands in it by its keyed hash.
Hashed(i, v) == IF i.personal THEN <<"hmac", v>> ELSE v
cache_key(env, r) ==
    <<env, r.endpoint.id,
      [n \in {m \in Names(r.endpoint) : r.values[m] # None} |->
         Hashed(CHOOSE i \in r.endpoint.inputs : i.name = n, r.values[n])],
      r.language>>
=============================================================================
