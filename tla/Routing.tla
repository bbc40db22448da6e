------------------------------- MODULE Routing -------------------------------
(* Routing one document to a template (classify.py) in the app server that   *)
(* serves /classify from the registry it loaded at startup (app.py).         *)
(*                                                                           *)
(* A page text is a sequence of written words.  Scores and confidences are   *)
(* in ten-thousandths; a score is rounded down, so two that differ by less   *)
(* than one ten-thousandth are one.  The model is external: a call raises,   *)
(* answers nothing usable, or answers within the enum it was sent.           *)
EXTENDS Registry

CONSTANTS
    RAWS,           \* the registry files a maintainer may leave on disk
    TEXTS,          \* the documents sent to /classify
    CONFIDENCES,    \* what the model may say of its own answer
    PartOf,         \* <<a, b>>: the phrase a is printed inside the phrase b
    Filler,         \* a word no registry file names
    Within,         \* co_occurs_with without its own distance, in words
    MIN_SCORE, MIN_MARGIN, MIN_CONFIDENCE, FLOOR, REVIEW,   \* tier thresholds
    MaxEdits        \* bound: how often the file changes under the server

One == 10000

(* Gates and thresholds as ksa_deeds.yaml sets them; what a model says of     *)
(* itself is clamped to 0..1 (classify.py, _as_float).                        *)
Strings == [w : STRING, marked : BOOLEAN]
ASSUME TierAssumption ==
    /\ MIN_SCORE \in 1..One /\ FLOOR \in 0..MIN_SCORE
    /\ MIN_MARGIN \in Int /\ MIN_CONFIDENCE \in Int /\ REVIEW \in Int
    /\ CONFIDENCES \subseteq 0..One
    /\ Within \in Nat \ {0}

(* Pages are sequences of written words, lists of a registry file are lists,  *)
(* weights, windows and distances are whole numbers (registry.py, _int).      *)
ASSUME FileAssumption ==
    /\ \A t \in TEXTS : t \in Seq(Strings)
    /\ \A raw \in RAWS :
        /\ Loads(raw) => load_registry(raw) # None
        /\ IsList(raw.templates)
        /\ \A g \in DOMAIN raw.groups : IsList(raw.groups[g].fields)
        /\ \A i \in DOMAIN raw.templates :
            LET t == raw.templates[i]
            IN /\ IsList(t.anchors) /\ IsList(t.anchor_regexes)
               /\ IsList(t.groups) /\ IsList(t.fields)
               /\ \A r \in Range(t.groups) : IsList(r.instances) /\ None \notin Range(r.instances)
               /\ IsFiniteSet(t.negative_anchors)
               /\ \A a \in Range(t.anchors) :
                    /\ a.weight \in Int
                    /\ a.window \in Int \cup {None} /\ a.within \in Int \cup {None}
                    /\ None \notin Normal(a.in_section)
               /\ \A r \in Range(t.anchor_regexes) : r.weight \in Int

(* The files name finitely many phrases: some word is none of them.           *)
ASSUME FillerAssumption ==
    /\ \A part \in PartOf : part[2] # Filler
    /\ \A raw \in RAWS :
        /\ Filler \notin Normal(raw.markers)
        /\ \A t \in Range(raw.templates) :
            /\ Filler \notin Normal(t.sections)
            /\ \A a \in Range(t.anchors) : Filler \notin Normal(a.not_preceded_by)

Unknown == "unknown"
FALLBACK == "generic_document"

-----------------------------------------------------------------------------
(* Rules tier.                                                               *)
(* Registry strings are matched against the page as the OCR wrote it.        *)

Text(written) == [i \in DOMAIN written |-> normalize(written[i])]

_iter_hits(text, needle) ==
    {i \in DOMAIN text : text[i] = needle \/ <<needle, text[i]>> \in PartOf}

Occurs(text, needles, from, to) ==
    \E n \in needles : \E i \in _iter_hits(text, n) : from <= i /\ i <= to

(* The heading a position stands under: the last one printed at or before it. *)
_section_at(text, sections, pos) ==
    LET heads == {i \in DOMAIN text : i <= pos /\ text[i] \in sections}
    IN IF heads = {} THEN None ELSE text[Max(heads)]

(* The shared citation markers are left to the anchor's own list.            *)
NotBefore_own(a, markers) == a.not_preceded_by

NotBefore(a, markers) ==
    a.not_preceded_by \cup (IF a.voice = "operative" THEN markers ELSE {})

(* A companion stands in the anchor's own words, or a phrase away at least:   *)
(* a distance no whole phrase fits in is 0 here, and a negative one leaves    *)
(* less than the anchor itself.  A companion that normalised away is none.    *)
Reach(a) == IF a.within = None THEN Within ELSE a.within
InOwnWords(a, c) == Reach(a) >= 0 /\ (c = a.text \/ <<c, a.text>> \in PartOf)

Beside(a, text, pos) ==
    \E c \in a.co_occurs_with \ {""} :
        \/ InOwnWords(a, c)
        \/ Reach(a) >= 1 /\ Occurs(text, {c}, pos - Reach(a), pos + Reach(a))

(* Every run-up holds an own not_preceded_by that normalised away.            *)
Survives(a, text, sections, markers, pos) ==
    /\ "" \notin a.not_preceded_by
    /\ ~Occurs(text, NotBefore(a, markers), pos - a.window, pos - 1)
    /\ a.co_occurs_with # {} => Beside(a, text, pos)
    /\ a.in_section # {} => _section_at(text, sections, pos) \in a.in_section

_anchor_fires(a, text, sections, markers) ==
    /\ a.text # ""
    /\ \E pos \in _iter_hits(text, a.text) : Survives(a, text, sections, markers, pos)

_regex_fires(rx, text, markers) ==
    \E pos \in _iter_hits(text, rx.text) :
        rx.voice = "operative" =>
            ~Occurs(text, markers, pos - DefaultWindow, pos - 1)

Hits(text, t, reg) ==
    {a \in scoring_anchors(t) : _anchor_fires(a, text, t.sections, reg.markers)}
        \cup {rx \in t.anchor_regexes : _regex_fires(rx, text, reg.markers)}

Raw(hits) == MaxPerGroup(hits)
Penalty(n) == Min({3000 * n, 6000})

score_template(text, t, reg) ==
    LET ceiling == Max({1, max_possible_score(t)})
        score == (Raw(Hits(text, t, reg)) * One) \div ceiling
        negatives == {n \in t.negative_anchors : _iter_hits(text, n) # {}}
    IN (score * (One - Penalty(Cardinality(negatives)))) \div One

(* Templates by score, best first; equal scores keep the registry's order.   *)
Ahead(a, b) == a.score > b.score \/ (a.score = b.score /\ a.at <= b.at)

Scored(text, reg) ==
    {[id |-> reg.templates[i].id, at |-> i,
      score |-> score_template(text, reg.templates[i], reg)] : i \in DOMAIN reg.templates}
PlaceIn(scored, c) == Cardinality({d \in scored : Ahead(d, c)})

rank(text, reg) ==
    LET scored == Scored(text, reg)
    IN [p \in 1..Cardinality(scored) |-> CHOOSE c \in scored : PlaceIn(scored, c) = p]

Margin(ranked) ==
    IF Len(ranked) > 1 THEN ranked[1].score - ranked[2].score ELSE ranked[1].score

rules_ok(ranked) ==
    ranked[1].score >= MIN_SCORE /\ Margin(ranked) >= MIN_MARGIN

-----------------------------------------------------------------------------
(* The verdict.                                                              *)
NoAnswer == [family |-> Unknown, id |-> "", confidence |-> 0]

llm_ok(llm, reg) ==
    llm.id \notin {"", Unknown} /\ llm.id \in Ids(reg) /\ llm.confidence >= MIN_CONFIDENCE

Agrees(top, llm) == llm.id = top.id /\ top.score >= FLOOR
Capped(n) == Min({One, n})

classify(ranked, llm, reg, error) ==
    LET top == ranked[1]
        ok == llm_ok(llm, reg)
        verdict(id, confidence, source) ==
            [template_id |-> id, confidence |-> confidence, source |-> source,
             corroborated |-> source = "llm+rules",
             needs_review |-> source = "fallback" \/ confidence < REVIEW,
             error |-> error]
    IN IF ok /\ Agrees(top, llm)
       THEN verdict(llm.id,
                    Capped((6 * llm.confidence + 4 * top.score) \div 10 + 2000),
                    "llm+rules")
       ELSE IF ok
       THEN verdict(llm.id, (llm.confidence * 8) \div 10, "llm")
       ELSE IF rules_ok(ranked)
       THEN verdict(top.id, top.score, "rules")
       ELSE verdict(FALLBACK,
                    Max({IF llm.id # "" THEN llm.confidence ELSE 0, top.score}),
                    "fallback")

-----------------------------------------------------------------------------
VARIABLES
    file,       \* the registry file on disk
    edits,      \* how often it changed
    registry,   \* the registry get_registry() cached in this process, or None
    stage,      \* "down", "idle", or where the /classify request is
    page,       \* the request's text
    llm,        \* what the model's two stages said so far
    verdict     \* the last answer, or None

routingVars == <<file, edits, registry, stage, page, llm, verdict>>

RoutingInit ==
    /\ file \in RAWS
    /\ edits = 0
    /\ registry = None
    /\ stage = "down"
    /\ page = <<>>
    /\ llm = NoAnswer
    /\ verdict = None

(* A maintainer saves the YAML, whether or not the server is running.        *)
Edit ==
    /\ edits < MaxEdits
    /\ edits' = edits + 1
    /\ file' \in RAWS \ {file}
    /\ UNCHANGED <<registry, stage, page, llm, verdict>>

(* The process-wide cache: parsed once, then the same object for every call. *)
get_registry(cached) == IF cached = None THEN load_registry(file) ELSE cached
(* A registry that does not load stops the boot.                             *)
Startup ==
    /\ stage = "down"
    /\ Loads(file)
    /\ registry' = get_registry(registry)
    /\ stage' = "idle"
    /\ UNCHANGED <<file, edits, page, llm, verdict>>

Stop ==
    /\ stage = "idle"
    /\ stage' = "down"
    /\ registry' = None
    /\ verdict' = None
    /\ page' = <<>>
    /\ UNCHANGED <<file, edits, llm>>

ClassifyPage(t) ==
    /\ stage = "idle"
    /\ registry' = get_registry(registry)
    /\ page' = t
    /\ llm' = NoAnswer
    /\ verdict' = None
    /\ stage' = "family"
    /\ UNCHANGED <<file, edits>>

Ranked == rank(Text(page), registry)

Decide(answer, error) ==
    /\ llm' = answer
    /\ verdict' = classify(Ranked, answer, registry, error)
    /\ stage' = "idle"
    /\ UNCHANGED <<file, edits, registry, page>>

(* A call that raises ends the model's part; the rules tier still answers.   *)
Raises == stage \in {"family", "template"} /\ Decide(NoAnswer, TRUE)

(* Stage 1: an answer that does not parse is no family.                      *)
Family ==
    /\ stage = "family"
    /\ \E f \in DOMAIN registry.families \cup {Unknown} :
        llm' = [NoAnswer EXCEPT !.family = f]
    /\ stage' = "template"
    /\ UNCHANGED <<file, edits, registry, page, verdict>>

(* Stage 2 sees the family's members, or everything when stage 1 abstained.  *)
Candidates(family) ==
    IF family \in DOMAIN registry.families THEN registry.families[family] \cap Ids(registry)
    ELSE Ids(registry)
Choice ==
    /\ stage = "template"
    /\ \/ \E id \in Candidates(llm.family) \cup {Unknown}, c \in CONFIDENCES :
            Decide([llm EXCEPT !.id = id, !.confidence = c], FALSE)
       \/ Decide(llm, FALSE)

RoutingNext ==
    \/ Edit \/ Startup \/ Stop
    \/ \E t \in TEXTS : ClassifyPage(t)
    \/ Raises \/ Family \/ Choice

RoutingSpec == RoutingInit /\ [][RoutingNext]_routingVars

-----------------------------------------------------------------------------
Patterns ==
    {x.pattern.w : x \in UNION {Range(t.anchor_regexes) :
                        t \in UNION {Range(raw.templates) : raw \in RAWS}}}

(* What a file can write into an anchor that nothing fires past, and that the *)
(* loader takes: a text, a run-up or a heading that normalises away, or       *)
(* companions its own distance leaves no room for.                            *)
Stifled(a) ==
    \/ a.text = "" \/ "" \in a.not_preceded_by \/ a.in_section = {""}
    \/ /\ a.co_occurs_with # {}
       /\ \A c \in a.co_occurs_with \ {""} : Reach(a) < 1 /\ ~InOwnWords(a, c)

(* An anchor that is itself a heading, and not one it asks to stand under.    *)
Shadowed(a, sections) == a.in_section # {} /\ a.text \in sections \ a.in_section

(* The page an anchor asks for: a heading s, a run-up of words that say       *)
(* nothing, the anchor, and its companion c.                                  *)
RunUp(a) == Max({0, a.window})
PageFor(a, s, c) ==
    [i \in 1..(RunUp(a) + 3) |->
        CASE i = 1 -> s [] i = RunUp(a) + 2 -> a.text [] i = RunUp(a) + 3 -> c [] OTHER -> Filler]

(* A scoring anchor fires on the page it asks for unless it is one of those   *)
(* the loader should have refused; those that are stifled fire on no page.    *)
(* Every pattern matches some normalised text (registry.py, load-time checks).*)
EveryAnchorCanFire ==
    registry # None =>
        \A t \in Range(registry.templates) :
            /\ \A a \in scoring_anchors(t) :
                IF Stifled(a)
                THEN \A x \in TEXTS : ~_anchor_fires(a, Text(x), t.sections, registry.markers)
                ELSE \/ Shadowed(a, t.sections)
                     \/ \E s \in a.in_section \cup {Filler}, c \in a.co_occurs_with \cup {Filler} :
                            _anchor_fires(a, PageFor(a, s, c), t.sections, registry.markers)
            /\ \A r \in t.anchor_regexes : r.text \in Patterns

(* Every field a reference or an instance requires comes out required — not  *)
(* silently optional (registry.py, _expand_template_fields).                 *)
RequiredStaysRequired ==
    registry # None =>
        \E raw \in RAWS : load_registry(raw) = registry /\
            \A i \in DOMAIN raw.templates :
                LET fs == Range(registry.templates[i].fields)
                    asked(r) == r.require \cup UNION {x.require : x \in Range(r.instances)}
                IN \A r \in Range(raw.templates[i].groups) : \A k \in asked(r) :
                    /\ \E f \in fs : f.required /\ f.source = r.use
                    /\ \A x \in Range(r.instances) : k \in x.require =>
                        \E f \in fs : f.required /\ f.key = Key(x.prefix, k)

(* The same page written with marks, or without, gets the same answer: a     *)
(* string of the registry is never dead because of how either side is        *)
(* written (registry.py, "an un-normalised string can never match").         *)
MarksDoNotMatter ==
    verdict # None =>
        \A other \in {x \in TEXTS : [i \in DOMAIN x |-> x[i].w] = [i \in DOMAIN page |-> page[i].w]} :
            classify(rank(Text(other), registry), llm, registry, verdict.error) = verdict

(* A registry in use holds no dead rule, whatever the maintainers wrote: what *)
(* loads can fire, stays required, and reads every page alike.               *)
NoDeadRule == EveryAnchorCanFire /\ RequiredStaysRequired /\ MarksDoNotMatter

(* A deed that quotes its source deed is not read as the deed it quotes: when *)
(* the rules tier decides, some operative wording of the template it chose   *)
(* stands in the text with no citation marker in its run-up (classify.py:8). *)
OwnWords(words, h, window) ==
    \E i \in _iter_hits(words, h.text) :
        h.voice = "operative" =>
            \A j \in 1..(i - 1) : j >= i - window => words[j] \notin registry.markers
QuotedIsNotOwn ==
    (verdict # None /\ verdict.source = "rules") =>
        LET t == Get(registry, verdict.template_id)
        IN \/ \E a \in scoring_anchors(t) : OwnWords(Text(page), a, a.window)
           \/ \E rx \in t.anchor_regexes : OwnWords(Text(page), rx, DefaultWindow)

(* Scores compare across templates: however many variants of a title one     *)
(* line contains, no template scores above its own ceiling.                  *)
ScoresCompare ==
    (registry # None /\ page # <<>>) =>
        \A i \in DOMAIN Ranked : Ranked[i].score \in 0..One

(* Ranking first among near-zero scores is not agreement: below the floor    *)
(* the model's word alone never gets past the discount, so it is reviewed    *)
(* unless it was nearly sure (classify.py:434-441).                          *)
NearZeroIsNoAgreement ==
    (verdict # None /\ Ranked[1].score < FLOOR) =>
        verdict.source \in {"llm", "fallback"} /\ verdict.confidence <= One
        /\ (verdict.source = "llm" => 10 * verdict.confidence <= 8 * llm.confidence)

(* A model answer stays inside the family its first stage chose.             *)
AnswersFromOwnFamily ==
    (verdict # None /\ verdict.source \in {"llm", "llm+rules"}) =>
        (llm.family = Unknown \/ verdict.template_id \in registry.families[llm.family])

(* Every verdict names a template of the registry it was made with, or the    *)
(* fallback, on the document's own words, with a confidence that was earned.  *)
VerdictIsEarned ==
    /\ verdict # None => /\ verdict.template_id \in Ids(registry) \cup {FALLBACK}
                         /\ verdict.confidence \in 0..One
    /\ QuotedIsNotOwn /\ ScoresCompare /\ NearZeroIsNoAgreement /\ AnswersFromOwnFamily
=============================================================================
