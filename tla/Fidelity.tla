------------------------------ MODULE Fidelity ------------------------------
(* Extracted values against the text they came from: the fidelity check of    *)
(* structure.py, the citations of provenance.py, the tokens of guard.py.      *)
(*                                                                            *)
(* A text is a sequence of lines.  A line is a page marker (page # 0), or a   *)
(* heading, or printed items, each a label (a sequence of phrases) and a      *)
(* value (a sequence of words).  A word is [w, form]: form is the digit       *)
(* system a protected token (a number, a date, an identifier) is printed in,  *)
(* "" for any other word.  Offsets count words, an astral one twice in the    *)
(* browser.  Comparing normalised strings compares w.                         *)
EXTENDS Registry

CONSTANTS
    Inside,     \* <<a, b>>: the word a is printed inside the longer word b
    Astral      \* the words the browser counts twice

(* The absence of a place is no place.                                        *)
ASSUME PlaceAssumption ==
    None \notin Nat /\ None \notin [page : Nat, line : Nat, start : Nat, approx : BOOLEAN]

Word(w) == [w |-> w, form |-> ""]
Number(w, form) == [w |-> w, form |-> form]
IsMarker(line) == line.page # 0

Words(line) ==
    IF IsMarker(line) THEN <<Word(ToString(line.page))>>
    ELSE (IF line.head = "" THEN <<>> ELSE <<Word(line.head)>>)
         \o FlattenSeq([i \in DOMAIN line.items |->
                [k \in DOMAIN line.items[i].label |-> Word(line.items[i].label[k])]
                    \o line.items[i].value])

(* Page and line as the client numbers them: a marker starts its page, the    *)
(* lines after it count from one, and what precedes any marker is page one.   *)
PageLine(lines, i) ==
    LET markers == {m \in 1..i : IsMarker(lines[m])}
    IN IF markers = {} THEN [page |-> 1, line |-> i]
       ELSE [page |-> lines[Max(markers)].page, line |-> i - Max(markers)]

(* The index of a text: its words in one run, each with where it is printed.  *)
PrintedAt(lines, i, word) ==
    [w |-> word.w, form |-> word.form, row |-> i, marker |-> IsMarker(lines[i]),
     page |-> PageLine(lines, i).page, line |-> PageLine(lines, i).line]

Locator(lines) ==
    FlattenSeq([i \in DOMAIN lines |->
        [k \in DOMAIN Words(lines[i]) |-> PrintedAt(lines, i, Words(lines[i])[k])]])

-----------------------------------------------------------------------------
(* Protected tokens.                                                          *)
protected_tokens(words) == {x \in Range(words) : x.form # ""}

map_tokens(words, fn(_)) ==
    [i \in DOMAIN words |-> IF words[i].form = "" THEN words[i] ELSE fn(words[i])]

(* The form the document first prints a token in, or None.                    *)
FormIn(T, w) ==
    LET at == {i \in DOMAIN T : T[i].w = w /\ T[i].form # ""}
    IN IF at = {} THEN None ELSE T[Min(at)].form

restore(T, value) ==
    map_tokens(value, LAMBDA x : IF FormIn(T, x.w) = None THEN x
                                 ELSE Number(x.w, FormIn(T, x.w)))

-----------------------------------------------------------------------------
(* Where a value is printed.  A hit that touches a marker line is ignored.    *)
Starts(T, value) ==
    LET n == Len(value)
        reads(k, i) == \/ T[i].w = value[k].w
                       \/ n = 1 /\ <<value[k].w, T[i].w>> \in Inside
    IN {i \in DOMAIN T : n > 0 /\ i + n - 1 <= Len(T)
            /\ \A k \in DOMAIN value : reads(k, i + k - 1)}

(* A page marker evidences a value like any line.                             *)
find_all_marked(T, value) == Starts(T, value)

find_all(T, value) ==
    {i \in Starts(T, value) :
        \A k \in i..(i + Len(value) - 1) : ~T[k].marker}

has(T, value) == find_all(T, value) # {}

_astral(T) == {i \in DOMAIN T : T[i].w \in Astral}
_utf16(T, i) == i + Cardinality({j \in _astral(T) : j < i})

code_point(T, offset) ==
    offset - Cardinality({j \in _astral(T) : _utf16(T, j) < offset})

span(T, i) ==
    [page |-> T[i].page, line |-> T[i].line, start |-> _utf16(T, i), approx |-> FALSE]

Best(cands, cost(_)) ==
    CHOOSE c \in cands : \A d \in cands :
        cost(c) < cost(d) \/ (cost(c) = cost(d) /\ c <= d)

FAR == 1000000
Distance(a, b) == IF a <= b THEN b - a ELSE a - b
AfterLabel(anchors, c) ==
    Min({IF c >= a THEN c - a ELSE (a - c) + FAR : a \in anchors})

LabelStarts(T, labels) ==
    UNION {find_all(T, [k \in DOMAIN l |-> Word(l[k])]) : l \in labels}

(* The citation that fits the hints best: on the row's own line, else nearest *)
(* to it; just after the nearest printed label; after the previous row; first. *)
find(T, value, labels, same, after) ==
    LET all == find_all(T, value)
        on == IF same = None THEN {}
              ELSE {c \in all : T[c].row = T[same].row}
        cands == IF on # {} THEN on ELSE all
        anchors == LabelStarts(T, labels)
        later == {c \in cands : after # None /\ c > after}
    IN IF all = {} THEN None
       ELSE span(T,
            IF same # None /\ on = {} THEN Best(cands, LAMBDA c : Distance(same, c))
            ELSE IF anchors # {} THEN Best(cands, LAMBDA c : AfterLabel(anchors, c))
            ELSE IF later # {} THEN Min(later)
            ELSE Min(cands))

(* A value the text does not carry is cited on its longest token, roughly.    *)
locate(T, value, labels, same) ==
    LET exact == find(T, value, labels, same, None)
        found == {x \in protected_tokens(value) : has(T, <<x>>)}
        longest == CHOOSE x \in found : \A y \in found : Len(x.w) >= Len(y.w)
        near == find(T, <<longest>>, labels, same, None)
    IN IF value = <<>> THEN None
       ELSE IF exact # None THEN exact
       ELSE IF found = {} THEN None
       ELSE [page |-> near.page, line |-> near.line, start |-> near.start, approx |-> TRUE]

Missing(T, value) ==
    \E x \in protected_tokens(value) : FormIn(T, x.w) = None

check(T, value) ==
    [value |-> restore(T, value),
     verified |-> value = <<>> \/
                  (~Missing(T, value) /\ has(T, restore(T, value)))]
=============================================================================
