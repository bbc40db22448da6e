----------------------------- MODULE Structuring -----------------------------
(* One /structure request (app.py, structure.py): the generic pass and its    *)
(* splits, alignment onto the template's fields, the record and targeted      *)
(* passes, the assembled result and its expiry verdict.                       *)
(*                                                                            *)
(* The model server is external: a call raises, runs out of output tokens, or *)
(* answers from what it was shown with one of the SLIPS.  Sizes count words.  *)
EXTENDS Expiry

CONSTANTS
    RAW,                    \* the registry file the process loaded
    DOCS,                   \* the texts there are: name -> lines
    SLIPS,                  \* how an answer may differ from what is printed
    VALUES,                 \* what a targeted pass may answer for a field
    HeadingPart,            \* <<a, b>>: heading a is contained in heading b
    INPUT_CAP,              \* the words of a text that fit one prompt
    SPLIT_MIN,              \* words below which a text is not split again
    BATCH,                  \* fields whose catalogue fits one targeted pass
    RECORD_MAX_PASSES, REGISTRY_MAX_PASSES,
    EXPIRY_LINES, MAX_CHUNKS

(* A document is a list of lines, a line has a list of items, a label is a    *)
(* list and a value a list of words (app.py, StructureIn); an answer is       *)
(* stripped and kept only if something is left (structure.py, _targeted_pass).*)
IsValue(v) ==
    IsList(v) /\ \A x \in Range(v) : x = Number(x.w, x.form) /\ Len(x.w) \in Nat
ASSUME TextAssumption ==
    /\ \A t \in DOMAIN DOCS :
        /\ IsList(DOCS[t])
        /\ \A line \in Range(DOCS[t]) :
            /\ line.page \in Nat /\ IsList(line.items)
            /\ \A it \in Range(line.items) : IsList(it.label) /\ IsValue(it.value)
    /\ \A v \in VALUES : IsValue(v) /\ v # <<>>

(* The process started, so its registry loaded; a list of a file is a list.   *)
ASSUME LoadedAssumption ==
    /\ Loads(RAW) /\ IsList(RAW.templates)
    /\ \A g \in DOMAIN RAW.groups : IsList(RAW.groups[g].fields)
    /\ \A t \in Range(RAW.templates) :
        /\ IsList(t.groups) /\ IsList(t.fields)
        /\ \A r \in Range(t.groups) : IsList(r.instances)

(* The limits of a request: expiry.py's windows overlap by a line.            *)
ASSUME LimitAssumption ==
    /\ INPUT_CAP \in Nat /\ SPLIT_MIN \in Nat \ {0} /\ BATCH \in Nat \ {0}
    /\ RECORD_MAX_PASSES \in Nat /\ REGISTRY_MAX_PASSES \in Nat
    /\ EXPIRY_LINES \in Nat \ {0, 1} /\ MAX_CHUNKS \in Nat \ {0}

SPLIT_MAX_DEPTH == 2
SECTION_MATCH_MIN == 6

Lines(t) == DOCS[t]

reg == load_registry(RAW)
Empty == <<>>

VARIABLES
    pc,         \* "idle", or the step the request is at
    text,       \* the name of the request's text
    fid,        \* the index its values are found and checked with
    tmpl,       \* the template it is structured for, or None
    todo,       \* chunks the generic pass has still to read: [from, to, depth]
    read,       \* the chunks it kept an answer of: [from, to, hit, slip, secs]
    calls,      \* generic calls made
    free,       \* the generic pass's sections
    placed,     \* [values, rows, extras]: what alignment made of them
    asked,      \* what the later passes have still to ask: groups, then batches
    filled,     \* [values, groups]: what the later passes found
    result,     \* the response, or None
    chunk       \* the expiry window the model is reading

vars == <<pc, text, fid, tmpl, todo, read, calls, free, placed, asked, filled, result, chunk>>

-----------------------------------------------------------------------------
(* Input: the words between the page markers, in one run, in lines.           *)
Unmarked(lines) == Kept(lines, {i \in DOMAIN lines : ~IsMarker(lines[i])})
Body(t) == Unmarked(Lines(t))

(* How many words are printed up to the end of each line.                     *)
Ends(t) ==
    LET upto[n \in 0..Len(Body(t))] ==
            IF n = 0 THEN 0 ELSE upto[n - 1] + Len(Words(Body(t)[n]))
    IN upto
Total(t) == Ends(t)[Len(Body(t))]

(* What does not fit is cut from the tail, wherever that is in a line: so     *)
(* many words are sent.                                                       *)
_clean(t) == Min({Total(t), INPUT_CAP})
Truncated(t) == INPUT_CAP < Total(t)

(* A chunk is the words after from, up to to.  It is halved at the last line  *)
(* end before its middle; if that leaves less than a quarter, at the first    *)
(* one after it that leaves as much; if there is no line end to take, in the  *)
(* middle, through the word that stands there if one does.                    *)
WordsIn(c) == c.to - c.from
Breaks(t, c) == {e \in Range(Ends(t)) : c.from < e /\ e < c.to}
Early(t, c) == {e \in Breaks(t, c) : 2 * (e - c.from) < WordsIn(c)}
Later(t, c) ==
    {e \in Breaks(t, c) : 2 * (e - c.from) >= WordsIn(c) /\ 4 * (e - c.from) < 3 * WordsIn(c)}

Cut(t, c) ==
    IF Early(t, c) # {} /\ 4 * (Max(Early(t, c)) - c.from) >= WordsIn(c) THEN Max(Early(t, c))
    ELSE IF Later(t, c) # {} THEN Min(Later(t, c))
    ELSE IF Early(t, c) # {} THEN Max(Early(t, c))
    ELSE c.from + WordsIn(c) \div 2

(* The pieces of a word cut in two are no word of the page.                   *)
Torn(t, c) == IF Early(t, c) \cup Later(t, c) = {} THEN WordsIn(c) % 2 ELSE 0

_split_lines(t, c) ==
    <<[from |-> c.from, to |-> Cut(t, c), depth |-> c.depth + 1],
      [from |-> Cut(t, c) + Torn(t, c), to |-> c.to, depth |-> c.depth + 1]>>

(* The lines of a chunk, the first and the last as far as it holds them.      *)
Part(words, at, c) ==
    SubSeq(words, Max({1, c.from - at + 1}), Min({Len(words), c.to - at}))

ItemStart(line, i) ==
    LET upto[n \in 0..Len(line.items)] ==
            IF n = 0 THEN (IF line.head = "" THEN 0 ELSE 1)
            ELSE upto[n - 1] + Len(line.items[n].label) + Len(line.items[n].value)
    IN upto[i - 1]

Fragment(line, at, c) ==
    [head |-> IF at \in c.from..(c.to - 1) THEN line.head ELSE "",
     items |-> [i \in DOMAIN line.items |->
        LET it == line.items[i]
            start == at + ItemStart(line, i)
        IN [clause |-> it.clause,
            label |-> Part(it.label, start, c),
            value |-> Part(it.value, start + Len(it.label), c)]]]

ChunkLines(t, c) ==
    LET lines == Body(t)
        ends == Ends(t)
    IN Kept([n \in DOMAIN lines |-> Fragment(lines[n], ends[n - 1], c)],
            {n \in DOMAIN lines : ends[n - 1] < c.to /\ c.from < ends[n]})

-----------------------------------------------------------------------------
(* What the generic pass reads off some lines: what has a label there, but    *)
(* the clauses, which it is told to skip.                                     *)
Converted(value) == map_tokens(value, LAMBDA x : Number(x.w, "ascii"))

Item(it, slip) ==
    [label |-> it.label,
     value |-> IF slip = "digits" THEN Converted(it.value)
               ELSE it.value]

AddLine(slip, secs, line) ==
    LET printed == Kept(line.items, {i \in DOMAIN line.items :
                            ~line.items[i].clause /\ line.items[i].label # <<>>})
        items == [i \in DOMAIN printed |-> Item(printed[i], slip)]
        title == IF slip = "headless" THEN "" ELSE line.head
    IN IF secs = <<>> \/ (line.head # "" /\ slip # "headless")
       THEN Append(secs, [title |-> title, fields |-> items])
       ELSE [secs EXCEPT ![Len(secs)].fields = @ \o items]

Reading(lines, slip) ==
    LET upto[n \in 0..Len(lines)] ==
            IF n = 0 THEN <<>> ELSE AddLine(slip, upto[n - 1], lines[n])
    IN upto[Len(lines)]

(* A run cut off at the cap is salvaged: what came before the cut.            *)
_loads_lenient(lines, slip) == Reading(SubSeq(lines, 1, Len(lines) \div 2), slip)

(* A section that continues across the cut is one section.                    *)
Join(secs, s) ==
    IF secs # <<>> /\ secs[Len(secs)].title = s.title
    THEN [secs EXCEPT ![Len(secs)].fields = @ \o s.fields]
    ELSE Append(secs, s)

_merge_generic(a, b) ==
    LET secs == a \o b
        upto[n \in 0..Len(secs)] == IF n = 0 THEN <<>> ELSE Join(upto[n - 1], secs[n])
    IN upto[Len(secs)]

-----------------------------------------------------------------------------
(* Alignment.                                                                 *)
Fields == required_fields(tmpl) \o optional_fields(tmpl)

(* The one field that claims a label outright.                                *)
Claimants(label) ==
    {f \in Range(Fields) : label = f.label \/ label \in f.aliases}
Exact(label) ==
    IF Cardinality(Claimants(label)) = 1 THEN CHOOSE f \in Claimants(label) : TRUE
    ELSE None

(* The fields a generic label may belong to.                                  *)
Pool(label) == {f \in Range(Fields) : label \in f.shared}

_section_match(doc, declared) ==
    \/ doc = declared
    \/ <<doc, declared>> \in HeadingPart /\ Len(doc) >= SECTION_MATCH_MIN
    \/ <<declared, doc>> \in HeadingPart /\ Len(declared) >= SECTION_MATCH_MIN

(* A neighbour votes for a candidate of its own section and role, if only one; *)
(* the nearest vote counts, the one before on a tie.                          *)
Supported(pool, hit) ==
    {c \in pool : c.section = hit.section
                  /\ (hit.role = None \/ c.role = None \/ hit.role = c.role)}

_nearest_role(pool, index, hits) ==
    LET votes == {h \in hits : Cardinality(Supported(pool, h.field)) = 1}
        nearer(a, b) == LET da == Distance(a.at, index)
                            db == Distance(b.at, index)
                        IN da < db \/ (da = db /\ a.at <= b.at)
    IN IF votes = {} THEN None
       ELSE LET v == CHOOSE a \in votes : \A b \in votes : nearer(a, b)
            IN CHOOSE c \in Supported(pool, v.field) : TRUE

(* Without evidence the first role that could own the label gets it.          *)
_shared_target_first(pool, title, index, hits) ==
    IF pool = {} THEN None
    ELSE LET near == _nearest_role(pool, index, hits)
         IN IF near # None THEN near ELSE CHOOSE c \in pool : TRUE

_shared_target(pool, title, index, hits) ==
    LET scoped == {f \in pool : title # "" /\ _section_match(title, f.section)}
        near == _nearest_role(pool, index, hits)
    IN IF pool = {} THEN None
       ELSE IF Cardinality(scoped) = 1 THEN CHOOSE f \in scoped : TRUE
       ELSE IF scoped # {} THEN _nearest_role(scoped, index, hits)
       ELSE IF near # None THEN near
       ELSE IF Cardinality(pool) = 1 /\ title = "" THEN CHOOSE f \in pool : TRUE
       ELSE None

Targets(section) ==
    LET items == Kept(section.fields,
                      {i \in DOMAIN section.fields : section.fields[i].value # Empty})
        hits == {[at |-> i, field |-> Exact(items[i].label)] :
                    i \in {j \in DOMAIN items : Exact(items[j].label) # None}}
    IN [i \in DOMAIN items |->
            [label |-> items[i].label, value |-> items[i].value,
             target |-> IF Claimants(items[i].label) # {} THEN Exact(items[i].label)
                        ELSE _shared_target(Pool(items[i].label), section.title, i, hits)]]

Groups == {f.section : f \in {g \in Range(Fields) : g.repeatable}}
Shape(g) ==
    Kept(tmpl.fields, {i \in DOMAIN tmpl.fields :
                        tmpl.fields[i].repeatable /\ tmpl.fields[i].section = g})

Blank == [values |-> <<>>, rows |-> [g \in Groups |-> <<>>], extras |-> <<>>]

(* The last row of a group is the open one; a key coming round again begins   *)
(* the next.                                                                  *)
With(row, k, v) == [x \in DOMAIN row \cup {k} |-> IF x = k THEN v ELSE row[x]]

PlaceInRow(p, f, v) ==
    LET rows == p.rows[f.section]
        n == Len(rows)
    IN IF rows = <<>> \/ f.key \in DOMAIN rows[n]
       THEN [p EXCEPT !.rows[f.section] = Append(@, With(<<>>, f.key, v))]
       ELSE [p EXCEPT !.rows[f.section][n] = With(@, f.key, v)]

PlaceItem(p, it) ==
    LET extra == [p EXCEPT !.extras = Append(@, [label |-> it.label, value |-> it.value])]
    IN IF it.target = None THEN extra
       ELSE IF it.target.repeatable THEN PlaceInRow(p, it.target, it.value)
       ELSE IF it.target.key \in DOMAIN p.values THEN extra
       ELSE [p EXCEPT !.values = With(@, it.target.key, it.value)]

_align(secs) ==
    LET items == FlattenSeq([s \in DOMAIN secs |-> Targets(secs[s])])
        upto[n \in 0..Len(items)] == IF n = 0 THEN Blank ELSE PlaceItem(upto[n - 1], items[n])
    IN upto[Len(items)]

-----------------------------------------------------------------------------
(* What is left to ask.                                                       *)
Printed(label) == Starts(fid, [k \in DOMAIN label |-> Word(label[k])]) # {}

(* Columns worth asking for: the required ones, and those the text names.     *)
_record_columns(g) ==
    {f.key : f \in {x \in Range(Shape(g)) :
        x.required \/ \E l \in {x.label} \cup x.aliases \cup x.shared : Printed(l)}}

(* Required tables alignment found no rows for, in the template's order.      *)
MissingGroups(p) ==
    LET fields == tmpl.fields
        need(g) == p.rows[g] = <<>> /\ \E f \in Range(Shape(g)) : f.required
        first(i) == \A j \in 1..(i - 1) : fields[j].repeatable =>
                        fields[j].section # fields[i].section
        at == {i \in DOMAIN fields : fields[i].repeatable /\ first(i) /\ need(fields[i].section)}
        groups == Kept([i \in DOMAIN fields |-> fields[i].section], at)
    IN SubSeq(groups, 1, Min({Len(groups), RECORD_MAX_PASSES}))

_pack(fields) ==
    LET n == (Len(fields) + BATCH - 1) \div BATCH
    IN [b \in 1..n |-> SubSeq(fields, (b - 1) * BATCH + 1, Min({Len(fields), b * BATCH}))]

Unfilled(fields, p) ==
    Kept(fields, {i \in DOMAIN fields :
                    ~fields[i].repeatable /\ fields[i].key \notin DOMAIN p.values})

(* Every required field is asked for; optional ones as far as passes remain.  *)
Batches(p) ==
    LET req == _pack(Unfilled(required_fields(tmpl), p))
        opt == _pack(Unfilled(optional_fields(tmpl), p))
        left == Max({0, REGISTRY_MAX_PASSES - Len(req)})
    IN req \o SubSeq(opt, 1, Min({left, Len(opt)}))

-----------------------------------------------------------------------------
(* The result.                                                                *)
make(f, value, origin, same) ==
    LET c == check(fid, value)
        valid == Field_validate(f, IF value = Empty THEN None ELSE c.value[1], reg.types)
    IN [key |-> f.key, label |-> f.label, value |-> c.value, required |-> f.required,
        status |-> IF valid = "ok" /\ ~c.verified THEN "unverified" ELSE valid,
        origin |-> origin,
        source |-> locate(fid, c.value, {f.label} \cup f.aliases \cup f.shared, same)]

(* A value of the document as it stands, with no key and no status.           *)
loose(it) ==
    LET value == restore(fid, it.value)
    IN [key |-> "", label |-> it.label, value |-> value, required |-> FALSE,
        status |-> "", origin |-> "document",
        source |-> locate(fid, value, {it.label}, None)]

(* A row is cited on the line of its longest value, after the row before it:  *)
(* as many pairs of a word and a letter of it.                                *)
Size(value) == Cardinality(UNION {{i} \X (1..Len(value[i].w)) : i \in DOMAIN value})
Anchor_of(row, after) ==
    LET at(k) == find(fid, restore(fid, row[k]), {}, None, after)
        found == {k \in DOMAIN row : row[k] # Empty /\ at(k) # None}
        longest == CHOOSE k \in found : \A o \in found : Size(row[k]) >= Size(row[o])
    IN IF found = {} THEN None ELSE code_point(fid, at(longest).start)

Columns(g, rows) ==
    LET shape == Shape(g)
    IN Kept(shape, {i \in DOMAIN shape :
                shape[i].required \/ \E r \in Range(rows) : shape[i].key \in DOMAIN r})

make_row(columns, row, origin, same) ==
    [i \in DOMAIN columns |->
        make(columns[i], IF columns[i].key \in DOMAIN row THEN row[columns[i].key] ELSE Empty,
             origin, same)]

MadeRows(g, rows, origin) ==
    LET at(row, after) == Anchor_of(row, after)
        upto[n \in 0..Len(rows)] ==
            IF n = 0 THEN None
            ELSE IF at(rows[n], upto[n - 1]) = None THEN upto[n - 1]
            ELSE at(rows[n], upto[n - 1])
    IN [n \in DOMAIN rows |->
            make_row(Columns(g, rows), rows[n], origin, at(rows[n], upto[n - 1]))]

(* A required column is missing when no row has it.                           *)
Absent(f, rows) == ~\E r \in Range(rows) : f.key \in DOMAIN r

Value(k) ==
    IF k \in DOMAIN placed.values THEN placed.values[k]
    ELSE IF k \in DOMAIN filled.values THEN filled.values[k] ELSE Empty

Origin(k) == IF k \in DOMAIN placed.values THEN "aligned" ELSE "model"

Scalars ==
    LET shown == Kept(Fields, {i \in DOMAIN Fields : ~Fields[i].repeatable /\
                    (Fields[i].required \/ Value(Fields[i].key) # Empty)})
    IN [i \in DOMAIN shown |-> make(shown[i], Value(shown[i].key), Origin(shown[i].key), None)]

(* The required columns of a table without rows stay visible, empty.          *)
EmptyColumns ==
    LET fields == tmpl.fields
        shown == Kept(fields, {i \in DOMAIN fields : fields[i].repeatable /\
                    fields[i].required /\ placed.rows[fields[i].section] = <<>>})
    IN [i \in DOMAIN shown |-> make(shown[i], Empty, "model", None)]

OutputCapped == \E i \in DOMAIN read : read[i].hit

Assembled ==
    [error |-> FALSE,
     fields |-> Scalars \o EmptyColumns,
     rows |-> [g \in {x \in Groups : placed.rows[x] # <<>>} |->
                MadeRows(g, placed.rows[g],
                         IF g \in filled.groups THEN "model" ELSE "aligned")],
     extras |-> [i \in DOMAIN placed.extras |-> loose(placed.extras[i])],
     missing |-> {f.key : f \in {x \in Range(Fields) : x.required /\
                    IF x.repeatable THEN Absent(x, placed.rows[x.section])
                    ELSE Value(x.key) = Empty}},
     truncated |-> Truncated(text), output_capped |-> OutputCapped, expiry |-> None]

Generic ==
    [error |-> FALSE, fields |-> <<>>, rows |-> <<>>,
     extras |-> FlattenSeq([s \in DOMAIN free |->
                    [i \in DOMAIN free[s].fields |-> loose(free[s].fields[i])]]),
     missing |-> {}, truncated |-> Truncated(text), output_capped |-> OutputCapped,
     expiry |-> None]

Nothing(error, cut) ==
    [error |-> error, fields |-> <<>>, rows |-> <<>>, extras |-> <<>>, missing |-> {},
     truncated |-> cut, output_capped |-> FALSE, expiry |-> None]

Stated(r) == r.fields \o r.extras

-----------------------------------------------------------------------------
NoFill == [values |-> <<>>, groups |-> {}]
NoAsk == [groups |-> <<>>, batches |-> <<>>]

Init ==
    /\ pc = "idle" /\ text = "" /\ fid = <<>> /\ tmpl = None /\ result = None
    /\ todo = <<>> /\ read = <<>> /\ calls = 0 /\ free = <<>>
    /\ placed = None /\ filled = NoFill /\ asked = NoAsk /\ chunk = 0

(* An id the registry does not have gets the free-form structurer.            *)
Request(t, id) ==
    /\ pc = "idle" /\ result = None
    /\ text' = t
    /\ fid' = Locator(Lines(t))
    /\ tmpl' = IF id \in Ids(reg) THEN Get(reg, id) ELSE None
    /\ IF _clean(t) = 0
       THEN pc' = "idle" /\ todo' = <<>> /\ result' = Nothing(FALSE, Truncated(t))
       ELSE /\ pc' = "generic" /\ result' = None
            /\ todo' = <<[from |-> 0, to |-> _clean(t), depth |-> 0]>>
    /\ read' = <<>> /\ calls' = 0 /\ free' = <<>>
    /\ placed' = None /\ filled' = NoFill /\ asked' = NoAsk /\ chunk' = 0

MaySplit(t, c) ==
    /\ c.depth < SPLIT_MAX_DEPTH /\ WordsIn(c) >= 2 * SPLIT_MIN
    /\ \A h \in Range(_split_lines(t, c)) : h.from < h.to

(* A bug: the tail is read before the head.                                   *)
Halves_swapped(t, c) == <<_split_lines(t, c)[2], _split_lines(t, c)[1]>>
Halves(t, c) == _split_lines(t, c)

(* The response is sent; nothing of the request is kept.                      *)
Respond ==
    /\ pc = "idle" /\ result # None
    /\ pc' = "idle" /\ text' = "" /\ fid' = <<>> /\ tmpl' = None /\ result' = None
    /\ todo' = <<>> /\ read' = <<>> /\ calls' = 0 /\ free' = <<>>
    /\ placed' = None /\ filled' = NoFill /\ asked' = NoAsk /\ chunk' = 0

(* One generic call.  A capped answer is thrown away and its text read again  *)
(* in halves while that may help; any other answer is kept.                   *)
ReadChunk(slip, hit) ==
    LET c == Head(todo)
        lines == ChunkLines(text, c)
        secs == IF hit THEN _loads_lenient(lines, slip) ELSE Reading(lines, slip)
    IN /\ pc = "generic"
       /\ calls' = calls + 1
       /\ IF hit /\ MaySplit(text, c)
          THEN todo' = Halves(text, c) \o Tail(todo) /\ UNCHANGED <<read, free>>
          ELSE /\ todo' = Tail(todo)
               /\ read' = Append(read, [from |-> c.from, to |-> c.to, hit |-> hit,
                                        slip |-> slip, secs |-> secs])
               /\ free' = IF c.depth = 0 THEN secs ELSE _merge_generic(free, secs)
       /\ pc' = IF todo' = <<>> THEN "align" ELSE "generic"
       /\ UNCHANGED <<text, fid, tmpl, placed, asked, filled, result, chunk>>

(* Without the generic pass there is nothing to answer with.                  *)
GenericRaises ==
    /\ pc = "generic"
    /\ result' = Nothing(TRUE, FALSE)
    /\ pc' = "idle"
    /\ todo' = <<>>
    /\ UNCHANGED <<text, fid, tmpl, read, calls, free, placed, asked, filled, chunk>>

Answer(r) == result' = r /\ pc' = "expiry"

Align ==
    /\ pc = "align"
    /\ IF tmpl = None THEN Answer(Generic) /\ UNCHANGED <<placed, asked>>
       ELSE /\ placed' = _align(free)
            /\ asked' = [groups |-> MissingGroups(placed'), batches |-> Batches(placed')]
            /\ pc' = "records"
            /\ UNCHANGED result
    /\ UNCHANGED <<text, fid, tmpl, todo, read, calls, free, filled, chunk>>

(* A required table is asked for as rows.                                     *)
RecordPass(rows) ==
    /\ pc = "records" /\ asked.groups # <<>>
    /\ LET g == Head(asked.groups)
       IN IF rows = <<>> THEN UNCHANGED <<placed, filled>>
          ELSE /\ placed' = [placed EXCEPT !.rows[g] = rows]
               /\ filled' = [filled EXCEPT !.groups = @ \cup {g}]
    /\ asked' = [asked EXCEPT !.groups = Tail(@)]
    /\ UNCHANGED <<pc, text, fid, tmpl, todo, read, calls, free, result, chunk>>

(* A pass that raises ends its kind; the next kind still runs.                *)
RecordsDone ==
    /\ pc = "records"
    /\ asked' = [asked EXCEPT !.groups = <<>>]
    /\ pc' = "targeted"
    /\ UNCHANGED <<text, fid, tmpl, todo, read, calls, free, placed, filled, result, chunk>>

(* An answer fills a field that has no value, and no other.                   *)
Fill(got) ==
    LET new == DOMAIN got \ (DOMAIN placed.values \cup DOMAIN filled.values)
    IN /\ filled' = [filled EXCEPT !.values =
                        [k \in DOMAIN @ \cup new |-> IF k \in new THEN got[k] ELSE @[k]]]
       /\ UNCHANGED placed

TargetedPass(got) ==
    /\ pc = "targeted" /\ asked.batches # <<>>
    /\ Fill(got)
    /\ asked' = [asked EXCEPT !.batches = Tail(@)]
    /\ UNCHANGED <<pc, text, fid, tmpl, todo, read, calls, free, result, chunk>>

(* Everything asked, or a pass raised: what was found is the answer.          *)
TargetedDone ==
    /\ pc = "targeted"
    /\ Answer(Assembled)
    /\ asked' = NoAsk
    /\ UNCHANGED <<text, fid, tmpl, todo, read, calls, free, placed, filled, chunk>>

(* Tiers 1 and 2 of the expiry, on the raw text; the model's windows next.    *)
Expires ==
    /\ pc = "expiry"
    /\ LET found == detect(fid, Stated(result))
       IN IF found = None
          THEN /\ result' = [result EXCEPT !.expiry = NoDate(declared_state(Stated(result)))]
               /\ pc' = "chunk" /\ chunk' = 1
          ELSE /\ result' = [result EXCEPT !.expiry = found]
               /\ pc' = "idle" /\ UNCHANGED chunk
    /\ UNCHANGED <<text, fid, tmpl, todo, read, calls, free, placed, asked, filled>>

Windows == _chunks(Lines(text), EXPIRY_LINES, MAX_CHUNKS)

(* One expiry window: no date in it, one that is taken, or a call that raised. *)
ChunkAnswer(date) ==
    /\ pc = "chunk"
    /\ IF date # None
       THEN /\ result' = [result EXCEPT !.expiry =
                            Judged(fid, date, <<>>, "model", None, @.override)]
            /\ pc' = "idle" /\ UNCHANGED chunk
       ELSE /\ pc' = IF chunk < Len(Windows) THEN "chunk" ELSE "idle"
            /\ chunk' = IF chunk < Len(Windows) THEN chunk + 1 ELSE chunk
            /\ UNCHANGED result
    /\ UNCHANGED <<text, fid, tmpl, todo, read, calls, free, placed, asked, filled>>

ChunkRaises ==
    /\ pc = "chunk" /\ pc' = "idle"
    /\ UNCHANGED <<text, fid, tmpl, todo, read, calls, free, placed, asked, filled, result, chunk>>

(* Bound: an answer names all it was asked for, all but what is required, or  *)
(* nothing, with one value throughout; a table has two rows.                  *)
Answers(keys, required) ==
    {<<>>} \cup UNION {[ks -> {v}] : ks \in {keys, keys \ required}, v \in VALUES}
RowAnswers(g) ==
    {<<>>} \cup {<<r, r>> : r \in Answers(_record_columns(g),
                    {f.key : f \in {x \in Range(Shape(g)) : x.required}}) \ {<<>>}}
BatchAnswers(batch) == Answers({f.key : f \in Range(batch)}, {batch[1].key})

(* Bound: only the first answer kept slips.                                   *)
MaySlip(slip) == slip = "verbatim" \/ read = <<>>

Next ==
    \/ \E t \in DOMAIN DOCS, id \in Ids(reg) \cup {"", "retired"} : Request(t, id)
    \/ \E slip \in SLIPS, hit \in BOOLEAN : MaySlip(slip) /\ ReadChunk(slip, hit)
    \/ GenericRaises \/ Align \/ Respond
    \/ pc = "records" /\ asked.groups # <<>>
        /\ \E rows \in RowAnswers(Head(asked.groups)) : RecordPass(rows)
    \/ RecordsDone
    \/ pc = "targeted" /\ asked.batches # <<>>
        /\ \E got \in BatchAnswers(Head(asked.batches)) : TargetedPass(got)
    \/ TargetedDone \/ Expires
    \/ \E date \in DOMAIN DateDays \cup {None} : ChunkAnswer(date)
    \/ ChunkRaises

Spec == Init /\ [][Next]_vars

-----------------------------------------------------------------------------
Said(value) == [i \in DOMAIN value |-> value[i].w]
Done == pc = "idle" /\ result # None
Cells(r) == UNION {UNION {Range(x) : x \in Range(r.rows[g])} : g \in DOMAIN r.rows}
Keyed(r) == Range(r.fields) \cup Cells(r)
InText(word) ==
    \E i \in DOMAIN Lines(text) : ~IsMarker(Lines(text)[i]) /\ word \in Range(Words(Lines(text)[i]))

(* One chunk ends at a and the next begins after b: at a line end, or inside  *)
(* a line half again as long as the least a chunk may be, and then at most    *)
(* one word of it is in neither.                                              *)
Joint(t, a, b) ==
    \/ a = b /\ a \in Range(Ends(t))
    \/ /\ b \in {a, a + 1}
       /\ \E n \in DOMAIN Body(t) :
            /\ Ends(t)[n - 1] < a /\ b < Ends(t)[n]
            /\ 2 * Len(Words(Body(t)[n])) >= 3 * SPLIT_MIN

(* Chunks that together are the text that was sent, in order.                 *)
Tiles(t, chunks) ==
    IF chunks = <<>> THEN _clean(t) = 0
    ELSE /\ chunks[1].from = 0 /\ chunks[Len(chunks)].to = _clean(t)
         /\ \A i \in DOMAIN chunks : chunks[i].from < chunks[i].to
         /\ \A i \in 1..(Len(chunks) - 1) : Joint(t, chunks[i].to, chunks[i + 1].from)

(* However often it had to halve it, and in no more than seven calls, the     *)
(* generic pass reads the text once and in order, and every line whole but    *)
(* one as long as that (structure.py, _split_lines, _SPLIT_MAX_DEPTH).        *)
EveryLineIsRead ==
    /\ calls <= 7
    /\ (pc = "align" \/ (Done /\ ~result.error)) => Tiles(text, read)

(* The values the generic pass returned, and the places of a result that hold *)
(* one.                                                                       *)
Got == FlattenSeq([i \in DOMAIN read |->
            FlattenSeq([s \in DOMAIN read[i].secs |-> read[i].secs[s].fields])])
Times(seq, v) == {i \in DOMAIN seq : Said(seq[i].value) = v}
CellsOf(r) ==
    UNION {UNION {{<<g, n, i>> : i \in DOMAIN r.rows[g][n]} : n \in DOMAIN r.rows[g]} :
            g \in DOMAIN r.rows}
Holding(r, v) ==
    {<<i>> : i \in Times(Stated(r), v)}
        \cup {x \in CellsOf(r) : Said(r.rows[x[1]][x[2]][x[3]].value) = v}

(* Nothing the OCR read is discarded: every value the generic pass returned   *)
(* is in the result as often as it was returned — in a field, in a row or     *)
(* under "other information" (structure.py:39).                               *)
NothingDiscarded ==
    (Done /\ ~result.error) =>
        \A i \in DOMAIN Got : Got[i].value # Empty =>
            Cardinality(Holding(result, Said(Got[i].value)))
                >= Cardinality(Times(Got, Said(Got[i].value)))

(* What the user is told of the limits is what happened: text that was not    *)
(* sent, and answers that were cut off.                                       *)
LimitsAreTold ==
    (Done /\ ~result.error) =>
        /\ result.truncated = (_clean(text) < Total(text))
        /\ result.output_capped = \E i \in DOMAIN read : read[i].hit

(* Before the model is believed to have seen nothing, every line and every    *)
(* pair of neighbouring lines was whole inside one of its windows, unless the *)
(* limit on windows was reached (expiry.py, _chunks).                         *)
WindowsCover ==
    pc = "chunk" => \/ Len(Windows) = MAX_CHUNKS
                    \/ \A i \in 1..(Len(Lines(text)) - 1) : \E c \in DOMAIN Windows :
                            \E j \in 1..(Len(Windows[c]) - 1) :
                                SubSeq(Windows[c], j, j + 1) = SubSeq(Lines(text), i, i + 1)

(* No line, value or date of a document is lost at a limit or in a table, or  *)
(* the user is told of it, nor at a cut but inside an overlong line.          *)
NothingIsLost == EveryLineIsRead /\ NothingDiscarded /\ LimitsAreTold /\ WindowsCover

(* A required field nobody found is reported, and one that was found is not:  *)
(* missing is exactly the required keys with no value anywhere (structure.py, *)
(* missing_required).                                                         *)
MissingHonest ==
    (Done /\ tmpl # None /\ ~result.error /\ _clean(text) # 0) =>
        result.missing =
            {f.key : f \in Range(required_fields(tmpl))}
                \ {c.key : c \in {x \in Keyed(result) : x.value # Empty}}

(* A status of "ok" is a claim about the page: the value stands on it outside *)
(* the page markers, and every number in it is one the page prints in that    *)
(* form.  Everything else is unverified, mismatched or empty.                 *)
UnverifiedNotFact ==
    Done => \A c \in Keyed(result) : c.status = "ok" =>
        /\ has(fid, c.value)
        /\ \A x \in protected_tokens(c.value) : InText(x)
        /\ \A x \in Range(c.value) : \E y \in Range(fid) :
            ~y.marker /\ (y.w = x.w \/ <<x.w, y.w>> \in Inside)

(* A row is cited as one line: when some line prints everything the row says, *)
(* all its cells are cited there, with the offsets the browser uses, and the  *)
(* next row is not cited above it (provenance.py, make_row).                  *)
LineOf(c) == <<c.source.page, c.source.line>>
RowsCitedTogether ==
    Done => \A g \in DOMAIN result.rows :
        LET rows == result.rows[g]
            said(n) == {c \in Range(rows[n]) : c.value # Empty}
            whole(n, i) == ~IsMarker(Lines(text)[i]) /\ \A c \in said(n) :
                \E k \in find_all(fid, c.value) : fid[k].row = i
            at(i) == <<PageLine(Lines(text), i).page, PageLine(Lines(text), i).line>>
        IN \A n \in DOMAIN rows :
            (said(n) # {} /\ \E i \in DOMAIN Lines(text) : whole(n, i)) =>
                \E i \in DOMAIN Lines(text) : whole(n, i) /\ \A c \in said(n) :
                    /\ c.source # None /\ LineOf(c) = at(i)
                    /\ fid[code_point(fid, c.source.start)].row = i
                    /\ (g \notin filled.groups) =>
                        \A m \in 1..(n - 1) : \A d \in Range(rows[m]) : d.source # None =>
                            d.source.start < c.source.start

(* A citation leads back to the page: the word at its offset, counted as the  *)
(* browser counts, is where the value stands — or, of a rough one, a number   *)
(* of it — outside the markers, on the page and line it names; and what is    *)
(* "ok" is cited exactly (provenance.py, Locator.locate).                     *)
Cited(c) ==
    /\ c.status = "ok" => c.source # None /\ ~c.source.approx
    /\ c.source # None =>
        LET i == code_point(fid, c.source.start)
        IN /\ i \in DOMAIN fid /\ ~fid[i].marker
           /\ c.source.page = fid[i].page /\ c.source.line = fid[i].line
           /\ IF c.source.approx THEN \E x \in protected_tokens(c.value) : i \in find_all(fid, <<x>>)
              ELSE i \in find_all(fid, c.value)

(* The cells of a row are cited together: of the lines that print one of them *)
(* there is one that each it prints is cited on (provenance.py, find).        *)
PrintedOn(cells) ==
    UNION {{[cell |-> c, row |-> fid[i].row] : i \in find_all(fid, c.value)} : c \in Range(cells)}
Together(cells) ==
    LET at == PrintedOn(cells)
    IN at # {} => \E row \in {x.row : x \in at} : \A x \in at : x.row = row =>
            x.cell.source # None /\ fid[code_point(fid, x.cell.source.start)].row = row
CitationsStand ==
    Done => /\ \A c \in Keyed(result) \cup Range(result.extras) : Cited(c)
            /\ \A g \in DOMAIN result.rows : \A n \in DOMAIN result.rows[g] :
                    Together(result.rows[g][n])

(* What the result states it can show: what is missing, what of it stands on  *)
(* the page, and where.                                                       *)
FactsAreBacked == MissingHonest /\ UnverifiedNotFact /\ CitationsStand

(* Read under its own heading, a value is never attached to a role it does    *)
(* not belong to: attaching a heir's name to the deceased would be a loss     *)
(* (structure.py, _shared_target).                                            *)
OwnRoleOnly ==
    (Done /\ tmpl # None /\ Len(read) = 1 /\ read[1].slip # "headless") =>
        \A c \in Keyed(result) : (c.origin = "aligned" /\ c.value # Empty) =>
            \E i \in DOMAIN Lines(text) : \E it \in Range(Lines(text)[i].items) :
                it.of = c.key /\ IF result.truncated THEN IsPrefix(Said(c.value), Said(it.value))
                                 ELSE Said(it.value) = Said(c.value)

(* A value lands with its owner: in the role it belongs to, and in a row that *)
(* is one line of the page.                                                   *)
RightOwner == OwnRoleOnly /\ RowsCitedTogether

(* The expiry the document states of itself, on one line with its label, is   *)
(* never passed over for a date of another line, and of two the first is      *)
(* taken (expiry.py, scan).                                                   *)
OwnDateOnLine(k) ==
    \E i \in {j \in DOMAIN fid : LabelsAt(fid, j) # {}} :
        LET end == i + Len(LabelAt(fid, i)) - 1
        IN /\ _label_rank(LabelAt(fid, i)) = 3 /\ ~_subject_is_elsewhere(fid, end)
           /\ k \in (end + 1)..(end + 1 + DateWindow) /\ fid[k].row = fid[end].row
           /\ IsDate(fid[k]) /\ \A j \in (end + 1)..(k - 1) : ~IsDate(fid[j])
OwnDateWins ==
    (Done /\ result.expiry # None /\ result.expiry.basis = "label") =>
        LET own == {k \in DOMAIN fid : OwnDateOnLine(k)}
        IN own # {} => result.expiry.date[1].w = fid[Min(own)].w

(* A date only the model read settles nothing unless the page prints it, and  *)
(* a date without a day settles nothing at all.                               *)
StatusIsBacked ==
    (Done /\ result.expiry # None /\ result.expiry.status # "unknown") =>
        /\ DateDays[result.expiry.date[1].w] # MonthOnly
        /\ result.expiry.basis = "model" => has(fid, result.expiry.date)

(* The validity given is the document's own, by a date it prints.             *)
ValidityIsOwn == OwnDateWins /\ StatusIsBacked

(* A party's identity expiry is not the instrument's: reading it as one is    *)
(* the single worst thing this module could do (expiry.py:357-359).           *)
PartyDateIsNotOurs ==
    (Done /\ result.expiry # None /\ result.expiry.status # "unknown") =>
        ~\E i \in DOMAIN Lines(text) : \E it \in Range(Lines(text)[i].items) :
            it.of = "party" /\ Said(it.value) = <<result.expiry.date[1].w>>
=============================================================================
