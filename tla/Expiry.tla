------------------------------- MODULE Expiry -------------------------------
(* Does the document expire, and has it (expiry.py).  A date is a word of the *)
(* text; DateDays says how many days from today it falls, or MonthOnly when   *)
(* it names no day.  The windows that say how far a label reaches, in         *)
(* characters in the code, count words here.                                  *)
EXTENDS Fidelity

CONSTANTS
    ExpiryRank,     \* what each expiry label is worth, 1..3
    Subjects,       \* the words that make a date some other document's
    DateDays,       \* the days from today to each date
    MonthOnly,      \* a month and a year, no day
    ExpiryKeys,     \* the registry keys of expiry fields
    StateLabels,    \* the labels and keys of a lifecycle state
    StateOf,        \* the state each value declares
    SOON_DAYS, SubjectWindow, DateWindow

(* A label is a list of words; it is worth one, two or three (expiry.py,       *)
(* _label_rank); the windows are lengths.                                     *)
ASSUME LabelAssumption ==
    /\ \A l \in DOMAIN ExpiryRank : IsList(l) /\ l # <<>> /\ ExpiryRank[l] \in 1..3
    /\ SubjectWindow \in Nat /\ DateWindow \in Nat

IsDate(word) == word.w \in DOMAIN DateDays

(* The expiry labels printed at i, and where each ends.                       *)
LabelsAt(T, i) ==
    {l \in DOMAIN ExpiryRank :
        i + Len(l) - 1 <= Len(T) /\ \A k \in DOMAIN l : T[i + k - 1].w = l[k]}

(* Highest rank first, then the longest wording: the order of the patterns.   *)
_label_rank(l) == ExpiryRank[l]
LabelAt(T, i) ==
    CHOOSE l \in LabelsAt(T, i) : \A o \in LabelsAt(T, i) :
        _label_rank(l) > _label_rank(o)
            \/ (_label_rank(l) = _label_rank(o) /\ Len(l) >= Len(o))

(* The words right after a label say whose date it announces.                 *)
_subject_is_elsewhere(T, end) ==
    \E k \in (end + 1)..Min({Len(T), end + SubjectWindow}) : T[k].w \in Subjects

(* A date on another line is as good as one on the label's own.               *)
FarBy_flat(T, end, at) == 0
FarBy(T, end, at) == IF T[at].row = T[end].row THEN 0 ELSE 1

(* Tier 2: the first date each label of the instrument reaches, the most      *)
(* specific label first and, among those, the first date; a date on a later   *)
(* line is weaker evidence.                                                   *)
Reached(T, i) ==
    LET end == i + Len(LabelAt(T, i)) - 1
        dates == {k \in (end + 1)..Min({Len(T), end + 1 + DateWindow}) : IsDate(T[k])}
    IN IF LabelsAt(T, i) = {} \/ _subject_is_elsewhere(T, end) \/ dates = {} THEN {}
       ELSE {[label |-> LabelAt(T, i), at |-> Min(dates),
              rank |-> _label_rank(LabelAt(T, i)) - FarBy(T, end, Min(dates))]}

scan(T) ==
    LET cands == UNION {Reached(T, i) : i \in DOMAIN T}
    IN IF cands = {} THEN None
       ELSE LET best == CHOOSE c \in cands : \A o \in cands :
                            c.rank > o.rank \/ (c.rank = o.rank /\ c.at <= o.at)
            IN [date |-> T[best.at].w, label |-> best.label]

(* Tier 1: an expiry field the structurer already produced — by its key, or   *)
(* by a printed label the scan would trust.                                   *)
TrustedLabel(label) ==
    LET L == [k \in DOMAIN label |-> Word(label[k])]
        at == {i \in DOMAIN L : LabelsAt(L, i) # {}}
    IN at # {} /\ LET l == LabelAt(L, Min(at))
                  IN _label_rank(l) >= 2
                     /\ ~_subject_is_elsewhere(L, Min(at) + Len(l) - 1)

DatesIn(value) == {k \in DOMAIN value : IsDate(value[k])}

_from_fields(fields) ==
    LET ours == {i \in DOMAIN fields :
                    /\ fields[i].key \in ExpiryKeys \/ TrustedLabel(fields[i].label)
                    /\ DatesIn(fields[i].value) # {}}
    IN IF ours = {} THEN None
       ELSE LET f == fields[Min(ours)]
            IN [date |-> f.value[Min(DatesIn(f.value))].w, label |-> f.label,
                source |-> f.source]

(* A lifecycle state is reported beside the verdict and never merged into it. *)
declared_state(fields) ==
    LET said == {i \in DOMAIN fields :
                    /\ fields[i].key \in StateLabels \/ fields[i].label \in StateLabels
                    /\ \E k \in DOMAIN fields[i].value :
                            fields[i].value[k].w \in DOMAIN StateOf}
        v == fields[Min(said)].value
    IN IF said = {} THEN None
       ELSE StateOf[v[Min({k \in DOMAIN v : v[k].w \in DOMAIN StateOf})].w]

-----------------------------------------------------------------------------
(* Tier 3 reads the text in overlapping windows cut at line boundaries.       *)
(* Windows that do not overlap.                                               *)

(* Lines are short beside the overlap, so every window begins with the line   *)
(* the one before it ended with.                                              *)
_chunks(text, size, limit) ==
    IF Len(text) <= size THEN <<text>>
    ELSE LET step == size - 1
             n == (Len(text) - 1 + step - 1) \div step
         IN [c \in 1..Min({n, limit}) |->
                SubSeq(text, (c - 1) * step + 1, Min({Len(text), (c - 1) * step + size}))]

-----------------------------------------------------------------------------
(* The verdict: today is the last valid day, not the first expired one.       *)
verdict_of(days) ==
    IF days < 0 THEN "expired" ELSE IF days <= SOON_DAYS THEN "expiring_soon" ELSE "valid"

NoDate(state) ==
    [status |-> "unknown", date |-> None, basis |-> "", verified |-> FALSE,
     source |-> None, override |-> state]

Settles(date, basis, verified) ==
    DateDays[date] # MonthOnly /\ (basis = "model" => verified)

(* What is said of a date found on some basis, cited and checked on the text. *)
Judged(T, date, label, basis, cited, state) ==
    LET value == <<Number(date, "ascii")>>
        source == IF cited # None THEN cited
                  ELSE locate(T, value, IF label = <<>> THEN {} ELSE {label}, None)
        verified == check(T, value).verified \/ (source # None /\ ~source.approx)
    IN [status |-> IF Settles(date, basis, verified) THEN verdict_of(DateDays[date])
                   ELSE "unknown",
        date |-> restore(T, value), basis |-> basis, verified |-> verified,
        source |-> source, override |-> state]

(* Tiers 1 and 2, which cost nothing; None when they find no date.            *)
detect(T, fields) ==
    LET state == declared_state(fields)
        hit == _from_fields(fields)
        found == scan(T)
    IN IF hit # None
       THEN Judged(T, hit.date, hit.label, "template_field", hit.source, state)
       ELSE IF found # None THEN Judged(T, found.date, found.label, "label", None, state)
       ELSE None
=============================================================================
