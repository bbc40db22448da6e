---------------------------- MODULE DocumentProofs ----------------------------
(* What a document's reader may rely on, proved: the result and the validity  *)
(* it is given (Structuring.tla, Expiry.tla), for any texts and answers.      *)
EXTENDS ReadingProofs, Structuring

-----------------------------------------------------------------------------
(* The expiry scan.                                                           *)

(* Of the labels printed at a place one is chosen.                            *)
LEMMA LabelAtIs ==
    ASSUME NEW T, IsList(T), NEW i \in DOMAIN T, LabelsAt(T, i) # {}
    PROVE  /\ LabelAt(T, i) \in LabelsAt(T, i)
           /\ _label_rank(LabelAt(T, i)) \in 1..3
           /\ Len(LabelAt(T, i)) \in Nat \ {0}
<1> DEFINE L == LabelsAt(T, i)
           better(l, o) == \/ _label_rank(l) > _label_rank(o)
                           \/ (_label_rank(l) = _label_rank(o) /\ Len(l) >= Len(o))
<1>1. i \in Nat /\ Len(T) \in Nat
  BY ListIsFinite
<1>2. ASSUME NEW l \in L
      PROVE  /\ _label_rank(l) \in 1..3 /\ Len(l) \in Nat \ {0}
             /\ Len(l) <= Len(T) + 1
  <2>1. l \in DOMAIN ExpiryRank /\ i + Len(l) - 1 <= Len(T)
    BY DEF LabelsAt
  <2>2. IsList(l) /\ l # <<>> /\ ExpiryRank[l] \in 1..3
    BY <2>1, LabelAssumption
  <2>3. l \in Seq(Range(l))
    BY <2>2 DEF IsList
  <2>4. Len(l) \in Nat \ {0}
    <3> DEFINE R == Range(l)
    <3>1. l \in Seq(R) /\ l # <<>>
      BY <2>2, <2>3
    <3> HIDE DEF R
    <3> QED
      BY <3>1
  <2> QED
    BY <1>1, <2>1, <2>2, <2>4 DEF _label_rank
<1>3. PICK first \in L : \A o \in L : better(first, o)
  <2> HIDE DEF L
  <2> DEFINE A == {3 - _label_rank(l) : l \in L}
  <2>1. A \in SUBSET Nat /\ A # {}
    <3>1. \A l \in L : 3 - _label_rank(l) \in Nat
      BY <1>2
    <3> QED
      BY <3>1 DEF L
  <2>2. PICK a \in A : \A b \in A : a <= b
    <3> HIDE DEF A
    <3> QED
      BY <2>1, LeastNumber
  <2> DEFINE M == {l \in L : 3 - _label_rank(l) = a}
             B == {Len(T) + 1 - Len(l) : l \in M}
  <2>3. B \in SUBSET Nat /\ B # {}
    <3>1. \A l \in M : Len(T) + 1 - Len(l) \in Nat
      BY <1>1, <1>2
    <3>2. M # {}
      OBVIOUS
    <3> HIDE DEF M
    <3> QED
      BY <3>1, <3>2
  <2>4. PICK b \in B : \A d \in B : b <= d
    <3> HIDE DEF B
    <3> QED
      BY <2>3, LeastNumber
  <2>5. PICK top \in M : b = Len(T) + 1 - Len(top)
    OBVIOUS
  <2>6. ASSUME NEW o \in L PROVE better(top, o)
    <3>1. /\ _label_rank(top) \in Int /\ _label_rank(o) \in Int
          /\ Len(top) \in Int /\ Len(o) \in Int /\ Len(T) \in Int
      BY <1>1, <1>2
    <3>2. 3 - _label_rank(top) = a
      OBVIOUS
    <3>3. a <= 3 - _label_rank(o)
      BY <2>2
    <3>4. CASE _label_rank(top) = _label_rank(o)
      <4>1. o \in M
        BY <3>2, <3>4
      <4>2. b <= Len(T) + 1 - Len(o)
        BY <2>4, <4>1
      <4> QED
        BY <2>5, <3>1, <3>4, <4>2
    <3>5. CASE _label_rank(top) # _label_rank(o)
      BY <3>1, <3>2, <3>3, <3>5
    <3> QED
      BY <3>4, <3>5
  <2> QED
    BY <2>6
<1>4. LabelAt(T, i) = CHOOSE l \in L : \A o \in L : better(l, o)
  BY DEF LabelAt
<1>5. LabelAt(T, i) \in L
  <2> HIDE DEF L, better
  <2> QED
    BY <1>3, <1>4
<1> QED
  BY <1>2, <1>5

(* The place after a label, and what is reached from it.                      *)
LabelEnd(T, i) == i + Len(LabelAt(T, i)) - 1
Near(T, i) ==
    {k \in (LabelEnd(T, i) + 1)..(LabelEnd(T, i) + 1 + DateWindow) : k \in DOMAIN T /\ IsDate(T[k])}

(* A place reaches the first date after its label, if any.                    *)
LEMMA ReachedIs ==
    ASSUME NEW T, IsList(T), NEW i \in DOMAIN T
    PROVE  IF LabelsAt(T, i) = {} \/ _subject_is_elsewhere(T, LabelEnd(T, i)) \/ Near(T, i) = {}
           THEN Reached(T, i) = {}
           ELSE /\ LabelEnd(T, i) \in Nat
                /\ Min(Near(T, i)) \in Near(T, i)
                /\ \A k \in Near(T, i) : Min(Near(T, i)) <= k
                /\ Reached(T, i) = {[label |-> LabelAt(T, i), at |-> Min(Near(T, i)),
                        rank |-> _label_rank(LabelAt(T, i))
                                    - FarBy(T, LabelEnd(T, i), Min(Near(T, i)))]}
<1>1. i \in Nat /\ Len(T) \in Nat /\ DOMAIN T = 1..Len(T)
  BY ListIsFinite
<1>2. CASE LabelsAt(T, i) = {}
  BY <1>2 DEF Reached
<1>3. CASE LabelsAt(T, i) # {}
  <2> DEFINE e == LabelEnd(T, i)
             dates == {k \in (e + 1)..Min({Len(T), e + 1 + DateWindow}) : IsDate(T[k])}
  <2>1. e \in Nat
    BY <1>1, <1>3, LabelAtIs DEF LabelEnd
  <2>2. dates = Near(T, i)
    <3> DEFINE a == Len(T)
               b == e + 1 + DateWindow
    <3>1. a \in Int /\ b \in Int
      BY <1>1, <2>1, LabelAssumption
    <3>2. Min({a, b}) = IF a <= b THEN a ELSE b
      <4> HIDE DEF a, b
      <4> QED
        BY <3>1, MinOfTwo
    <3>3. DateWindow \in Int
      BY LabelAssumption
    <3> HIDE DEF e
    <3>4. \A k : k \in (e + 1)..Min({a, b}) <=> (k \in (e + 1)..b /\ k \in DOMAIN T)
      BY <1>1, <2>1, <3>1, <3>2, <3>3
    <3> QED
      BY <3>4 DEF Near, e
  <2>3. Reached(T, i) = IF _subject_is_elsewhere(T, e) \/ dates = {} THEN {}
          ELSE {[label |-> LabelAt(T, i), at |-> Min(dates),
                 rank |-> _label_rank(LabelAt(T, i)) - FarBy(T, e, Min(dates))]}
    BY <1>3 DEF Reached, LabelEnd
  <2>4. Near(T, i) \in SUBSET Nat
    BY <1>1 DEF Near
  <2>5. Near(T, i) # {} => /\ Min(Near(T, i)) \in Near(T, i)
                           /\ \A k \in Near(T, i) : Min(Near(T, i)) <= k
    BY <2>4, MinIs
  <2> HIDE DEF e, dates
  <2>6. LabelEnd(T, i) = e
    BY DEF e
  <2> QED
    BY <1>3, <2>1, <2>2, <2>3, <2>5, <2>6
<1> QED
  BY <1>2, <1>3

(* The candidates of a scan, and that one of them is best.                    *)
Cands(T) == UNION {Reached(T, i) : i \in DOMAIN T}
Beats(c, o) == c.rank > o.rank \/ (c.rank = o.rank /\ c.at <= o.at)

(* A candidate is a date at a place, worth three at most.                     *)
LEMMA CandIs ==
    ASSUME NEW T, IsList(T), NEW c \in Cands(T)
    PROVE  c.rank \in Int /\ c.rank <= 3 /\ c.at \in Nat /\ c.at \in DOMAIN T
<1>1. PICK i \in DOMAIN T : c \in Reached(T, i)
  BY DEF Cands
<1>2. /\ c.at = Min(Near(T, i)) /\ c.at \in Near(T, i)
      /\ c.rank = _label_rank(LabelAt(T, i)) - FarBy(T, LabelEnd(T, i), Min(Near(T, i)))
      /\ LabelsAt(T, i) # {}
  BY <1>1, ReachedIs
<1>3. _label_rank(LabelAt(T, i)) \in 1..3
  BY <1>2, LabelAtIs
<1>4. FarBy(T, LabelEnd(T, i), Min(Near(T, i))) \in {0, 1}
  BY DEF FarBy
<1>5. c.at \in DOMAIN T
  BY <1>2 DEF Near
<1>6. DOMAIN T = 1..Len(T) /\ Len(T) \in Nat
  BY ListIsFinite
<1> QED
  BY <1>2, <1>3, <1>4, <1>5, <1>6

(* The scan takes a candidate that beats all others.                          *)
LEMMA ScanIs ==
    ASSUME NEW T, IsList(T), Cands(T) # {}
    PROVE  /\ scan(T) = [date |-> T[(CHOOSE c \in Cands(T) : \A o \in Cands(T) : Beats(c, o)).at].w,
                         label |-> (CHOOSE c \in Cands(T) : \A o \in Cands(T) : Beats(c, o)).label]
           /\ (CHOOSE c \in Cands(T) : \A o \in Cands(T) : Beats(c, o)) \in Cands(T)
           /\ \A o \in Cands(T) : Beats(CHOOSE c \in Cands(T) : \A d \in Cands(T) : Beats(c, d), o)
<1> DEFINE C == Cands(T)
           A == {3 - c.rank : c \in C}
<1>0. \A c \in C : c.rank \in Int /\ c.rank <= 3 /\ c.at \in Nat
  BY CandIs
<1> HIDE DEF C
<1>1. A \in SUBSET Nat /\ A # {}
  BY <1>0 DEF C
<1>2. PICK a \in A : \A b \in A : a <= b
  <2> HIDE DEF A
  <2> QED
    BY <1>1, LeastNumber
<1> DEFINE M == {c \in C : 3 - c.rank = a}
           B == {c.at : c \in M}
<1>3. B \in SUBSET Nat /\ B # {}
  <2>1. M # {}
    OBVIOUS
  <2>2. \A c \in M : c.at \in Nat
    BY <1>0
  <2> HIDE DEF M
  <2> QED
    BY <2>1, <2>2
<1>4. PICK b \in B : \A d \in B : b <= d
  <2> HIDE DEF B
  <2> QED
    BY <1>3, LeastNumber
<1>5. PICK c \in M : c.at = b
  OBVIOUS
<1>6. ASSUME NEW o \in C PROVE Beats(c, o)
  <2>1. c.rank \in Int /\ o.rank \in Int /\ c.at \in Int /\ o.at \in Int
    BY <1>0
  <2>2. 3 - c.rank = a /\ a <= 3 - o.rank
    BY <1>2
  <2>3. CASE c.rank = o.rank
    <3>1. o \in M
      BY <2>2, <2>3
    <3>2. b <= o.at
      BY <1>4, <3>1
    <3> QED
      BY <1>5, <2>3, <3>2 DEF Beats
  <2>4. CASE c.rank # o.rank
    BY <2>1, <2>2, <2>4 DEF Beats
  <2> QED
    BY <2>3, <2>4
<1>7. \E d \in C : \A o \in C : Beats(d, o)
  BY <1>6
<1> DEFINE best == CHOOSE d \in C : \A o \in C : Beats(d, o)
<1>8. best \in C /\ \A o \in C : Beats(best, o)
  <2>1. best \in C
    BY <1>7
  <2>2. \A o \in C : Beats(best, o)
    BY <1>7
  <2> QED
    BY <2>1, <2>2
<1>9. scan(T) = [date |-> T[best.at].w, label |-> best.label]
  BY DEF scan, C, Cands, Beats
<1> QED
  BY <1>8, <1>9 DEF C

(* The document's own date is a candidate, and only it is worth three.        *)
LEMMA OwnIsCandidate ==
    ASSUME IsList(fid), NEW k \in DOMAIN fid, OwnDateOnLine(k)
    PROVE  \E c \in Cands(fid) : c.rank = 3 /\ c.at = k
<1>1. PICK i \in DOMAIN fid :
            /\ LabelsAt(fid, i) # {}
            /\ _label_rank(LabelAt(fid, i)) = 3 /\ ~_subject_is_elsewhere(fid, LabelEnd(fid, i))
            /\ k \in (LabelEnd(fid, i) + 1)..(LabelEnd(fid, i) + 1 + DateWindow)
            /\ fid[k].row = fid[LabelEnd(fid, i)].row
            /\ IsDate(fid[k])
            /\ \A j \in (LabelEnd(fid, i) + 1)..(k - 1) : ~IsDate(fid[j])
  BY DEF OwnDateOnLine, LabelEnd
<1>2. k \in Near(fid, i)
  BY <1>1 DEF Near
<1>3. /\ LabelEnd(fid, i) \in Nat
      /\ Min(Near(fid, i)) \in Near(fid, i)
      /\ \A j \in Near(fid, i) : Min(Near(fid, i)) <= j
      /\ Reached(fid, i) = {[label |-> LabelAt(fid, i), at |-> Min(Near(fid, i)),
                        rank |-> _label_rank(LabelAt(fid, i))
                                    - FarBy(fid, LabelEnd(fid, i), Min(Near(fid, i)))]}
  BY <1>1, <1>2, ReachedIs
<1>4. Min(Near(fid, i)) = k
  <2> DEFINE m == Min(Near(fid, i))
  <2>1. m \in Near(fid, i) /\ m <= k
    BY <1>2, <1>3
  <2>2. m \in (LabelEnd(fid, i) + 1)..(LabelEnd(fid, i) + 1 + DateWindow) /\ IsDate(fid[m])
    BY <2>1 DEF Near
  <2>3. m \in Int /\ k \in Int /\ LabelEnd(fid, i) + 1 <= m
    BY <1>1, <1>3, <2>2, LabelAssumption
  <2>4. m \notin (LabelEnd(fid, i) + 1)..(k - 1)
    BY <1>1, <2>2
  <2> HIDE DEF m
  <2>5. ~(m <= k - 1)
    BY <1>3, <2>3, <2>4
  <2>6. m = k
    BY <2>1, <2>3, <2>5
  <2> QED
    BY <2>6 DEF m
<1>5. FarBy(fid, LabelEnd(fid, i), k) = 0
  BY <1>1 DEF FarBy
<1> DEFINE c == [label |-> LabelAt(fid, i), at |-> k, rank |-> 3]
<1>6. Reached(fid, i) = {c}
  BY <1>1, <1>3, <1>4, <1>5
<1>7. c \in Cands(fid)
  BY <1>6 DEF Cands
<1> QED
  BY <1>7

(* A candidate worth three is a date of the document's own.                   *)
LEMMA CandidateIsOwn ==
    ASSUME IsList(fid), NEW c \in Cands(fid), c.rank = 3
    PROVE  c.at \in DOMAIN fid /\ OwnDateOnLine(c.at)
<1>1. PICK i \in DOMAIN fid : c \in Reached(fid, i)
  BY DEF Cands
<1>2. /\ LabelsAt(fid, i) # {} /\ ~_subject_is_elsewhere(fid, LabelEnd(fid, i))
      /\ c.at = Min(Near(fid, i)) /\ c.at \in Near(fid, i)
      /\ \A j \in Near(fid, i) : c.at <= j
      /\ LabelEnd(fid, i) \in Nat
      /\ c.rank = _label_rank(LabelAt(fid, i)) - FarBy(fid, LabelEnd(fid, i), c.at)
  BY <1>1, ReachedIs
<1>3. _label_rank(LabelAt(fid, i)) \in 1..3
  BY <1>2, LabelAtIs
<1>4. /\ _label_rank(LabelAt(fid, i)) = 3
      /\ fid[c.at].row = fid[LabelEnd(fid, i)].row
  <2>1. FarBy(fid, LabelEnd(fid, i), c.at) \in {0, 1}
    BY DEF FarBy
  <2>2. FarBy(fid, LabelEnd(fid, i), c.at) = 0 /\ _label_rank(LabelAt(fid, i)) = 3
    BY <1>2, <1>3, <2>1
  <2> QED
    BY <2>2 DEF FarBy
<1>5. /\ c.at \in (LabelEnd(fid, i) + 1)..(LabelEnd(fid, i) + 1 + DateWindow)
      /\ c.at \in DOMAIN fid /\ IsDate(fid[c.at])
  BY <1>2 DEF Near
<1>6. ASSUME NEW j \in (LabelEnd(fid, i) + 1)..(c.at - 1) PROVE ~IsDate(fid[j])
  <2>1. DOMAIN fid = 1..Len(fid) /\ Len(fid) \in Nat
    BY ListIsFinite
  <2>2. j \in DOMAIN fid /\ ~(c.at <= j)
        /\ j \in (LabelEnd(fid, i) + 1)..(LabelEnd(fid, i) + 1 + DateWindow)
    BY <1>2, <1>5, <2>1, LabelAssumption
  <2>3. j \notin Near(fid, i)
    BY <1>2, <2>2
  <2> QED
    BY <2>2, <2>3 DEF Near
<1> QED
  BY <1>2, <1>4, <1>5, <1>6 DEF OwnDateOnLine, LabelEnd

(* The scan never passes over the document's own date, and takes the first.   *)
LEMMA ScanTakesOwn ==
    ASSUME IsList(fid),
           NEW own, own = {k \in DOMAIN fid : OwnDateOnLine(k)}, own # {}
    PROVE  scan(fid).date = fid[Min(own)].w
<1> DEFINE best == CHOOSE c \in Cands(fid) : \A o \in Cands(fid) : Beats(c, o)
<1>1. own \in SUBSET Nat
  BY ListIsFinite
<1>2. Min(own) \in own /\ \A k \in own : Min(own) <= k
  BY <1>1, MinIs
<1>3. PICK c \in Cands(fid) : c.rank = 3 /\ c.at = Min(own)
  BY <1>2, OwnIsCandidate
<1>4. /\ scan(fid).date = fid[best.at].w
      /\ best \in Cands(fid) /\ Beats(best, c)
  BY <1>3, ScanIs
<1>5. best.rank = 3 /\ best.at <= Min(own)
  <2>1. best.rank \in Int /\ best.rank <= 3
    BY <1>4, CandIs
  <2> HIDE DEF best
  <2> QED
    BY <1>3, <1>4, <2>1 DEF Beats
<1>6. best.at \in own
  <2>1. best.at \in DOMAIN fid /\ OwnDateOnLine(best.at)
    <3> HIDE DEF best
    <3> QED
      BY <1>4, <1>5, CandidateIsOwn
  <2> QED
    BY <2>1
<1>7. best.at = Min(own)
  <2>1. Min(own) <= best.at /\ best.at \in Nat /\ Min(own) \in Nat
    BY <1>1, <1>2, <1>6
  <2> HIDE DEF best
  <2> QED
    BY <1>5, <2>1
<1> QED
  BY <1>4, <1>7

(* Restoring the digits of a date keeps what it says, and where it stands.    *)
LEMMA RestoredDate ==
    ASSUME NEW T, NEW date, NEW value, value = <<Number(date, "ascii")>>
    PROVE  /\ restore(T, value)[1].w = date
           /\ Len(restore(T, value)) = 1 /\ DOMAIN restore(T, value) = 1..1
           /\ find_all(T, restore(T, value)) = find_all(T, value)
<1> DEFINE r == restore(T, value)
<1>1. /\ DOMAIN value = 1..1 /\ Len(value) = 1
      /\ value[1].w = date /\ value[1].form = "ascii"
  BY DEF Number
<1>2. r = [i \in 1..1 |-> IF value[i].form = "" THEN value[i]
                          ELSE IF FormIn(T, value[i].w) = None THEN value[i]
                          ELSE Number(value[i].w, FormIn(T, value[i].w))]
  BY <1>1 DEF restore, map_tokens
<1> HIDE DEF r
<1>3. r[1].w = date
  <2> DEFINE v == value[1]
             n == Number(v.w, FormIn(T, v.w))
  <2>1. r[1] = v \/ r[1] = n
    <3>1. 1 \in 1..1
      OBVIOUS
    <3>2. r[1] = IF v.form = "" THEN v ELSE IF FormIn(T, v.w) = None THEN v ELSE n
      BY <1>2, <3>1
    <3> HIDE DEF v, n
    <3> QED
      BY <3>2
  <2>2. Number(value[1].w, FormIn(T, value[1].w)).w = value[1].w
    BY DEF Number
  <2> QED
    BY <1>1, <2>1, <2>2
<1>4. Len(r) = 1 /\ DOMAIN r = 1..1
  <2>1. r = [i \in 1..1 |-> r[i]]
    BY <1>2
  <2> QED
    BY <2>1, ListOf
<1>5. Starts(T, r) = Starts(T, value)
  <2>1. \A k \in 1..1 : r[k].w = value[k].w
    BY <1>1, <1>3
  <2> QED
    BY <1>1, <1>4, <2>1 DEF Starts
<1>6. find_all(T, r) = find_all(T, value)
  BY <1>1, <1>4, <1>5 DEF find_all
<1> QED
  BY <1>3, <1>4, <1>6 DEF r

(* What an expiry says is backed: by the scan, or by a date with a day that   *)
(* the page prints if only the model read it.                                 *)
Backed(e) ==
    /\ e.basis = "label" => scan(fid) # None /\ e.date[1].w = scan(fid).date
    /\ e.status # "unknown" =>
        /\ DateDays[e.date[1].w] # MonthOnly
        /\ e.basis = "model" => has(fid, e.date)

(* A citation that is not approximate is of the value itself.                 *)
LEMMA ExactIsPrinted ==
    ASSUME NEW T, NEW value, value # <<>>, NEW labels,
           locate(T, value, labels, None) # None, ~locate(T, value, labels, None).approx
    PROVE  has(T, value)
<1>1. find(T, value, labels, None, None) # None
  BY DEF locate
<1>2. find_all(T, value) # {}
  BY <1>1 DEF find
<1> QED
  BY <1>2 DEF has

(* A verdict on a date is backed.                                             *)
LEMMA JudgedIsBacked ==
    ASSUME NEW date, NEW label, NEW basis, NEW cited, NEW said,
           basis = "label" => scan(fid) # None /\ date = scan(fid).date,
           basis = "model" => label = <<>> /\ cited = None
    PROVE  Backed(Judged(fid, date, label, basis, cited, said))
<1> DEFINE value == <<Number(date, "ascii")>>
           source == IF cited # None THEN cited
                     ELSE locate(fid, value, IF label = <<>> THEN {} ELSE {label}, None)
           verified == check(fid, value).verified \/ (source # None /\ ~source.approx)
           e == Judged(fid, date, label, basis, cited, said)
<1>1. /\ e.date = restore(fid, value) /\ e.basis = basis
      /\ e.status # "unknown" => Settles(date, basis, verified)
  BY DEF Judged
<1>2. e.date[1].w = date
  BY <1>1, RestoredDate
<1>3. value # <<>>
  OBVIOUS
<1>4. has(fid, restore(fid, value)) = has(fid, value)
  <2>1. find_all(fid, restore(fid, value)) = find_all(fid, value)
    BY RestoredDate
  <2> QED
    BY <2>1 DEF has
<1> HIDE DEF value, e
<1>5. ASSUME basis = "model", verified PROVE has(fid, restore(fid, value))
  <2>1. CASE check(fid, value).verified
    BY <1>3, <2>1 DEF check
  <2>2. CASE source # None /\ ~source.approx
    <3>1. source = locate(fid, value, {}, None)
      BY <1>5
    <3>2. has(fid, value)
      <4> HIDE DEF source
      <4> QED
        BY <1>3, <2>2, <3>1, ExactIsPrinted
    <3> QED
      BY <1>4, <3>2
  <2> QED
    BY <1>5, <2>1, <2>2
<1>6. e.status # "unknown" => DateDays[date] # MonthOnly /\ (basis = "model" => verified)
  BY <1>1 DEF Settles
<1>7. Backed(e)
  <2> HIDE DEF verified
  <2> QED
    BY <1>1, <1>2, <1>5, <1>6 DEF Backed
<1> QED
  BY <1>7 DEF e

-----------------------------------------------------------------------------
(* The index of a text.                                                       *)

(* A list of words.                                                           *)
IsWords(v) == IsList(v) /\ \A x \in Range(v) : x = Number(x.w, x.form)

(* So is a value.                                                             *)
LEMMA ValueIsWords == ASSUME NEW v, IsValue(v) PROVE IsWords(v)
  BY DEF IsValue, IsWords

(* A line's words, as they are in the text or in a page marker.               *)
LEMMA WordsAre ==
    ASSUME NEW line, IsList(line.items),
           \A it \in Range(line.items) : IsList(it.label) /\ IsWords(it.value)
    PROVE  /\ IsWords(Words(line))
           /\ IsMarker(line) => \A x \in Range(Words(line)) : x.form = ""
<1>1. ASSUME NEW w PROVE IsWords(<<Word(w)>>) /\ \A x \in Range(<<Word(w)>>) : x.form = ""
  <2> DEFINE x == Word(w)
  <2>1. x = Number(x.w, x.form) /\ x.form = ""
    BY DEF Word, Number
  <2> HIDE DEF x
  <2>2. IsList(<<x>>) /\ Range(<<x>>) = {x}
    <3>1. <<x>> \in Seq({x})
      OBVIOUS
    <3>2. IsList(<<x>>)
      BY <3>1, SeqIsList
    <3> QED
      BY <3>2 DEF Range
  <2>3. IsWords(<<x>>) /\ \A y \in Range(<<x>>) : y.form = ""
    BY <2>1, <2>2 DEF IsWords
  <2> QED
    BY <2>3 DEF x
<1>2. CASE IsMarker(line)
  <2>1. Words(line) = <<Word(ToString(line.page))>>
    BY <1>2 DEF Words
  <2> QED
    BY <1>1, <2>1
<1>3. CASE ~IsMarker(line)
  <2> DEFINE head == IF line.head = "" THEN <<>> ELSE <<Word(line.head)>>
             label(i) == [k \in DOMAIN line.items[i].label |-> Word(line.items[i].label[k])]
             items == [i \in DOMAIN line.items |-> label(i) \o line.items[i].value]
  <2>1. Words(line) = head \o FlattenSeq(items)
    BY <1>3 DEF Words
  <2>2. IsWords(head)
    <3>1. IsWords(<<>>)
      BY DEF IsWords, IsList, Range
    <3> QED
      BY <1>1, <3>1
  <2>3. ASSUME NEW i \in DOMAIN line.items PROVE IsWords(items[i])
    <3> DEFINE a == label(i)
               b == line.items[i].value
    <3>1. IsList(line.items[i].label) /\ IsWords(b)
      <4>1. line.items[i] \in Range(line.items)
        BY DEF Range
      <4> QED
        BY <4>1
    <3>2. IsWords(a)
      <4>1. DOMAIN line.items[i].label = 1..Len(line.items[i].label)
            /\ Len(line.items[i].label) \in Nat
        BY <3>1, ListIsFinite
      <4>2. a = [k \in 1..Len(line.items[i].label) |-> a[k]]
        BY <4>1
      <4> HIDE DEF a
      <4>3. IsList(a) /\ DOMAIN a = 1..Len(line.items[i].label)
        BY <4>1, <4>2, ListOf
      <4>4. \A k \in DOMAIN a : a[k] = Word(line.items[i].label[k])
        BY <4>1, <4>3 DEF a
      <4>5. ASSUME NEW x \in Range(a) PROVE x = Number(x.w, x.form)
        <5>1. PICK k \in DOMAIN a : x = a[k]
          BY DEF Range
        <5>2. x = Word(line.items[i].label[k])
          BY <4>4, <5>1
        <5> QED
          BY <5>2 DEF Word, Number
      <4> QED
        BY <4>3, <4>5 DEF IsWords
    <3>3. items[i] = a \o b
      OBVIOUS
    <3> HIDE DEF a, b, items
    <3>4. IsList(a \o b) /\ Range(a \o b) = Range(a) \cup Range(b)
      BY <3>1, <3>2, BothLists DEF IsWords
    <3>5. IsWords(a \o b)
      BY <3>1, <3>2, <3>4 DEF IsWords
    <3> QED
      BY <3>3, <3>5
  <2>4. IsList(items) /\ DOMAIN items = DOMAIN line.items
    <3>1. DOMAIN line.items = 1..Len(line.items) /\ Len(line.items) \in Nat
      BY ListIsFinite
    <3>2. items = [i \in 1..Len(line.items) |-> items[i]]
      BY <3>1
    <3> HIDE DEF items
    <3> QED
      BY <3>1, <3>2, ListOf
  <2> HIDE DEF items, head
  <2>5. IsList(FlattenSeq(items))
        /\ Range(FlattenSeq(items)) = UNION {Range(items[i]) : i \in DOMAIN items}
    BY <2>3, <2>4, FlattenRange DEF IsWords
  <2>6. \A x \in Range(FlattenSeq(items)) : x = Number(x.w, x.form)
    BY <2>3, <2>4, <2>5 DEF IsWords
  <2>7. IsList(head \o FlattenSeq(items))
        /\ Range(head \o FlattenSeq(items)) = Range(head) \cup Range(FlattenSeq(items))
    BY <2>2, <2>5, BothLists DEF IsWords
  <2>8. IsWords(head \o FlattenSeq(items))
    BY <2>2, <2>6, <2>7 DEF IsWords
  <2> QED
    BY <1>3, <2>1, <2>8
<1> QED
  BY <1>2, <1>3

(* A word of the index is printed on a line, and says so.                     *)
Stands(x, lines) ==
    \E i \in DOMAIN lines : \E j \in DOMAIN Words(lines[i]) :
        x = PrintedAt(lines, i, Words(lines[i])[j])

(* The index lists words of the text.                                         *)
LEMMA LocatorIs ==
    ASSUME NEW t \in DOMAIN DOCS
    PROVE  /\ IsList(Locator(Lines(t)))
           /\ \A x \in Range(Locator(Lines(t))) : Stands(x, Lines(t))
<1> DEFINE lines == Lines(t)
           row(i) == [k \in DOMAIN Words(lines[i]) |-> PrintedAt(lines, i, Words(lines[i])[k])]
           rows == [i \in DOMAIN lines |-> row(i)]
<1>1. IsList(lines) /\ DOMAIN lines = 1..Len(lines) /\ Len(lines) \in Nat
  BY TextAssumption, ListIsFinite DEF Lines
<1>2. ASSUME NEW i \in DOMAIN lines PROVE IsWords(Words(lines[i]))
  <2>1. lines[i] \in Range(DOCS[t])
    BY DEF Range, Lines
  <2> QED
    BY <2>1, TextAssumption, WordsAre, ValueIsWords
<1>3. Locator(lines) = FlattenSeq(rows)
  BY DEF Locator
<1>4. IsList(rows) /\ DOMAIN rows = DOMAIN lines
  <2>1. rows = [i \in 1..Len(lines) |-> rows[i]]
    BY <1>1
  <2> HIDE DEF rows
  <2> QED
    BY <1>1, <2>1, ListOf
<1>5. ASSUME NEW i \in DOMAIN lines
      PROVE  /\ IsList(rows[i])
             /\ \A x \in Range(rows[i]) : Stands(x, lines)
  <2> DEFINE words == Words(lines[i])
             r == rows[i]
  <2>1. DOMAIN words = 1..Len(words) /\ Len(words) \in Nat
    <3>1. IsList(words)
      BY <1>2 DEF IsWords
    <3> HIDE DEF words
    <3> QED
      BY <3>1, ListIsFinite
  <2>2. r = [k \in DOMAIN words |-> PrintedAt(lines, i, words[k])]
    OBVIOUS
  <2> HIDE DEF r, words, lines
  <2>3. IsList(r) /\ DOMAIN r = DOMAIN words
    <3>1. r = [k \in 1..Len(words) |-> r[k]]
      BY <2>1, <2>2
    <3> QED
      BY <2>1, <3>1, ListOf
  <2>4. ASSUME NEW x \in Range(r) PROVE Stands(x, lines)
    <3>1. PICK k \in DOMAIN words : x = r[k]
      BY <2>3 DEF Range
    <3>2. x = PrintedAt(lines, i, words[k])
      BY <2>2, <3>1
    <3> QED
      BY <3>2 DEF Stands, words
  <2> QED
    BY <2>3, <2>4 DEF r
<1> HIDE DEF rows, lines
<1>6. IsList(FlattenSeq(rows))
      /\ Range(FlattenSeq(rows)) = UNION {Range(rows[i]) : i \in DOMAIN rows}
  BY <1>4, <1>5, FlattenRange
<1>7. \A x \in Range(FlattenSeq(rows)) : Stands(x, lines)
  BY <1>4, <1>5, <1>6
<1> QED
  BY <1>3, <1>6, <1>7 DEF lines

-----------------------------------------------------------------------------
(* The expiry of a request.                                                   *)
ExpiryInv ==
    /\ IsList(fid)
    /\ pc \notin {"idle", "expiry", "chunk"} => result = None
    /\ pc \in {"expiry", "chunk"} => "expiry" \in DOMAIN result
    /\ result # None => result.expiry = None \/ Backed(result.expiry)

(* It holds at the start.                                                     *)
LEMMA ExpiryInit == Init => ExpiryInv
<1> SUFFICES ASSUME Init PROVE ExpiryInv
  OBVIOUS
<1>1. IsList(<<>>)
  BY DEF IsList, Range
<1> QED
  BY <1>1 DEF Init, ExpiryInv

(* An answer's expiry is replaced and nothing else.                           *)
LEMMA WithExpiry ==
    ASSUME NEW r, "expiry" \in DOMAIN r, NEW e
    PROVE  /\ [r EXCEPT !.expiry = e].expiry = e
           /\ DOMAIN [r EXCEPT !.expiry = e] = DOMAIN r
  OBVIOUS

(* Every step keeps it.                                                       *)
LEMMA ExpiryNext == ExpiryInv /\ [Next]_vars => ExpiryInv'
<1> SUFFICES ASSUME ExpiryInv, [Next]_vars PROVE ExpiryInv'
  OBVIOUS
<1>0. IsList(<<>>)
  BY DEF IsList, Range
<1>A. ASSUME UNCHANGED <<fid, result>>, pc' = pc \/ (pc' # "expiry" /\ pc' # "chunk"),
             pc' = "idle" \/ result = None \/ pc' = pc
      PROVE  ExpiryInv'
  <2>1. Backed(result.expiry)' = Backed(result.expiry)
    BY <1>A DEF Backed
  <2> QED
    BY <1>A, <2>1 DEF ExpiryInv
<1>1. ASSUME NEW t \in DOMAIN DOCS, NEW id \in Ids(reg) \cup {"", "retired"}, Request(t, id)
      PROVE  ExpiryInv'
  <2>1. IsList(fid')
    BY <1>1, LocatorIs DEF Request
  <2>2. \/ pc' = "idle" /\ result' = Nothing(FALSE, Truncated(t))
        \/ pc' = "generic" /\ result' = None
    BY <1>1 DEF Request
  <2>3. Nothing(FALSE, Truncated(t)).expiry = None
    BY DEF Nothing
  <2> QED
    BY <2>1, <2>2, <2>3 DEF ExpiryInv
<1>2. ASSUME NEW slip \in SLIPS, NEW hit \in BOOLEAN, ReadChunk(slip, hit) PROVE ExpiryInv'
  <2>1. /\ UNCHANGED <<fid, result>> /\ pc = "generic" /\ pc' \in {"align", "generic"}
    BY <1>2 DEF ReadChunk
  <2> QED
    BY <1>A, <2>1 DEF ExpiryInv
<1>3. CASE GenericRaises
  <2>1. pc' = "idle" /\ result' = Nothing(TRUE, FALSE) /\ fid' = fid
    BY <1>3 DEF GenericRaises
  <2>2. Nothing(TRUE, FALSE).expiry = None
    BY DEF Nothing
  <2> QED
    BY <2>1, <2>2 DEF ExpiryInv
<1>4. CASE Align
  <2>1. /\ fid' = fid
        /\ \/ result' = Generic /\ pc' = "expiry"
           \/ result' = result /\ pc' = "records" /\ pc = "align"
    BY <1>4 DEF Align, Answer
  <2>2. Generic.expiry = None /\ "expiry" \in DOMAIN Generic
    BY DEF Generic
  <2> QED
    BY <2>1, <2>2, <1>A DEF ExpiryInv
<1>5. CASE Respond
  BY <1>0, <1>5 DEF Respond, ExpiryInv
<1>6. ASSUME NEW rows, RecordPass(rows) PROVE ExpiryInv'
  BY <1>6, <1>A DEF RecordPass
<1>7. CASE RecordsDone
  BY <1>7, <1>A DEF RecordsDone, ExpiryInv
<1>8. ASSUME NEW got, TargetedPass(got) PROVE ExpiryInv'
  BY <1>8, <1>A DEF TargetedPass
<1>9. CASE TargetedDone
  <2>1. fid' = fid /\ result' = Assembled /\ pc' = "expiry"
    BY <1>9 DEF TargetedDone, Answer
  <2>2. Assembled.expiry = None /\ "expiry" \in DOMAIN Assembled
    BY DEF Assembled
  <2> QED
    BY <2>1, <2>2 DEF ExpiryInv
<1>10. CASE Expires
  <2> DEFINE found == detect(fid, Stated(result))
  <2>1. /\ fid' = fid /\ "expiry" \in DOMAIN result
        /\ \/ /\ pc' = "chunk" 
              /\ result' = [result EXCEPT !.expiry = NoDate(declared_state(Stated(result)))]
           \/ found # None /\ pc' = "idle" /\ result' = [result EXCEPT !.expiry = found]
    BY <1>10 DEF Expires, ExpiryInv
  <2>2. Backed(NoDate(declared_state(Stated(result))))
    BY DEF NoDate, Backed
  <2>3. found # None => Backed(found)
    <3> DEFINE hit == _from_fields(Stated(result))
               own == scan(fid)
               said == declared_state(Stated(result))
    <3>1. \/ found = Judged(fid, hit.date, hit.label, "template_field", hit.source, said)
          \/ own # None /\ found = Judged(fid, own.date, own.label, "label", None, said)
          \/ found = None
      BY DEF detect
    <3>2. Backed(Judged(fid, hit.date, hit.label, "template_field", hit.source, said))
      BY JudgedIsBacked
    <3>3. own # None => Backed(Judged(fid, own.date, own.label, "label", None, said))
      BY JudgedIsBacked
    <3> QED
      BY <3>1, <3>2, <3>3
  <2>4. ASSUME NEW e, Backed(e), result' = [result EXCEPT !.expiry = e]
        PROVE  Backed(result.expiry)' /\ "expiry" \in DOMAIN result'
    <3>1. result'.expiry = e /\ "expiry" \in DOMAIN result'
      BY <2>1, <2>4, WithExpiry
    <3> QED
      BY <2>1, <2>4, <3>1 DEF Backed
  <2> HIDE DEF found
  <2> QED
    BY <2>1, <2>2, <2>3, <2>4 DEF ExpiryInv
<1>11. ASSUME NEW date \in DOMAIN DateDays \cup {None}, ChunkAnswer(date) PROVE ExpiryInv'
  <2> DEFINE e == Judged(fid, date, <<>>, "model", None, result.expiry.override)
  <2>1. CASE date = None
    <3>1. /\ pc = "chunk" /\ UNCHANGED <<fid, result>> /\ pc' \in {"chunk", "idle"}
      BY <1>11, <2>1 DEF ChunkAnswer
    <3> QED
      BY <3>1, <1>A
  <2>2. CASE date # None
    <3>1. /\ fid' = fid /\ "expiry" \in DOMAIN result
          /\ pc' = "idle" /\ result' = [result EXCEPT !.expiry = e]
      BY <1>11, <2>2 DEF ChunkAnswer, ExpiryInv
    <3>2. Backed(e)
      BY JudgedIsBacked
    <3> HIDE DEF e
    <3>3. result'.expiry = e
      BY <3>1, WithExpiry
    <3>4. Backed(result.expiry)'
      BY <3>1, <3>2, <3>3 DEF Backed
    <3> QED
      BY <3>1, <3>4 DEF ExpiryInv
  <2> QED
    BY <2>1, <2>2
<1>12. CASE ChunkRaises
  BY <1>12, <1>A DEF ChunkRaises
<1>13. CASE UNCHANGED vars
  BY <1>13, <1>A DEF vars
<1> QED
  BY <1>1, <1>2, <1>3, <1>4, <1>5, <1>6, <1>7, <1>8, <1>9, <1>10, <1>11, <1>12, <1>13 DEF Next

(* The validity given is the document's own: the scan takes the date of the   *)
(* label that is the instrument's, and what only the model read settles       *)
(* nothing that is not printed.                                               *)
THEOREM ValidityIsItsOwn == Spec => []ValidityIsOwn
<1>1. ExpiryInv => ValidityIsOwn
  <2> SUFFICES ASSUME ExpiryInv PROVE ValidityIsOwn
    OBVIOUS
  <2>1. OwnDateWins
    <3> SUFFICES ASSUME Done, result.expiry # None, result.expiry.basis = "label",
                        NEW own, own = {k \in DOMAIN fid : OwnDateOnLine(k)}, own # {}
                 PROVE  result.expiry.date[1].w = fid[Min(own)].w
      BY DEF OwnDateWins
    <3>1. result.expiry.date[1].w = scan(fid).date
      BY DEF ExpiryInv, Done, Backed
    <3>2. scan(fid).date = fid[Min(own)].w
      BY ScanTakesOwn DEF ExpiryInv
    <3> QED
      BY <3>1, <3>2
  <2>2. StatusIsBacked
    BY DEF StatusIsBacked, ExpiryInv, Done, Backed
  <2> QED
    BY <2>1, <2>2 DEF ValidityIsOwn
<1> QED
  BY <1>1, ExpiryInit, ExpiryNext, PTL DEF Spec

(* What starts and carries over goes all the way.                             *)
LEMMA UpTo ==
    ASSUME NEW n \in Nat, NEW G, 0 \in G, \A i \in 1..n : i - 1 \in G => i \in G
    PROVE  \A i \in 0..n : i \in G
<1> DEFINE T == {i \in 0..n : i \notin G}
<1> SUFFICES ASSUME T # {} PROVE FALSE
  OBVIOUS
<1>1. PICK m \in T : \A k \in T : m <= k
  <2>1. T \in SUBSET Nat
    OBVIOUS
  <2> HIDE DEF T
  <2> QED
    BY <2>1, LeastNumber
<1>2. m \in 1..n /\ m - 1 \in 0..n /\ ~(m <= m - 1)
  OBVIOUS
<1> QED
  BY <1>1, <1>2

(* So are the fields of the templates the process loaded.                     *)
LEMMA ExpandedIsList ==
    ASSUME NEW t \in Range(RAW.templates)
    PROVE  /\ IsList(_expand_template_fields(t, RAW.groups))
           /\ KeysUnique(t, RAW.groups)
  BY LoadedAssumption, ExpandedIs DEF Listed

(* The template of a request: its fields are a list, no key of it twice.      *)
LEMMA TemplateIs ==
    ASSUME NEW id \in Ids(reg)
    PROVE  /\ IsList(Get(reg, id).fields)
           /\ \A i, j \in DOMAIN Get(reg, id).fields :
                Get(reg, id).fields[i].key = Get(reg, id).fields[j].key => i = j
<1>1. /\ DOMAIN reg.templates = DOMAIN RAW.templates
      /\ \A i \in DOMAIN RAW.templates : reg.templates[i] = Template(RAW.templates[i], RAW)
  BY DEF reg, load_registry
<1>2. Get(reg, id) \in Range(reg.templates)
  <2>1. \E t \in Range(reg.templates) : t.id = id
    BY DEF Ids, Range
  <2> QED
    BY <2>1, Zenon DEF Get
<1>3. PICK i \in DOMAIN RAW.templates : Get(reg, id) = Template(RAW.templates[i], RAW)
  BY <1>1, <1>2 DEF Range
<1> DEFINE t == RAW.templates[i]
<1>4. t \in Range(RAW.templates)
  BY DEF Range
<1>5. Get(reg, id).fields = _expand_template_fields(t, RAW.groups)
  BY <1>3 DEF Template
<1> HIDE DEF t
<1> QED
  BY <1>4, <1>5, ExpandedIsList DEF KeysUnique

(* What the generic pass can return: items of the texts there are, as far as  *)
(* a chunk holds them, as printed or converted, under a heading or none.      *)
Chunks == [from : Nat, to : Nat, depth : 0..SPLIT_MAX_DEPTH]
PageLines == UNION {Range(DOCS[t]) : t \in DOMAIN DOCS}
DocLines == {Fragment(line, at, c) : line \in PageLines, at \in Nat, c \in Chunks}
Found == UNION {{Item(it, slip) : it \in UNION {Range(line.items) : line \in DocLines}} :
                    slip \in SLIPS}
Section == [title : {line.head : line \in DocLines} \cup {""}, fields : Seq(Found)]
Sections == Seq(Section)

(* A line of a text is a list of items, each with a value that is words.      *)
LEMMA LineIs ==
    ASSUME NEW line \in PageLines
    PROVE  /\ IsList(line.items)
           /\ \A it \in Range(line.items) : IsList(it.label) /\ IsValue(it.value)
  BY TextAssumption DEF PageLines

(* Numbers that add up, one by one.                                           *)
LEMMA SumExists ==
    ASSUME NEW n \in Nat, NEW base \in Nat, NEW len \in [1..n -> Nat]
    PROVE  \E f \in [0..n -> Nat] : f[0] = base /\ \A i \in 1..n : f[i] = f[i - 1] + len[i]
<1> DEFINE step == [x \in Nat \X ((0 + 1)..n) |-> x[1] + len[x[2]]]
<1>1. step \in [Nat \X ((0 + 1)..n) -> Nat]
  <2> SUFFICES ASSUME NEW x \in Nat \X ((0 + 1)..n) PROVE x[1] + len[x[2]] \in Nat
    OBVIOUS
  <2>1. x[1] \in Nat /\ x[2] \in 1..n
    OBVIOUS
  <2>2. len[x[2]] \in Nat
    BY <2>1
  <2> QED
    BY <2>1, <2>2
<1>2. \A k \in Nat : \A i \in (0 + 1)..n : step[<<k, i>>] = k + len[i]
  OBVIOUS
<1> HIDE DEF step
<1>3. Folds(0, n, Nat, base, step)
  <2>1. 0 \in Nat /\ 0 <= n
    OBVIOUS
  <2> QED
    BY <1>1, <2>1, FoldExists
<1>4. PICK f \in [0..n -> Nat] : f[0] = base /\ \A i \in (0 + 1)..n : f[i] = step[<<f[i - 1], i>>]
  BY <1>3 DEF Folds
<1>5. ASSUME NEW i \in 1..n PROVE f[i] = f[i - 1] + len[i]
  <2>1. i \in (0 + 1)..n /\ i - 1 \in 0..n
    OBVIOUS
  <2>2. f[i - 1] \in Nat /\ f[i] = step[<<f[i - 1], i>>]
    BY <1>4, <2>1
  <2> QED
    BY <1>2, <2>1, <2>2
<1> QED
  BY <1>4, <1>5

(* A part of a list is a list of words of it.                                 *)
LEMMA PartIsOf ==
    ASSUME NEW v, IsList(v), NEW at \in Nat, NEW c \in Chunks
    PROVE  IsList(Part(v, at, c)) /\ Range(Part(v, at, c)) \subseteq Range(v)
<1> DEFINE a == Max({1, c.from - at + 1})
           b == Min({Len(v), c.to - at})
           R == Range(v)
<1>1. v \in Seq(R) /\ Len(v) \in Nat
  BY ListIsFinite DEF IsList
<1>2. c.from \in Nat /\ c.to \in Nat
  BY DEF Chunks
<1>3. a \in Int /\ 1 <= a
  <2>1. 1 \in Int /\ c.from - at + 1 \in Int
    BY <1>2
  <2> QED
    BY <2>1, MaxOfTwo
<1>4. b \in Int /\ b <= Len(v)
  <2> DEFINE x == c.to - at
             y == Len(v)
  <2>1. x \in Int /\ y \in Int
    BY <1>1, <1>2
  <2> HIDE DEF x, y
  <2>2. \E z \in {y, x} : \A w \in {y, x} : z <= w
    BY <2>1
  <2>3. Min({y, x}) \in {y, x} /\ \A w \in {y, x} : Min({y, x}) <= w
    BY <2>2 DEF Min
  <2> QED
    BY <2>1, <2>3 DEF x, y
<1>5. Part(v, at, c) = SubSeq(v, a, b)
  BY DEF Part
<1> HIDE DEF a, b, R
<1>6. SubSeq(v, a, b) \in Seq(R)
  BY <1>1, <1>3, <1>4
<1> QED
  BY <1>5, <1>6, SeqIsList DEF R

(* Where an item of a line starts.                                            *)
LEMMA ItemStartIs ==
    ASSUME NEW line \in PageLines, NEW i \in DOMAIN line.items
    PROVE  ItemStart(line, i) \in Nat
<1> DEFINE n == Len(line.items)
           base == IF line.head = "" THEN 0 ELSE 1
           more(k) == Len(line.items[k].label) + Len(line.items[k].value)
           len == [k \in 1..n |-> more(k)]
           P(h) == h = [k \in 0..n |-> IF k = 0 THEN (IF line.head = "" THEN 0 ELSE 1)
                            ELSE h[k - 1] + Len(line.items[k].label) + Len(line.items[k].value)]
           u == CHOOSE h : P(h)
<1>1. n \in Nat /\ DOMAIN line.items = 1..n /\ base \in Nat
  BY LineIs, ListIsFinite
<1>2. \A k \in 1..n : Len(line.items[k].label) \in Nat /\ Len(line.items[k].value) \in Nat
  <2> SUFFICES ASSUME NEW k \in 1..n
               PROVE  Len(line.items[k].label) \in Nat /\ Len(line.items[k].value) \in Nat
    OBVIOUS
  <2>1. line.items[k] \in Range(line.items)
    BY <1>1 DEF Range
  <2>2. IsList(line.items[k].label) /\ IsList(line.items[k].value)
    BY <2>1, LineIs DEF IsValue
  <2> QED
    BY <2>2, ListIsFinite
<1>3. len \in [1..n -> Nat]
  <2> SUFFICES ASSUME NEW k \in 1..n PROVE more(k) \in Nat
    OBVIOUS
  <2> DEFINE a == Len(line.items[k].label)
             b == Len(line.items[k].value)
  <2>1. a \in Nat /\ b \in Nat /\ more(k) = a + b
    BY <1>2
  <2> HIDE DEF a, b, more
  <2> QED
    BY <2>1
<1>4. PICK f \in [0..n -> Nat] : f[0] = base /\ \A k \in 1..n : f[k] = f[k - 1] + len[k]
  <2> HIDE DEF n, base, len
  <2> QED
    BY <1>1, <1>3, SumExists
<1>5. P(f)
  <2>1. ASSUME NEW k \in 1..n
        PROVE f[k] = f[k - 1] + Len(line.items[k].label) + Len(line.items[k].value)
    <3>1. k - 1 \in 0..n
      BY <1>1
    <3> DEFINE x == f[k - 1]
               a == Len(line.items[k].label)
               b == Len(line.items[k].value)
    <3>2. x \in Nat /\ f[k] = x + len[k]
      BY <1>4, <3>1
    <3>3. a \in Nat /\ b \in Nat /\ len[k] = a + b
      BY <1>2
    <3> HIDE DEF x, a, b, len, n
    <3>4. f[k] = x + a + b
      BY <3>2, <3>3
    <3> QED
      BY <3>4 DEF x, a, b
  <2>2. \A k \in 0..n : k = 0 \/ k \in 1..n
    BY <1>1
  <2>3. f[0] = (IF line.head = "" THEN 0 ELSE 1) /\ f = [k \in 0..n |-> f[k]]
    BY <1>4
  <2> HIDE DEF n
  <2> QED
    BY <2>1, <2>2, <2>3
<1>6. P(u)
  <2>1. u = CHOOSE h : P(h)
    OBVIOUS
  <2> HIDE DEF P, u
  <2> QED
    BY <1>5, <2>1, Zenon
<1>7. ItemStart(line, i) = u[i - 1]
  BY DEF ItemStart
<1> DEFINE G == {k \in 0..n : u[k] \in Nat}
<1> HIDE DEF u
<1>8. 0 \in G
  <2>1. 0 \in 0..n
    BY <1>1
  <2>2. u[0] = base
    BY <1>6, <2>1
  <2> QED
    BY <1>1, <2>1, <2>2
<1>9. ASSUME NEW k \in 1..n, k - 1 \in G PROVE k \in G
  <2>1. k \in 0..n /\ k # 0
    BY <1>1
  <2>2. u[k] = u[k - 1] + Len(line.items[k].label) + Len(line.items[k].value)
    <3> HIDE DEF n
    <3> QED
      BY <1>6, <2>1
  <2> QED
    BY <1>2, <1>9, <2>1, <2>2
<1>10. \A k \in 0..n : k \in G
  <2> HIDE DEF G, n
  <2> QED
    BY <1>1, <1>8, <1>9, UpTo
<1>11. i - 1 \in 0..n
  BY <1>1
<1> QED
  BY <1>7, <1>10, <1>11

(* As far as a chunk holds it, a line is a list of items too.                 *)
LEMMA FragmentIs ==
    ASSUME NEW line \in DocLines
    PROVE  /\ IsList(line.items)
           /\ \A it \in Range(line.items) : IsList(it.label) /\ IsValue(it.value)
<1>1. PICK whole \in PageLines, at \in Nat, c \in Chunks : line = Fragment(whole, at, c)
  BY DEF DocLines
<1> DEFINE start(i) == at + ItemStart(whole, i)
           item(i) == [clause |-> whole.items[i].clause,
                       label |-> Part(whole.items[i].label, start(i), c),
                       value |-> Part(whole.items[i].value,
                                      start(i) + Len(whole.items[i].label), c)]
<1>2. line.items = [i \in DOMAIN whole.items |-> item(i)]
  BY <1>1 DEF Fragment
<1>3. IsList(line.items) /\ DOMAIN line.items = DOMAIN whole.items
  <2> DEFINE g == line.items
  <2>1. g = [i \in DOMAIN whole.items |-> g[i]]
    BY <1>2
  <2> HIDE DEF g
  <2> QED
    BY <2>1, LineIs, MapIsList DEF g
<1>4. ASSUME NEW i \in DOMAIN whole.items
      PROVE  IsList(item(i).label) /\ IsValue(item(i).value)
  <2> DEFINE it == whole.items[i]
             k == start(i)
             m == k + Len(it.label)
  <2>1. it \in Range(whole.items)
    BY DEF Range
  <2>2. IsList(it.label) /\ IsValue(it.value)
    BY <2>1, LineIs
  <2>3. k \in Nat
    <3>1. ItemStart(whole, i) \in Nat
      BY ItemStartIs
    <3> QED
      BY <3>1
  <2>4. m \in Nat
    <3>1. Len(it.label) \in Nat
      BY <2>2, ListIsFinite
    <3> HIDE DEF k
    <3> QED
      BY <2>3, <3>1
  <2>5. item(i).label = Part(it.label, k, c) /\ item(i).value = Part(it.value, m, c)
    OBVIOUS
  <2> HIDE DEF it, k, m, item
  <2>6. IsList(Part(it.label, k, c))
    BY <2>2, <2>3, PartIsOf
  <2>7. IsList(Part(it.value, m, c)) /\ Range(Part(it.value, m, c)) \subseteq Range(it.value)
    BY <2>2, <2>4, PartIsOf DEF IsValue
  <2>8. IsValue(Part(it.value, m, c))
    BY <2>2, <2>7 DEF IsValue
  <2> QED
    BY <2>5, <2>6, <2>8
<1> HIDE DEF item
<1>5. ASSUME NEW it \in Range(line.items) PROVE IsList(it.label) /\ IsValue(it.value)
  <2>1. PICK i \in DOMAIN whole.items : it = item(i)
    BY <1>2, <1>3, <1>5 DEF Range
  <2> QED
    BY <1>4, <2>1
<1> QED
  BY <1>3, <1>5

(* A value whose numbers are written in other digits is a value.              *)
LEMMA ConvertedIs ==
    ASSUME NEW v, IsValue(v)
    PROVE  IsValue(Converted(v))
<1> DEFINE c == Converted(v)
<1>1. c = [i \in DOMAIN v |-> IF v[i].form = "" THEN v[i] ELSE Number(v[i].w, "ascii")]
  BY DEF Converted, map_tokens
<1> HIDE DEF c
<1>2. IsList(v) /\ \A x \in Range(v) : x = Number(x.w, x.form)
  BY DEF IsValue
<1>3. IsList(c) /\ DOMAIN c = DOMAIN v
  <2>1. c = [i \in DOMAIN v |-> c[i]]
    BY <1>1
  <2> QED
    BY <1>2, <2>1, MapIsList
<1>4. ASSUME NEW x \in Range(c) PROVE x = Number(x.w, x.form)
  <2>1. PICK i \in DOMAIN v : x = IF v[i].form = "" THEN v[i] ELSE Number(v[i].w, "ascii")
    BY <1>1, <1>3, <1>4 DEF Range
  <2>2. v[i] \in Range(v)
    BY DEF Range
  <2> QED
    BY <1>2, <2>1, <2>2 DEF Number
<1> QED
  BY <1>3, <1>4 DEF IsValue, c

(* What the generic pass found is a label and a value.                        *)
LEMMA FoundIs ==
    ASSUME NEW it \in Found
    PROVE  IsValue(it.value) /\ it = [label |-> it.label, value |-> it.value]
<1>1. PICK slip \in SLIPS, line \in DocLines :
                \E x \in Range(line.items) : it = Item(x, slip)
  BY DEF Found
<1>3. PICK x \in Range(line.items) : it = Item(x, slip)
  BY <1>1
<1>2. IsValue(x.value) /\ IsValue(Converted(x.value))
  BY FragmentIs, ConvertedIs
<1> QED
  BY <1>2, <1>3 DEF Item

(* A line is added to what was found so far.                                  *)
LEMMA LineIsAdded ==
    ASSUME NEW slip \in SLIPS, NEW secs \in Sections, NEW line \in DocLines
    PROVE  AddLine(slip, secs, line) \in Sections
<1> DEFINE I == {i \in DOMAIN line.items :
                    ~line.items[i].clause /\ line.items[i].label # <<>>}
           printed == Kept(line.items, I)
           items == [i \in DOMAIN printed |-> Item(printed[i], slip)]
           title == IF slip = "headless" THEN "" ELSE line.head
           R == Section
<1>1. IsList(printed) /\ Range(printed) \subseteq Range(line.items)
  <2>1. IsList(line.items) /\ I \in SUBSET DOMAIN line.items
    BY FragmentIs
  <2> HIDE DEF I
  <2>2. IsList(Kept(line.items, I)) /\ Range(Kept(line.items, I)) = {line.items[i] : i \in I}
    BY <2>1, KeptIs
  <2> QED
    BY <2>1, <2>2 DEF Range
<1> HIDE DEF I, printed
<1>2. items \in Seq(Found)
  <2>1. items = [i \in DOMAIN printed |-> items[i]]
    OBVIOUS
  <2>2. \A i \in DOMAIN printed : items[i] \in Found
    <3> SUFFICES ASSUME NEW i \in DOMAIN printed PROVE items[i] \in Found
      OBVIOUS
    <3>1. printed[i] \in Range(line.items)
      BY <1>1 DEF Range
    <3> QED
      BY <3>1 DEF Found
  <2> HIDE DEF items
  <2>3. IsList(items) /\ DOMAIN items = DOMAIN printed /\ DOMAIN items = 1..Len(items)
        /\ Len(items) \in Nat
    BY <1>1, <2>1, MapIsList, ListIsFinite
  <2> DEFINE n == Len(items)
  <2>4. n \in Nat /\ items = [i \in 1..n |-> items[i]] /\ \A i \in 1..n : items[i] \in Found
    BY <2>1, <2>2, <2>3
  <2> HIDE DEF n
  <2>5. items \in [1..n -> Found]
    BY <2>4
  <2> QED
    BY <2>4, <2>5
<1>3. title \in {l.head : l \in DocLines} \cup {""}
  OBVIOUS
<1>4. AddLine(slip, secs, line) =
        IF secs = <<>> \/ (line.head # "" /\ slip # "headless")
        THEN Append(secs, [title |-> title, fields |-> items])
        ELSE [secs EXCEPT ![Len(secs)].fields = @ \o items]
  BY DEF AddLine, printed, I
<1> HIDE DEF items, title
<1>5. [title |-> title, fields |-> items] \in R
  BY <1>2, <1>3 DEF Section
<1>6. secs \in Seq(R)
  BY DEF Sections
<1>7. secs # <<>> => [secs EXCEPT ![Len(secs)].fields = @ \o items] \in Seq(R)
  <2> SUFFICES ASSUME secs # <<>>
               PROVE [secs EXCEPT ![Len(secs)].fields = @ \o items] \in Seq(R)
    OBVIOUS
  <2>1. secs[Len(secs)] \in R
    <3> HIDE DEF R
    <3> QED
      BY <1>6
  <2>2. [secs[Len(secs)] EXCEPT !.fields = @ \o items] \in R
    <3> DEFINE s == secs[Len(secs)]
               F == Seq(Found)
    <3>1. s.fields \in F /\ items \in F
      BY <1>2, <2>1 DEF Section
    <3>2. s.fields \o items \in F
      BY <3>1
    <3> HIDE DEF s, F
    <3>3. [s EXCEPT !.fields = @ \o items] \in R
      BY <2>1, <3>2 DEF s, F, Section
    <3> QED
      BY <3>3 DEF s
  <2> HIDE DEF R
  <2> QED
    BY <1>6, <2>2
<1> HIDE DEF R
<1>8. Append(secs, [title |-> title, fields |-> items]) \in Seq(R)
  BY <1>5, <1>6
<1> QED
  BY <1>4, <1>7, <1>8 DEF Sections, R

(* What is read off some lines.                                               *)
LEMMA ReadingIs ==
    ASSUME NEW slip \in SLIPS, NEW lines \in Seq(DocLines)
    PROVE  \E u \in [0..Len(lines) -> Sections] :
                /\ u[0] = <<>> /\ Reading(lines, slip) = u[Len(lines)]
                /\ \A i \in 1..Len(lines) : u[i] = AddLine(slip, u[i - 1], lines[i])
<1> DEFINE n == Len(lines)
           S == Sections
           base == <<>>
           step == [x \in S \X ((0 + 1)..n) |-> AddLine(slip, x[1], lines[x[2]])]
           P(h) == h = [i \in 0..n |-> IF i = 0 THEN <<>> ELSE AddLine(slip, h[i - 1], lines[i])]
           u == CHOOSE h : P(h)
<1>1. n \in Nat /\ \A i \in 1..n : lines[i] \in DocLines
  OBVIOUS
<1>2. base \in S
  BY DEF Sections
<1>3. step \in [S \X ((0 + 1)..n) -> S]
  <2> SUFFICES ASSUME NEW s \in S, NEW i \in 1..n PROVE AddLine(slip, s, lines[i]) \in S
    OBVIOUS
  <2> QED
    BY <1>1, LineIsAdded
<1>4. PICK f \in [0..n -> S] : f[0] = base /\ \A i \in (0 + 1)..n : f[i] = step[<<f[i - 1], i>>]
  <2>1. Folds(0, n, S, base, step)
    <3>1. 0 \in Nat /\ 0 <= n /\ n \in Nat
      BY <1>1
    <3> HIDE DEF n, S, base, step
    <3> QED
      BY <3>1, <1>2, <1>3, FoldExists
  <2> HIDE DEF n, S, base, step
  <2> QED
    BY <2>1 DEF Folds
<1>5. ASSUME NEW i \in 1..n PROVE f[i] = AddLine(slip, f[i - 1], lines[i])
  <2>1. i \in (0 + 1)..n /\ i - 1 \in 0..n
    BY <1>1
  <2>2. f[i - 1] \in S /\ f[i] = step[<<f[i - 1], i>>]
    <3> HIDE DEF n, S, base, step
    <3> QED
      BY <1>4, <2>1
  <2>3. <<f[i - 1], i>> \in S \X ((0 + 1)..n)
    BY <2>1, <2>2
  <2> HIDE DEF n, S
  <2> QED
    BY <2>2, <2>3
<1>6. P(f)
  <2>1. \A i \in 0..n : i = 0 \/ i \in 1..n
    BY <1>1
  <2>2. f[0] = <<>> /\ f = [i \in 0..n |-> f[i]]
    BY <1>4
  <2> HIDE DEF n, S
  <2> QED
    BY <1>5, <2>1, <2>2
<1>7. P(u)
  <2>1. u = CHOOSE h : P(h)
    OBVIOUS
  <2> HIDE DEF P, u
  <2> QED
    BY <1>6, <2>1, Zenon
<1>8. Reading(lines, slip) = u[n]
  BY DEF Reading
<1> HIDE DEF u
<1>9. u[0] = <<>> /\ \A i \in 1..n : u[i] = AddLine(slip, u[i - 1], lines[i])
  <2>1. 0 \in 0..n /\ \A i \in 1..n : i \in 0..n /\ i # 0
    BY <1>1
  <2> HIDE DEF n
  <2>2. u = [i \in 0..n |-> IF i = 0 THEN <<>> ELSE AddLine(slip, u[i - 1], lines[i])]
    BY <1>7
  <2> QED
    BY <2>1, <2>2
<1>10. u \in [0..n -> S]
  <2> DEFINE G == {i \in 0..n : u[i] \in S}
  <2>1. 0 \in G
    BY <1>1, <1>2, <1>9
  <2>2. ASSUME NEW i \in 1..n, i - 1 \in G PROVE i \in G
    BY <1>1, <1>9, <2>2, LineIsAdded
  <2>3. \A i \in 0..n : i \in G
    <3> HIDE DEF G, n
    <3> QED
      BY <1>1, <2>1, <2>2, UpTo
  <2>4. \A i \in 0..n : u[i] \in S
    BY <2>3
  <2>5. u = [i \in 0..n |-> u[i]]
    BY <1>7
  <2> HIDE DEF n, S
  <2> QED
    BY <2>4, <2>5
<1> HIDE DEF n, S
<1> QED
  BY <1>8, <1>9, <1>10 DEF n, S

(* A list of members of a set is a sequence over it.                          *)
LEMMA ListInSeq ==
    ASSUME NEW s, IsList(s), NEW S, Range(s) \subseteq S
    PROVE  s \in Seq(S)
<1> DEFINE R == Range(s)
<1>1. s \in Seq(R) /\ R \subseteq S
  BY DEF IsList
<1> HIDE DEF R
<1> QED
  BY <1>1

(* Some lines, whole and in two.                                              *)
LEMMA CutIs ==
    ASSUME NEW S, NEW s \in Seq(S), NEW h \in 0..Len(s)
    PROVE  /\ SubSeq(s, 1, h) \in Seq(S) /\ SubSeq(s, h + 1, Len(s)) \in Seq(S)
           /\ Len(SubSeq(s, 1, h)) = h /\ Len(SubSeq(s, h + 1, Len(s))) = Len(s) - h
           /\ SubSeq(s, 1, h) \o SubSeq(s, h + 1, Len(s)) = s
<1> DEFINE n == Len(s)
           a == SubSeq(s, 1, h)
           b == SubSeq(s, h + 1, n)
<1>1. n \in Nat /\ h \in Nat /\ h <= n /\ \A i \in 1..n : s[i] \in S
  OBVIOUS
<1>2. a \in Seq(S) /\ Len(a) = h /\ \A i \in 1..h : a[i] = s[i]
  BY <1>1
<1>3. b \in Seq(S) /\ Len(b) = n - h /\ \A i \in 1..(n - h) : b[i] = s[h + i]
  BY <1>1
<1> HIDE DEF a, b, n
<1>4. a \o b \in Seq(S) /\ Len(a \o b) = n
  <2>1. a \o b \in Seq(S)
    BY <1>2, <1>3
  <2>2. Len(a \o b) = Len(a) + Len(b)
    BY <1>2, <1>3, SeqIsList, BothLists
  <2> QED
    BY <1>1, <1>2, <1>3, <2>1, <2>2
<1>5. ASSUME NEW i \in 1..n PROVE (a \o b)[i] = s[i]
  <2>1. CASE i <= h
    <3>1. i \in 1..Len(a)
      BY <1>1, <1>2, <2>1
    <3>2. (a \o b)[i] = a[i]
      BY <1>2, <1>3, <3>1
    <3> QED
      BY <1>2, <3>1, <3>2
  <2>2. CASE i > h
    <3>1. i - h \in 1..(n - h) /\ h + (i - h) = i
      BY <1>1, <2>2
    <3>2. (a \o b)[i] = b[i - h]
      BY BothLists, SeqIsList, <1>1, <1>2, <1>3, <3>1
    <3> QED
      BY <1>3, <3>1, <3>2
  <2>3. i <= h \/ i > h
    BY <1>1
  <2> QED
    BY <2>1, <2>2, <2>3
<1>6. a \o b = s
  <2>1. s \in Seq(S) /\ Len(s) = n
    BY DEF n
  <2> DEFINE c == a \o b
  <2> HIDE DEF c
  <2>2. c \in Seq(S) /\ Len(c) = n /\ \A i \in 1..n : c[i] = s[i]
    BY <1>4, <1>5 DEF c
  <2>3. c = s
    BY <1>1, <2>1, <2>2
  <2> QED
    BY <2>3 DEF c
<1> QED
  BY <1>2, <1>3, <1>6 DEF a, b, n

(* The lines of a text, and how many words it has printed at each line end.   *)
LEMMA EndsAre ==
    ASSUME NEW t \in DOMAIN DOCS
    PROVE  /\ Body(t) \in Seq(PageLines)
           /\ Ends(t) \in [0..Len(Body(t)) -> Nat] /\ Ends(t)[0] = 0
           /\ \A i \in 1..Len(Body(t)) : /\ Len(Words(Body(t)[i])) \in Nat
                                         /\ Ends(t)[i] = Ends(t)[i - 1] + Len(Words(Body(t)[i]))
<1> DEFINE lines == Lines(t)
           all == Body(t)
           n == Len(all)
           len == [i \in 1..n |-> Len(Words(all[i]))]
           P(h) == h = [i \in 0..n |-> IF i = 0 THEN 0 ELSE h[i - 1] + Len(Words(all[i]))]
           u == CHOOSE h : P(h)
<1>1. IsList(lines) /\ Range(lines) \subseteq PageLines
  BY TextAssumption DEF Lines, PageLines
<1>2. all \in Seq(PageLines)
  <2> DEFINE I == {i \in DOMAIN lines : ~IsMarker(lines[i])}
  <2>1. all = Kept(lines, I) /\ I \in SUBSET DOMAIN lines
    BY DEF Body, Unmarked
  <2> HIDE DEF all, I, lines
  <2>2. IsList(all) /\ Range(all) = {lines[i] : i \in I}
    BY <1>1, <2>1, KeptIs
  <2>3. Range(all) \subseteq PageLines
    BY <1>1, <2>1, <2>2 DEF Range
  <2> QED
    BY <2>2, <2>3, ListInSeq
<1> HIDE DEF all, lines
<1>3. n \in Nat /\ \A i \in 1..n : all[i] \in PageLines
  BY <1>2
<1>4. \A i \in 1..n : Len(Words(all[i])) \in Nat
  <2> SUFFICES ASSUME NEW i \in 1..n PROVE Len(Words(all[i])) \in Nat
    OBVIOUS
  <2>1. IsWords(Words(all[i]))
    BY <1>3, LineIs, ValueIsWords, WordsAre
  <2> QED
    BY <2>1, ListIsFinite DEF IsWords
<1>5. len \in [1..n -> Nat]
  BY <1>4
<1>6. PICK f \in [0..n -> Nat] : f[0] = 0 /\ \A i \in 1..n : f[i] = f[i - 1] + len[i]
  <2>1. 0 \in Nat
    OBVIOUS
  <2> HIDE DEF n, len
  <2> QED
    BY <1>3, <1>5, <2>1, SumExists
<1>7. P(f)
  <2>1. \A i \in 0..n : i = 0 \/ i \in 1..n
    BY <1>3
  <2>2. \A i \in 1..n : f[i] = f[i - 1] + Len(Words(all[i]))
    BY <1>6
  <2>3. f[0] = 0 /\ f = [i \in 0..n |-> f[i]]
    BY <1>6
  <2> HIDE DEF n
  <2> QED
    BY <2>1, <2>2, <2>3
<1>8. P(u)
  <2>1. u = CHOOSE h : P(h)
    OBVIOUS
  <2> HIDE DEF P, u
  <2> QED
    BY <1>7, <2>1, Zenon
<1>9. Ends(t) = u
  BY DEF Ends, all
<1> HIDE DEF u
<1>10. u[0] = 0 /\ \A i \in 1..n : u[i] = u[i - 1] + Len(Words(all[i]))
  <2>1. 0 \in 0..n /\ \A i \in 1..n : i \in 0..n /\ i # 0
    BY <1>3
  <2> HIDE DEF n
  <2> QED
    BY <1>8, <2>1
<1>11. u \in [0..n -> Nat]
  <2> DEFINE G == {i \in 0..n : u[i] \in Nat}
  <2>1. 0 \in G
    BY <1>3, <1>10
  <2>2. ASSUME NEW i \in 1..n, i - 1 \in G PROVE i \in G
    BY <1>3, <1>4, <1>10, <2>2
  <2>3. \A i \in 0..n : i \in G
    <3> HIDE DEF G, n
    <3> QED
      BY <1>3, <2>1, <2>2, UpTo
  <2>4. \A i \in 0..n : u[i] \in Nat
    BY <2>3
  <2>5. u = [i \in 0..n |-> u[i]]
    BY <1>8
  <2> HIDE DEF n
  <2> QED
    BY <2>4, <2>5
<1> QED
  BY <1>2, <1>4, <1>9, <1>10, <1>11 DEF all, n

(* How much of a text is sent.                                                *)
LEMMA CleanIs ==
    ASSUME NEW t \in DOMAIN DOCS
    PROVE  /\ Total(t) \in Nat /\ _clean(t) \in Nat /\ _clean(t) <= Total(t)
           /\ Truncated(t) \in BOOLEAN /\ (Truncated(t) <=> _clean(t) < Total(t))
<1> DEFINE a == Total(t)
<1>1. a \in Nat
  <2> DEFINE n == Len(Body(t))
  <2>1. n \in 0..n /\ Ends(t) \in [0..n -> Nat]
    <3>1. n \in Nat
      BY EndsAre
    <3> QED
      BY <3>1, EndsAre
  <2> HIDE DEF n
  <2>2. Ends(t)[n] \in Nat
    BY <2>1
  <2> QED
    BY <2>2 DEF Total, n
<1>2. INPUT_CAP \in Nat
  BY LimitAssumption
<1> HIDE DEF a
<1>3. Min({a, INPUT_CAP}) \in {a, INPUT_CAP} /\ \A y \in {a, INPUT_CAP} : Min({a, INPUT_CAP}) <= y
  <2>1. {a, INPUT_CAP} \in SUBSET Nat /\ {a, INPUT_CAP} # {}
    BY <1>1, <1>2
  <2> QED
    BY <2>1, MinIs
<1>4. _clean(t) = Min({a, INPUT_CAP})
  BY DEF _clean, a
<1> DEFINE m == Min({a, INPUT_CAP})
           k == INPUT_CAP
<1>5. m \in {a, k} /\ m <= a /\ m <= k /\ a \in Nat /\ k \in Nat
  BY <1>1, <1>2, <1>3
<1>6. _clean(t) = m /\ Total(t) = a
  BY <1>4 DEF a
<1>7. Truncated(t) \in BOOLEAN /\ (Truncated(t) <=> k < a)
  <2>1. Truncated(t) \in BOOLEAN
    BY DEF Truncated
  <2>2. Truncated(t) <=> k < a
    BY Zenon DEF Truncated, a
  <2> QED
    BY <2>1, <2>2
<1> HIDE DEF a, m, k
<1>8. m \in Nat /\ m <= a
  BY <1>5
<1>9. (k < a) <=> (m < a)
  BY <1>5
<1>10. Truncated(t) <=> m < a
  BY <1>7, <1>9, Zenon
<1> QED
  BY <1>5, <1>6, <1>7, <1>8, <1>10, Zenon

(* What a chunk holds of a text is lines of it, as far as it holds them.      *)
LEMMA ChunkLinesAre ==
    ASSUME NEW t \in DOMAIN DOCS, NEW c \in Chunks
    PROVE  ChunkLines(t, c) \in Seq(DocLines)
<1> DEFINE lines == Body(t)
           ends == Ends(t)
           m == [n \in DOMAIN lines |-> Fragment(lines[n], ends[n - 1], c)]
           I == {n \in DOMAIN lines : ends[n - 1] < c.to /\ c.from < ends[n]}
<1>1. ChunkLines(t, c) = Kept(m, I)
  BY DEF ChunkLines
<1>2. IsList(lines) /\ DOMAIN lines = 1..Len(lines) /\ Len(lines) \in Nat
      /\ \A n \in DOMAIN lines : lines[n] \in PageLines /\ ends[n - 1] \in Nat
  <2>1. lines \in Seq(PageLines) /\ ends \in [0..Len(lines) -> Nat]
    BY EndsAre
  <2> HIDE DEF lines, ends
  <2>2. IsList(lines) /\ DOMAIN lines = 1..Len(lines) /\ Len(lines) \in Nat
    BY <2>1, SeqIsList
  <2>3. ASSUME NEW n \in 1..Len(lines) PROVE lines[n] \in PageLines /\ ends[n - 1] \in Nat
    <3>1. n - 1 \in 0..Len(lines)
      BY <2>2
    <3> QED
      BY <2>1, <3>1
  <2> QED
    BY <2>2, <2>3
<1> HIDE DEF lines, ends
<1>3. \A n \in DOMAIN lines : m[n] \in DocLines
  BY <1>2 DEF DocLines
<1>4. m = [n \in DOMAIN lines |-> m[n]] /\ I \subseteq DOMAIN lines
  OBVIOUS
<1> HIDE DEF m, I
<1>5. IsList(m) /\ DOMAIN m = DOMAIN lines
  BY <1>2, <1>4, MapIsList
<1>6. IsList(Kept(m, I)) /\ Range(Kept(m, I)) = {m[n] : n \in I}
  BY <1>4, <1>5, KeptIs
<1>7. Range(Kept(m, I)) \subseteq DocLines
  BY <1>3, <1>4, <1>6
<1> QED
  BY <1>1, <1>6, <1>7, ListInSeq

(* In the middle of a chunk with no line end to take there is a line half     *)
(* again as long as the least a chunk may be.                                 *)
LEMMA LongLine ==
    ASSUME NEW n \in Nat, NEW ends \in [0..n -> Nat], ends[0] = 0,
           NEW from \in Nat, NEW to \in Nat, to <= ends[n], NEW least \in Nat \ {0},
           to - from >= 2 * least,
           \A e \in Range(ends) : from < e /\ e < to => 4 * (e - from) >= 3 * (to - from)
    PROVE  \E i \in 1..n :
                /\ ends[i - 1] < from + (to - from) \div 2
                /\ from + (to - from) \div 2 + ((to - from) % 2) < ends[i]
                /\ 2 * (ends[i] - ends[i - 1]) >= 3 * least
<1> DEFINE T == {i \in 0..n : ends[i] > from}
           w == to - from
<1>1. w \in Nat /\ w >= 2 /\ to = from + w
  OBVIOUS
<1>2. n \in T
  BY <1>1
<1>3. PICK i \in T : \A j \in T : i <= j
  <2>1. T \in SUBSET Nat /\ T # {}
    BY <1>2
  <2> HIDE DEF T
  <2> QED
    BY <2>1, LeastNumber
<1>4. i \in 1..n /\ i - 1 \in 0..n /\ i - 1 \notin T
  BY <1>3
<1> DEFINE a == ends[i - 1]
           b == ends[i]
<1>5. a \in Nat /\ b \in Nat /\ a <= from /\ from < b
  BY <1>3, <1>4
<1>6. b \in Range(ends)
  BY <1>4 DEF Range
<1>7. 4 * (b - from) >= 3 * w
  <2>1. CASE b < to
    BY <1>5, <1>6, <2>1
  <2>2. CASE ~(b < to)
    <3> HIDE DEF b, w
    <3> QED
      BY <1>1, <1>5, <2>2
  <2> QED
    BY <2>1, <2>2
<1>8. w >= 2 * least
  OBVIOUS
<1> HIDE DEF a, b, w, T
<1>9. 2 * (b - a) >= 3 * least
  BY <1>1, <1>5, <1>7, <1>8
<1>10. w \div 2 \in Nat /\ w % 2 \in {0, 1} /\ w = 2 * (w \div 2) + (w % 2)
  BY <1>1
<1> DEFINE q == w \div 2
           r == w % 2
<1>11. q \in Nat /\ r \in {0, 1} /\ w = 2 * q + r /\ q >= 1
  BY <1>1, <1>10
<1> HIDE DEF q, r
<1>12. a < from + q /\ from + q + r < b
  BY <1>5, <1>7, <1>11
<1>13. a < from + w \div 2 /\ from + w \div 2 + (w % 2) < b
  BY <1>12 DEF q, r
<1> QED
  BY <1>4, <1>9, <1>13 DEF a, b, w

(* A chunk in two: what the halves hold, and how they join.                   *)
LEMMA SplitIs ==
    ASSUME NEW t \in DOMAIN DOCS, NEW c \in Chunks, MaySplit(t, c)
    PROVE  \E a, b \in Chunks :
                /\ Halves(t, c) = <<a, b>>
                /\ a.depth = c.depth + 1 /\ b.depth = c.depth + 1
                /\ a.from = c.from /\ b.to = c.to /\ a.from < a.to /\ b.from < b.to
                /\ c.to <= Total(t) => Joint(t, a.to, b.from)
<1> DEFINE from == c.from
           to == c.to
           w == to - from
           early == Early(t, c)
           later == Later(t, c)
           ends == Ends(t)
           n == Len(Body(t))
           mid == Cut(t, c)
           torn == Torn(t, c)
           d == c.depth + 1
           a == [from |-> from, to |-> mid, depth |-> d]
           b == [from |-> mid + torn, to |-> to, depth |-> d]
<1>1. from \in Nat /\ to \in Nat /\ c.depth \in 0..SPLIT_MAX_DEPTH
  BY DEF Chunks
<1>2. Halves(t, c) = <<a, b>>
  BY DEF Halves, _split_lines
<1>3. /\ c.depth < SPLIT_MAX_DEPTH /\ w >= 2 * SPLIT_MIN
      /\ a.from < a.to /\ b.from < b.to
  <2>1. c.depth < SPLIT_MAX_DEPTH /\ w >= 2 * SPLIT_MIN
    BY DEF MaySplit, WordsIn
  <2>2. \A h \in Range(<<a, b>>) : h.from < h.to
    BY <1>2 DEF MaySplit, Halves
  <2> HIDE DEF a, b
  <2>3. a \in Range(<<a, b>>) /\ b \in Range(<<a, b>>)
    <3>1. DOMAIN <<a, b>> = {1, 2} /\ <<a, b>>[1] = a /\ <<a, b>>[2] = b
      OBVIOUS
    <3> QED
      BY <3>1 DEF Range
  <2> QED
    BY <2>1, <2>2, <2>3
<1>4. d \in 0..SPLIT_MAX_DEPTH
  BY <1>1, <1>3 DEF SPLIT_MAX_DEPTH
<1>5. n \in Nat /\ ends \in [0..n -> Nat] /\ ends[0] = 0
      /\ \A i \in 1..n : /\ Len(Words(Body(t)[i])) \in Nat
                         /\ ends[i] = ends[i - 1] + Len(Words(Body(t)[i]))
      /\ DOMAIN Body(t) = 1..n
  BY EndsAre
<1>6. SPLIT_MIN \in Nat \ {0}
  BY LimitAssumption
<1>7. Total(t) = ends[n] /\ to = c.to
  BY DEF Total
<1>8. /\ early = {e \in Breaks(t, c) : 2 * (e - from) < w}
      /\ later = {e \in Breaks(t, c) : 2 * (e - from) >= w /\ 4 * (e - from) < 3 * w}
      /\ Breaks(t, c) = {e \in Range(ends) : from < e /\ e < to}
      /\ mid = IF early # {} /\ 4 * (Max(early) - from) >= w THEN Max(early)
               ELSE IF later # {} THEN Min(later)
               ELSE IF early # {} THEN Max(early) ELSE from + w \div 2
      /\ torn = IF early \cup later = {} THEN w % 2 ELSE 0
  BY DEF Early, Later, Breaks, WordsIn, Cut, Torn
<1> HIDE DEF mid, torn, early, later, ends, n, w
<1>9. Range(ends) \subseteq Nat
  BY <1>5 DEF Range
<1>10. early \subseteq Breaks(t, c) /\ later \subseteq Breaks(t, c)
  BY <1>8
<1>11. Breaks(t, c) \subseteq 0..to /\ Breaks(t, c) \subseteq Range(ends)
  BY <1>1, <1>8, <1>9
<1>12. early # {} => Max(early) \in early
  BY <1>1, <1>10, <1>11, MaxIs
<1>13. later # {} => Min(later) \in later
  <2>1. later \in SUBSET Nat
    BY <1>9, <1>10, <1>11
  <2> QED
    BY <2>1, MinIs
<1>14. CASE early \cup later # {}
  <2>1. mid \in Range(ends) /\ torn = 0
    BY <1>8, <1>10, <1>11, <1>12, <1>13, <1>14
  <2>2. mid \in Nat
    BY <1>9, <2>1
  <2> QED
    <3>1. a \in Chunks /\ b \in Chunks
      BY <1>1, <1>4, <2>1, <2>2 DEF Chunks
    <3>2. Joint(t, mid, mid + torn)
      BY <2>1, <2>2 DEF Joint, ends
    <3> HIDE DEF d
    <3>3. a.depth = d /\ b.depth = d /\ a.from = from /\ b.to = to
          /\ a.to = mid /\ b.from = mid + torn
      OBVIOUS
    <3> HIDE DEF a, b
    <3> QED
      BY <1>2, <1>3, <3>1, <3>2, <3>3 DEF d
<1>15. CASE early \cup later = {}
  <2>1. w \in Nat /\ w = to - from
    BY <1>1, <1>3, <1>6 DEF w
  <2>2. mid = from + w \div 2 /\ torn = w % 2 /\ early = {} /\ later = {}
    BY <1>8, <1>15
  <2>3. mid \in Nat /\ torn \in {0, 1}
    BY <1>1, <2>1, <2>2
  <2>4. \A e \in Range(ends) : from < e /\ e < to => 4 * (e - from) >= 3 * (to - from)
    <3> SUFFICES ASSUME NEW e \in Range(ends), from < e, e < to
                 PROVE  4 * (e - from) >= 3 * w
      BY <2>1
    <3>1. e \in Breaks(t, c) /\ e \in Nat
      BY <1>8, <1>9
    <3>2. ~(2 * (e - from) < w) /\ ~(2 * (e - from) >= w /\ 4 * (e - from) < 3 * w)
      BY <1>8, <2>2, <3>1
    <3> QED
      BY <1>1, <2>1, <3>1, <3>2
  <2>5. ASSUME to <= Total(t) PROVE Joint(t, mid, mid + torn)
    <3>1. PICK i \in 1..n :
            /\ ends[i - 1] < from + w \div 2 /\ from + w \div 2 + (w % 2) < ends[i]
            /\ 2 * (ends[i] - ends[i - 1]) >= 3 * SPLIT_MIN
      <4>1. to - from >= 2 * SPLIT_MIN /\ to <= ends[n]
        BY <1>3, <1>7, <2>1, <2>5
      <4> QED
        BY <1>1, <1>5, <1>6, <2>1, <2>4, <4>1, LongLine
    <3>2. i - 1 \in 0..n /\ i \in 0..n /\ i \in DOMAIN Body(t)
      BY <1>5
    <3>3. ends[i - 1] \in Nat /\ ends[i] = ends[i - 1] + Len(Words(Body(t)[i]))
          /\ Len(Words(Body(t)[i])) \in Nat
      BY <1>5, <3>2
    <3>4. 2 * Len(Words(Body(t)[i])) >= 3 * SPLIT_MIN
      BY <1>6, <3>1, <3>3
    <3>5. mid + torn \in {mid, mid + 1}
      BY <2>3
    <3>6. ends[i - 1] < mid /\ mid + torn < ends[i]
      BY <2>2, <3>1
    <3> QED
      BY <3>2, <3>4, <3>5, <3>6 DEF Joint, ends
  <2>10. a \in Chunks /\ b \in Chunks
    BY <1>1, <1>4, <2>3 DEF Chunks
  <2>11. a.depth = d /\ b.depth = d /\ a.from = from /\ b.to = to
         /\ a.to = mid /\ b.from = mid + torn
    OBVIOUS
  <2> HIDE DEF d, a, b
  <2> QED
    BY <1>2, <1>3, <1>7, <2>5, <2>10, <2>11 DEF d
<1> QED
  BY <1>14, <1>15

(* A section is joined to what was found so far.                              *)
LEMMA SectionIsJoined ==
    ASSUME NEW secs \in Sections,
           NEW s \in Section
    PROVE  Join(secs, s) \in Sections
<1> DEFINE R == Section
<1>1. secs \in Seq(R) /\ s \in R
  BY DEF Sections
<1>2. secs # <<>> => [secs EXCEPT ![Len(secs)].fields = @ \o s.fields] \in Seq(R)
  <2> SUFFICES ASSUME secs # <<>>
               PROVE [secs EXCEPT ![Len(secs)].fields = @ \o s.fields] \in Seq(R)
    OBVIOUS
  <2>1. secs[Len(secs)] \in R
    <3> HIDE DEF R
    <3> QED
      BY <1>1
  <2>2. [secs[Len(secs)] EXCEPT !.fields = @ \o s.fields] \in R
    <3> DEFINE r == secs[Len(secs)]
               F == Seq(Found)
               more == s.fields
    <3>1. r.fields \in F /\ more \in F
      BY <2>1 DEF Section
    <3>2. r.fields \o more \in F
      BY <3>1
    <3> HIDE DEF r, F, more
    <3>3. [r EXCEPT !.fields = @ \o more] \in R
      BY <2>1, <3>2 DEF r, F, Section
    <3> QED
      BY <3>3 DEF r, more
  <2> HIDE DEF R
  <2> QED
    BY <1>1, <2>2
<1>3. Append(secs, s) \in Seq(R)
  <2> HIDE DEF R
  <2> QED
    BY <1>1
<1> HIDE DEF R
<1>4. Join(secs, s) \in Seq(R)
  BY <1>2, <1>3 DEF Join
<1> QED
  BY <1>4 DEF Sections, R

(* What two chunks found, as one list of sections.                            *)
LEMMA MergedIs ==
    ASSUME NEW a \in Sections, NEW b \in Sections
    PROVE  \E u \in [0..Len(a \o b) -> Sections] :
                /\ u[0] = <<>> /\ _merge_generic(a, b) = u[Len(a \o b)]
                /\ \A i \in 1..Len(a \o b) : u[i] = Join(u[i - 1], (a \o b)[i])
<1> DEFINE secs == a \o b
           n == Len(secs)
           S == Sections
           base == <<>>
           step == [x \in S \X ((0 + 1)..n) |-> Join(x[1], secs[x[2]])]
           P(h) == h = [i \in 0..n |-> IF i = 0 THEN <<>> ELSE Join(h[i - 1], secs[i])]
           u == CHOOSE h : P(h)
<1>1. n \in Nat /\ \A i \in 1..n : secs[i] \in Section
  <2>1. secs \in Seq(Section)
    BY DEF Sections
  <2> HIDE DEF secs
  <2> QED
    BY <2>1
<1>2. base \in S
  BY DEF Sections
<1>A. \A s \in S, i \in 1..n : Join(s, secs[i]) \in S
  BY <1>1, SectionIsJoined
<1> HIDE DEF secs
<1>3. step \in [S \X ((0 + 1)..n) -> S]
  BY <1>A
<1>4. PICK f \in [0..n -> S] : f[0] = base /\ \A i \in (0 + 1)..n : f[i] = step[<<f[i - 1], i>>]
  <2>1. Folds(0, n, S, base, step)
    <3>1. 0 \in Nat /\ 0 <= n /\ n \in Nat
      BY <1>1
    <3> HIDE DEF n, S, base, step
    <3> QED
      BY <3>1, <1>2, <1>3, FoldExists
  <2> HIDE DEF n, S, base, step
  <2> QED
    BY <2>1 DEF Folds
<1>5. ASSUME NEW i \in 1..n PROVE f[i] = Join(f[i - 1], secs[i])
  <2>1. i \in (0 + 1)..n /\ i - 1 \in 0..n
    BY <1>1
  <2>2. f[i - 1] \in S /\ f[i] = step[<<f[i - 1], i>>]
    <3> HIDE DEF n, S, base, step
    <3> QED
      BY <1>4, <2>1
  <2>3. <<f[i - 1], i>> \in S \X ((0 + 1)..n)
    BY <2>1, <2>2
  <2> HIDE DEF n, S
  <2> QED
    BY <2>2, <2>3
<1>6. P(f)
  <2>1. \A i \in 0..n : i = 0 \/ i \in 1..n
    BY <1>1
  <2>2. f[0] = <<>> /\ f = [i \in 0..n |-> f[i]]
    BY <1>4
  <2> HIDE DEF n, S
  <2> QED
    BY <1>5, <2>1, <2>2
<1>7. P(u)
  <2>1. u = CHOOSE h : P(h)
    OBVIOUS
  <2> HIDE DEF P, u
  <2> QED
    BY <1>6, <2>1, Zenon
<1>8. _merge_generic(a, b) = u[n]
  BY DEF _merge_generic, secs
<1> HIDE DEF u
<1>9. u[0] = <<>> /\ \A i \in 1..n : u[i] = Join(u[i - 1], secs[i])
  <2>1. 0 \in 0..n /\ \A i \in 1..n : i \in 0..n /\ i # 0
    BY <1>1
  <2> HIDE DEF n
  <2>2. u = [i \in 0..n |-> IF i = 0 THEN <<>> ELSE Join(u[i - 1], secs[i])]
    BY <1>7
  <2> QED
    BY <2>1, <2>2
<1>10. u \in [0..n -> S]
  <2> DEFINE G == {i \in 0..n : u[i] \in S}
  <2>1. 0 \in G
    BY <1>1, <1>2, <1>9
  <2>2. ASSUME NEW i \in 1..n, i - 1 \in G PROVE i \in G
    BY <1>A, <1>9, <2>2
  <2>3. \A i \in 0..n : i \in G
    <3> HIDE DEF G, n
    <3> QED
      BY <1>1, <2>1, <2>2, UpTo
  <2>4. \A i \in 0..n : u[i] \in S
    BY <2>3
  <2>5. u = [i \in 0..n |-> u[i]]
    BY <1>7
  <2> HIDE DEF n, S
  <2> QED
    BY <2>4, <2>5
<1> HIDE DEF n, S
<1> QED
  BY <1>8, <1>9, <1>10 DEF n, S, secs

(* What a capped or a whole answer leaves is sections.                        *)
LEMMA ReadIsSections ==
    ASSUME NEW slip \in SLIPS, NEW lines \in Seq(DocLines)
    PROVE  Reading(lines, slip) \in Sections /\ _loads_lenient(lines, slip) \in Sections
<1>1. ASSUME NEW s \in Seq(DocLines) PROVE Reading(s, slip) \in Sections
  <2> DEFINE n == Len(s)
  <2>1. PICK u \in [0..n -> Sections] : Reading(s, slip) = u[n]
    BY <1>1, ReadingIs
  <2>2. n \in 0..n
    OBVIOUS
  <2> HIDE DEF n
  <2> QED
    BY <2>1, <2>2
<1>2. Len(lines) \div 2 \in 0..Len(lines)
  OBVIOUS
<1>3. SubSeq(lines, 1, Len(lines) \div 2) \in Seq(DocLines)
  BY <1>2, CutIs
<1> QED
  BY <1>1, <1>3 DEF _loads_lenient

(* What a place of a result may hold: a value found or answered, not an empty *)
(* one; a row, by the keys of the template; what alignment makes of them all. *)
Vals == ({it.value : it \in Found} \cup VALUES) \ {Empty}
RowSet == UNION {[ks -> Vals] : ks \in SUBSET {f.key : f \in Range(Fields)}}
Placements == [values : RowSet, rows : [Groups -> Seq(RowSet)], extras : Seq(Found)]
Aligned == {[label |-> it.label, value |-> it.value, target |-> f] :
                it \in {x \in Found : x.value # Empty}, f \in Range(Fields) \cup {None}}

(* A value is a list of words.                                                *)
LEMMA ValsAre ==
    ASSUME NEW v \in Vals
    PROVE  IsValue(v) /\ v # Empty /\ v # <<>>
<1>1. v # Empty /\ (v \in VALUES \/ \E it \in Found : v = it.value)
  BY DEF Vals
<1>2. IsValue(v)
  BY <1>1, FoundIs, TextAssumption
<1> QED
  BY <1>1, <1>2 DEF Empty

(* The template's fields, the required ones first, are its fields.            *)
LEMMA FieldsAre ==
    ASSUME IsList(tmpl.fields)
    PROVE  /\ IsList(Fields) /\ Range(Fields) = Range(tmpl.fields)
           /\ IsList(required_fields(tmpl)) /\ IsList(optional_fields(tmpl))
           /\ Range(required_fields(tmpl)) = {f \in Range(tmpl.fields) : f.required}
           /\ Range(optional_fields(tmpl)) = {f \in Range(tmpl.fields) : ~f.required}
<1> DEFINE fs == tmpl.fields
           Req == {i \in DOMAIN fs : fs[i].required}
           Opt == {i \in DOMAIN fs : ~fs[i].required}
           req == required_fields(tmpl)
           opt == optional_fields(tmpl)
<1>1. req = Kept(fs, Req) /\ opt = Kept(fs, Opt)
  BY DEF required_fields, optional_fields
<1>2. Req \in SUBSET DOMAIN fs /\ Opt \in SUBSET DOMAIN fs
  OBVIOUS
<1>3. /\ Req \cup Opt = DOMAIN fs
      /\ \A i \in Req : fs[i].required
      /\ \A i \in Opt : ~fs[i].required
  OBVIOUS
<1>4. \A i \in DOMAIN fs : (fs[i].required => i \in Req) /\ (~fs[i].required => i \in Opt)
  OBVIOUS
<1> HIDE DEF Req, Opt, fs, req, opt
<1>5. /\ IsList(req) /\ Range(req) = {fs[i] : i \in Req}
      /\ IsList(opt) /\ Range(opt) = {fs[i] : i \in Opt}
  BY <1>1, <1>2, KeptIs DEF fs
<1>6. Range(fs) = {fs[i] : i \in DOMAIN fs}
  BY DEF Range
<1>7. Range(req) = {f \in Range(fs) : f.required}
  BY <1>2, <1>3, <1>4, <1>5, <1>6
<1>8. Range(opt) = {f \in Range(fs) : ~f.required}
  BY <1>2, <1>3, <1>4, <1>5, <1>6
<1>9. IsList(req \o opt) /\ Range(req \o opt) = Range(req) \cup Range(opt)
  BY <1>5, BothLists
<1>10. Range(req \o opt) = Range(fs)
  BY <1>7, <1>8, <1>9
<1> QED
  BY <1>5, <1>7, <1>8, <1>9, <1>10 DEF Fields, fs, req, opt

(* Of the votes for a candidate one is nearest, and it is for a candidate.    *)
LEMMA NearestIs ==
    ASSUME NEW pool, NEW spot \in Nat, NEW hits, \A h \in hits : h.at \in Nat
    PROVE  _nearest_role(pool, spot, hits) \in pool \cup {None}
<1> DEFINE votes == {h \in hits : Cardinality(Supported(pool, h.field)) = 1}
           nearer(a, b) == LET da == Distance(a.at, spot)
                               db == Distance(b.at, spot)
                           IN da < db \/ (da = db /\ a.at <= b.at)
           v == CHOOSE a \in votes : \A b \in votes : nearer(a, b)
           far(h) == Distance(h.at, spot)
           chosen == CHOOSE c \in Supported(pool, v.field) : TRUE
<1>1. _nearest_role(pool, spot, hits) = IF votes = {} THEN None ELSE chosen
  BY DEF _nearest_role
<1>2. \A h \in votes : h.at \in Nat /\ far(h) \in Nat
  BY DEF Distance
<1>3. ASSUME votes # {} PROVE \E a \in votes : \A b \in votes : nearer(a, b)
  <2> HIDE DEF votes
  <2> DEFINE A == {far(h) : h \in votes}
  <2>1. A \in SUBSET Nat /\ A # {}
    <3> HIDE DEF far
    <3>1. A \subseteq Nat
      BY <1>2
    <3> QED
      BY <1>3, <3>1
  <2>2. PICK a \in A : \A d \in A : a <= d
    <3> HIDE DEF A
    <3> QED
      BY <2>1, LeastNumber
  <2> DEFINE M == {h \in votes : far(h) = a}
             B == {h.at : h \in M}
  <2>3. B \in SUBSET Nat /\ B # {}
    <3>1. B \subseteq Nat
      BY <1>2
    <3>2. M # {}
      <4> HIDE DEF far
      <4> QED
        BY <2>2
    <3> HIDE DEF M
    <3> QED
      BY <3>1, <3>2
  <2>4. PICK b \in B : \A d \in B : b <= d
    <3> HIDE DEF B
    <3> QED
      BY <2>3, LeastNumber
  <2>5. PICK best \in M : b = best.at
    OBVIOUS
  <2>6. ASSUME NEW h \in votes PROVE nearer(best, h)
    <3>1. far(best) = a /\ best \in votes /\ a <= far(h)
      <4> HIDE DEF far
      <4> QED
        BY <2>2, <2>5
    <3>2. far(best) \in Nat /\ far(h) \in Nat
      BY <1>2, <3>1
    <3>3. far(h) = a => best.at <= h.at
      <4> HIDE DEF far
      <4> QED
        BY <2>4, <2>5
    <3>4. far(best) < far(h) \/ (far(best) = far(h) /\ best.at <= h.at)
      <4> HIDE DEF far, nearer, M, B
      <4> QED
        BY <3>1, <3>2, <3>3
    <3> QED
      BY <3>4
  <2> QED
    BY <2>5, <2>6
<1>4. ASSUME votes # {} PROVE v \in votes
  <2> HIDE DEF votes, nearer
  <2> QED
    BY <1>3, <1>4, Zenon
<1>5. ASSUME votes # {} PROVE chosen \in pool
  <2> DEFINE sup == Supported(pool, v.field)
  <2>1. Cardinality(sup) = 1
    BY <1>4, <1>5
  <2> HIDE DEF v
  <2>2. sup \subseteq pool
    BY DEF Supported
  <2> HIDE DEF sup
  <2>3. sup # {}
    BY <2>1, FS_EmptySet
  <2>4. (CHOOSE c \in sup : TRUE) \in sup
    BY <2>3, Zenon
  <2> QED
    BY <2>2, <2>4 DEF sup
<1> HIDE DEF votes, chosen
<1> QED
  BY <1>1, <1>5

(* An item is aligned with a field of the template, or with none.             *)
LEMMA TargetIs ==
    ASSUME NEW label, NEW title, NEW spot \in Nat, NEW hits, \A h \in hits : h.at \in Nat
    PROVE  /\ Exact(label) \in Range(Fields) \cup {None}
           /\ _shared_target(Pool(label), title, spot, hits) \in Range(Fields) \cup {None}
<1> DEFINE F == Range(Fields)
           pool == Pool(label)
<1>1. ASSUME NEW S, Cardinality(S) = 1 PROVE (CHOOSE f \in S : TRUE) \in S
  <2>1. S # {}
    BY <1>1, FS_EmptySet
  <2> QED
    BY <2>1, Zenon
<1>2. Exact(label) \in F \cup {None}
  <2>1. Claimants(label) \subseteq F
    BY DEF Claimants
  <2> QED
    BY <1>1, <2>1 DEF Exact
<1>3. pool \subseteq F
  BY DEF Pool
<1> HIDE DEF pool, F
<1>4. _shared_target(pool, title, spot, hits) \in pool \cup {None}
  <2> DEFINE scoped == {f \in pool : title # "" /\ _section_match(title, f.section)}
             near == _nearest_role(pool, spot, hits)
             nearscoped == _nearest_role(scoped, spot, hits)
             one == CHOOSE f \in scoped : TRUE
             only == CHOOSE f \in pool : TRUE
  <2>1. _shared_target(pool, title, spot, hits) =
            IF pool = {} THEN None
            ELSE IF Cardinality(scoped) = 1 THEN one
            ELSE IF scoped # {} THEN nearscoped
            ELSE IF near # None THEN near
            ELSE IF Cardinality(pool) = 1 /\ title = "" THEN only
            ELSE None
    BY DEF _shared_target
  <2>2. near \in pool \cup {None} /\ nearscoped \in scoped \cup {None}
    BY NearestIs
  <2>3. scoped \subseteq pool
    OBVIOUS
  <2>4. Cardinality(scoped) = 1 => one \in scoped
    BY <1>1
  <2>5. Cardinality(pool) = 1 => only \in pool
    BY <1>1
  <2> HIDE DEF scoped, near, nearscoped, one, only
  <2> QED
    BY <2>1, <2>2, <2>3, <2>4, <2>5
<1> QED
  BY <1>2, <1>3, <1>4 DEF pool, F

(* The items of a section that have a value, in order, each with its field.   *)
Kepts(section) ==
    Kept(section.fields, {i \in DOMAIN section.fields : section.fields[i].value # Empty})

(* They are what the section's targets are made of, in order.                *)
LEMMA TargetsAre ==
    ASSUME NEW section \in Section
    PROVE  /\ Targets(section) \in Seq(Aligned)
           /\ IsList(Kepts(section)) /\ Range(Kepts(section)) \subseteq Found
           /\ DOMAIN Targets(section) = DOMAIN Kepts(section)
           /\ \A i \in DOMAIN Kepts(section) : Targets(section)[i].value = Kepts(section)[i].value
<1> DEFINE fields == section.fields
           I == {i \in DOMAIN fields : fields[i].value # Empty}
           items == Kepts(section)
           hits == {[at |-> i, field |-> Exact(items[i].label)] :
                        i \in {j \in DOMAIN items : Exact(items[j].label) # None}}
           target(i) == IF Claimants(items[i].label) # {} THEN Exact(items[i].label)
                        ELSE _shared_target(Pool(items[i].label), section.title, i, hits)
           ts == Targets(section)
<1>1. fields \in Seq(Found)
  BY DEF Section
<1>2. /\ IsList(items) /\ Range(items) \subseteq {x \in Found : x.value # Empty}
  <2>1. IsList(fields) /\ Range(fields) \subseteq Found
    <3> HIDE DEF fields
    <3> QED
      BY <1>1, SeqIsList
  <2>2. I \in SUBSET DOMAIN fields /\ \A i \in I : fields[i].value # Empty
    OBVIOUS
  <2>3. items = Kept(fields, I)
    BY DEF Kepts
  <2> HIDE DEF fields, I, items
  <2>4. IsList(items) /\ Range(items) = {fields[i] : i \in I}
    BY <2>1, <2>2, <2>3, KeptIs
  <2>5. \A i \in I : fields[i] \in Found
    BY <2>1, <2>2 DEF Range
  <2> QED
    BY <2>2, <2>4, <2>5
<1>3. ts = [i \in DOMAIN items |-> [label |-> items[i].label, value |-> items[i].value,
                                    target |-> target(i)]]
  BY DEF Targets, Kepts
<1>4. DOMAIN items = 1..Len(items) /\ Len(items) \in Nat
  <2> HIDE DEF items
  <2> QED
    BY <1>2, ListIsFinite
<1>5. \A h \in hits : h.at \in Nat
  <2> HIDE DEF items
  <2> QED
    BY <1>4
<1>6. \A i \in DOMAIN items : items[i] \in {x \in Found : x.value # Empty}
  BY <1>2 DEF Range
<1>7. ASSUME NEW i \in DOMAIN items PROVE target(i) \in Range(Fields) \cup {None}
  <2>1. i \in Nat
    BY <1>4
  <2> HIDE DEF items, hits
  <2>2. /\ Exact(items[i].label) \in Range(Fields) \cup {None}
        /\ _shared_target(Pool(items[i].label), section.title, i, hits)
                \in Range(Fields) \cup {None}
    BY <1>5, <2>1, TargetIs
  <2> QED
    BY <2>2
<1> HIDE DEF items, hits, target, ts
<1>8. ASSUME NEW i \in DOMAIN items PROVE ts[i] \in Aligned /\ ts[i].value = items[i].value
  <2>1. ts[i] = [label |-> items[i].label, value |-> items[i].value, target |-> target(i)]
    BY <1>3
  <2> QED
    BY <1>6, <1>7, <2>1 DEF Aligned
<1>9. DOMAIN ts = 1..Len(items) /\ ts = [i \in 1..Len(items) |-> ts[i]]
  BY <1>3, <1>4
<1>10. ts \in Seq(Aligned)
  <2> DEFINE n == Len(items)
  <2>1. n \in Nat /\ ts = [i \in 1..n |-> ts[i]] /\ \A i \in 1..n : ts[i] \in Aligned
    BY <1>4, <1>8, <1>9
  <2> HIDE DEF n
  <2>2. ts \in [1..n -> Aligned]
    BY <2>1
  <2> QED
    BY <2>1, <2>2
<1> QED
  BY <1>2, <1>4, <1>8, <1>9, <1>10 DEF items, ts

(* A row with one more place.                                                 *)
LEMMA WithIs ==
    ASSUME NEW row \in RowSet, NEW f \in Range(Fields), NEW v \in Vals
    PROVE  /\ With(row, f.key, v) \in RowSet /\ With(<<>>, f.key, v) \in RowSet
           /\ <<>> \in RowSet
<1> DEFINE K == {g.key : g \in Range(Fields)}
<1>1. ASSUME NEW r, NEW ks \in SUBSET K, r \in [ks -> Vals] PROVE With(r, f.key, v) \in RowSet
  <2> DEFINE w == With(r, f.key, v)
             all == ks \cup {f.key}
  <2>1. w = [x \in all |-> IF x = f.key THEN v ELSE r[x]]
    BY <1>1 DEF With
  <2>2. w \in [all -> Vals]
    BY <1>1, <2>1
  <2>3. all \in SUBSET K
    OBVIOUS
  <2> HIDE DEF w, all, K
  <2>4. w \in UNION {[s -> Vals] : s \in SUBSET K}
    BY <2>2, <2>3
  <2> QED
    BY <2>4 DEF RowSet, w, K
<1>2. PICK ks \in SUBSET K : row \in [ks -> Vals]
  BY DEF RowSet
<1>3. <<>> \in [{} -> Vals] /\ {} \in SUBSET K
  OBVIOUS
<1>4. <<>> \in RowSet
  <2> HIDE DEF K
  <2>1. <<>> \in UNION {[s -> Vals] : s \in SUBSET K}
    BY <1>3
  <2> QED
    BY <2>1 DEF RowSet, K
<1> QED
  BY <1>1, <1>2, <1>3, <1>4

(* A part of a placement is replaced and nothing else.                        *)
LEMMA PartIs ==
    ASSUME NEW a, NEW b, NEW c, NEW d, NEW p, p = [values |-> a, rows |-> b, extras |-> c]
    PROVE  /\ [p EXCEPT !.values = d] = [values |-> d, rows |-> b, extras |-> c]
           /\ [p EXCEPT !.rows = d] = [values |-> a, rows |-> d, extras |-> c]
           /\ [p EXCEPT !.extras = d] = [values |-> a, rows |-> b, extras |-> d]
  OBVIOUS

(* An item is placed: in a row, in a field, or under "other information".     *)
LEMMA ItemIsPlaced ==
    ASSUME NEW p \in Placements, NEW it \in Aligned
    PROVE  PlaceItem(p, it) \in Placements
<1> DEFINE x == [label |-> it.label, value |-> it.value]
           f == it.target
           v == it.value
           g == f.section
           rows == p.rows[g]
           n == Len(rows)
           extra == [p EXCEPT !.extras = Append(@, x)]
           opened == [p EXCEPT !.rows[g] = Append(@, With(<<>>, f.key, v))]
           longer == [p EXCEPT !.rows[g][n] = With(@, f.key, v)]
           valued == [p EXCEPT !.values = With(@, f.key, v)]
<1>1. x \in Found /\ v \in Vals /\ f \in Range(Fields) \cup {None}
  <2>1. PICK y \in Found, t \in Range(Fields) \cup {None} :
            y.value # Empty /\ it = [label |-> y.label, value |-> y.value, target |-> t]
    BY DEF Aligned
  <2>2. y = [label |-> y.label, value |-> y.value]
    BY FoundIs
  <2> QED
    BY <2>1, <2>2 DEF Vals
<1>2. p.values \in RowSet /\ p.rows \in [Groups -> Seq(RowSet)] /\ p.extras \in Seq(Found)
      /\ p = [values |-> p.values, rows |-> p.rows, extras |-> p.extras]
  BY DEF Placements
<1>3. extra \in Placements
  <2>1. Append(p.extras, x) \in Seq(Found)
    BY <1>1, <1>2
  <2> HIDE DEF x
  <2>2. extra = [values |-> p.values, rows |-> p.rows, extras |-> Append(p.extras, x)]
    <3> DEFINE d == Append(p.extras, x)
    <3>1. extra = [p EXCEPT !.extras = d]
      OBVIOUS
    <3> HIDE DEF d, extra
    <3> QED
      BY <1>2, <3>1, PartIs DEF d
  <2> QED
    BY <1>2, <2>1, <2>2 DEF Placements
<1>4. ASSUME f # None PROVE valued \in Placements
  <2>1. With(p.values, f.key, v) \in RowSet
    BY <1>1, <1>2, <1>4, WithIs
  <2>2. valued = [values |-> With(p.values, f.key, v), rows |-> p.rows, extras |-> p.extras]
    BY <1>2
  <2> QED
    BY <1>2, <2>1, <2>2 DEF Placements
<1>5. ASSUME f # None, f.repeatable
      PROVE  /\ opened \in Placements
             /\ rows # <<>> => longer \in Placements
  <2>1. g \in Groups
    BY <1>1, <1>5 DEF Groups
  <2>2. rows \in Seq(RowSet)
    BY <1>2, <2>1
  <2>3. With(<<>>, f.key, v) \in RowSet
    BY <1>1, <1>2, <1>5, WithIs
  <2> DEFINE R1 == [p.rows EXCEPT ![g] = Append(@, With(<<>>, f.key, v))]
             R2 == [p.rows EXCEPT ![g][n] = With(@, f.key, v)]
  <2>4. R1 \in [Groups -> Seq(RowSet)]
    <3>1. Append(rows, With(<<>>, f.key, v)) \in Seq(RowSet)
      BY <2>2, <2>3
    <3> QED
      BY <1>2, <2>1, <3>1
  <2>5. opened = [values |-> p.values, rows |-> R1, extras |-> p.extras]
    <3>1. opened = [p EXCEPT !.rows = R1]
      OBVIOUS
    <3> HIDE DEF R1, opened
    <3> QED
      BY <1>2, <3>1, PartIs
  <2>6. opened \in Placements
    <3> HIDE DEF R1, opened
    <3> QED
      BY <1>2, <2>4, <2>5 DEF Placements
  <2>7. ASSUME rows # <<>> PROVE R2 \in [Groups -> Seq(RowSet)]
    <3>1. rows[n] \in RowSet /\ n \in 1..Len(rows)
      <4> HIDE DEF rows
      <4> QED
        BY <2>2, <2>7
    <3>2. With(rows[n], f.key, v) \in RowSet
      BY <1>1, <1>5, <3>1, WithIs
    <3>3. [rows EXCEPT ![n] = With(@, f.key, v)] \in Seq(RowSet)
      <4> DEFINE w == With(rows[n], f.key, v)
      <4> HIDE DEF w
      <4>1. [rows EXCEPT ![n] = w] \in Seq(RowSet)
        BY <2>2, <3>1, <3>2 DEF w
      <4> QED
        BY <4>1 DEF w
    <3>4. R2 = [p.rows EXCEPT ![g] = [rows EXCEPT ![n] = With(@, f.key, v)]]
      BY <1>2, <2>1
    <3> QED
      BY <1>2, <2>1, <3>3, <3>4
  <2>8. longer = [values |-> p.values, rows |-> R2, extras |-> p.extras]
    <3>1. longer = [p EXCEPT !.rows = R2]
      OBVIOUS
    <3> HIDE DEF R2, longer
    <3> QED
      BY <1>2, <3>1, PartIs
  <2>9. rows # <<>> => longer \in Placements
    <3> HIDE DEF R2, longer
    <3> QED
      BY <1>2, <2>7, <2>8 DEF Placements
  <2> QED
    BY <2>6, <2>9
<1>6. PlaceItem(p, it) \in {extra, valued} \/ (f # None /\ f.repeatable
            /\ (PlaceItem(p, it) = opened \/ (rows # <<>> /\ PlaceItem(p, it) = longer)))
  BY DEF PlaceItem, PlaceInRow
<1>7. PlaceItem(p, it) = valued => f # None \/ PlaceItem(p, it) = extra
  BY DEF PlaceItem
<1> HIDE DEF extra, valued, opened, longer
<1> QED
  BY <1>3, <1>4, <1>5, <1>6, <1>7

(* What alignment has to place.                                               *)
ItemsOf(secs) == FlattenSeq([s \in DOMAIN secs |-> Targets(secs[s])])

(* Each is a value and the field it may go to.                                *)
LEMMA ItemsAre ==
    ASSUME NEW secs \in Sections
    PROVE  ItemsOf(secs) \in Seq(Aligned)
<1> DEFINE ts == [s \in DOMAIN secs |-> Targets(secs[s])]
<1>1. IsList(secs) /\ Range(secs) \subseteq Section
  BY SeqIsList DEF Sections
<1>2. IsList(ts) /\ DOMAIN ts = DOMAIN secs
  <2>1. ts = [s \in DOMAIN secs |-> ts[s]]
    OBVIOUS
  <2> HIDE DEF ts
  <2> QED
    BY <1>1, <2>1, MapIsList
<1>3. ASSUME NEW s \in DOMAIN ts PROVE ts[s] \in Seq(Aligned) /\ IsList(ts[s])
                                       /\ Range(ts[s]) \subseteq Aligned
  <2>1. secs[s] \in Section
    BY <1>1, <1>2 DEF Range
  <2>2. ts[s] = Targets(secs[s])
    BY <1>2
  <2>3. ts[s] \in Seq(Aligned)
    BY <2>1, <2>2, TargetsAre
  <2> HIDE DEF ts
  <2> QED
    BY <2>3, SeqIsList
<1> HIDE DEF ts
<1>4. /\ IsList(FlattenSeq(ts))
      /\ Range(FlattenSeq(ts)) = UNION {Range(ts[s]) : s \in DOMAIN ts}
  BY <1>2, <1>3, FlattenRange
<1>5. Range(FlattenSeq(ts)) \subseteq Aligned
  BY <1>3, <1>4
<1> QED
  BY <1>4, <1>5, ListInSeq DEF ItemsOf, ts

(* Alignment places them one by one.                                          *)
LEMMA AlignIs ==
    ASSUME NEW secs \in Sections, NEW items, items = ItemsOf(secs)
    PROVE  /\ items \in Seq(Aligned)
           /\ \E u \in [0..Len(items) -> Placements] :
                /\ u[0] = Blank /\ _align(secs) = u[Len(items)]
                /\ \A i \in 1..Len(items) : u[i] = PlaceItem(u[i - 1], items[i])
<1> DEFINE n == Len(items)
           S == Placements
           base == Blank
           step == [x \in S \X ((0 + 1)..n) |-> PlaceItem(x[1], items[x[2]])]
           P(h) == h = [i \in 0..n |-> IF i = 0 THEN Blank ELSE PlaceItem(h[i - 1], items[i])]
           u == CHOOSE h : P(h)
<1>0. items \in Seq(Aligned)
  BY ItemsAre
<1>1. n \in Nat /\ \A i \in 1..n : items[i] \in Aligned
  BY <1>0
<1>2. base \in S
  <2>1. <<>> \in [{} -> Vals] /\ {} \in SUBSET {f.key : f \in Range(Fields)}
    OBVIOUS
  <2> DEFINE K == {f.key : f \in Range(Fields)}
  <2> HIDE DEF K
  <2>2. <<>> \in UNION {[ks -> Vals] : ks \in SUBSET K}
    BY <2>1 DEF K
  <2>3. <<>> \in RowSet
    BY <2>2 DEF RowSet, K
  <2>4. [g \in Groups |-> <<>>] \in [Groups -> Seq(RowSet)]
    OBVIOUS
  <2> QED
    BY <2>3, <2>4 DEF Blank, Placements
<1>A. \A s \in S, i \in 1..n : PlaceItem(s, items[i]) \in S
  BY <1>1, ItemIsPlaced
<1>3. step \in [S \X ((0 + 1)..n) -> S]
  BY <1>A
<1>4. PICK f \in [0..n -> S] : f[0] = base /\ \A i \in (0 + 1)..n : f[i] = step[<<f[i - 1], i>>]
  <2>1. Folds(0, n, S, base, step)
    <3>1. 0 \in Nat /\ 0 <= n /\ n \in Nat
      BY <1>1
    <3> HIDE DEF n, S, base, step
    <3> QED
      BY <3>1, <1>2, <1>3, FoldExists
  <2> HIDE DEF n, S, base, step
  <2> QED
    BY <2>1 DEF Folds
<1>5. ASSUME NEW i \in 1..n PROVE f[i] = PlaceItem(f[i - 1], items[i])
  <2>1. i \in (0 + 1)..n /\ i - 1 \in 0..n
    BY <1>1
  <2>2. f[i - 1] \in S /\ f[i] = step[<<f[i - 1], i>>]
    <3> HIDE DEF n, S, base, step
    <3> QED
      BY <1>4, <2>1
  <2>3. <<f[i - 1], i>> \in S \X ((0 + 1)..n)
    BY <2>1, <2>2
  <2> HIDE DEF n, S
  <2> QED
    BY <2>2, <2>3
<1>6. P(f)
  <2>1. \A i \in 0..n : i = 0 \/ i \in 1..n
    BY <1>1
  <2>2. f[0] = Blank /\ f = [i \in 0..n |-> f[i]]
    BY <1>4
  <2> HIDE DEF n, S
  <2> QED
    BY <1>5, <2>1, <2>2
<1>7. P(u)
  <2>1. u = CHOOSE h : P(h)
    OBVIOUS
  <2> HIDE DEF P, u
  <2> QED
    BY <1>6, <2>1, Zenon
<1>8. _align(secs) = u[n]
  BY DEF _align, ItemsOf
<1> HIDE DEF u
<1>9. u[0] = Blank /\ \A i \in 1..n : u[i] = PlaceItem(u[i - 1], items[i])
  <2>1. 0 \in 0..n /\ \A i \in 1..n : i \in 0..n /\ i # 0
    BY <1>1
  <2> HIDE DEF n
  <2>2. u = [i \in 0..n |-> IF i = 0 THEN Blank ELSE PlaceItem(u[i - 1], items[i])]
    BY <1>7
  <2> QED
    BY <2>1, <2>2
<1>10. u \in [0..n -> S]
  <2> DEFINE G == {i \in 0..n : u[i] \in S}
  <2>1. 0 \in G
    BY <1>1, <1>2, <1>9
  <2>2. ASSUME NEW i \in 1..n, i - 1 \in G PROVE i \in G
    BY <1>A, <1>9, <2>2
  <2>3. \A i \in 0..n : i \in G
    <3> HIDE DEF G, n
    <3> QED
      BY <1>1, <2>1, <2>2, UpTo
  <2>4. \A i \in 0..n : u[i] \in S
    BY <2>3
  <2>5. u = [i \in 0..n |-> u[i]]
    BY <1>7
  <2> HIDE DEF n, S
  <2> QED
    BY <2>4, <2>5
<1> HIDE DEF n, S
<1> QED
  BY <1>0, <1>8, <1>9, <1>10 DEF n, S

(* What alignment makes of some sections can be placed.                       *)
LEMMA AlignedIs ==
    ASSUME NEW secs \in Sections
    PROVE  _align(secs) \in Placements
<1> DEFINE n == Len(ItemsOf(secs))
<1>1. ItemsOf(secs) \in Seq(Aligned)
  BY ItemsAre
<1>2. n \in 0..n
  BY <1>1
<1>3. PICK u \in [0..n -> Placements] : _align(secs) = u[n]
  BY AlignIs
<1> HIDE DEF n
<1> QED
  BY <1>2, <1>3

-----------------------------------------------------------------------------
(* What a request holds, at every step of it.                                 *)
Reads == [from : Nat, to : Nat, hit : BOOLEAN, slip : SLIPS, secs : Sections]

DataInv ==
    /\ tmpl = None \/ \E id \in Ids(reg) : tmpl = Get(reg, id)
    /\ todo \in Seq(Chunks) /\ read \in Seq(Reads) /\ free \in Sections
    /\ (pc # "idle" \/ result # None) => text \in DOMAIN DOCS /\ fid = Locator(Lines(text))
    /\ pc = "generic" => todo # <<>>
    /\ pc \in {"records", "targeted"} => tmpl # None /\ placed \in Placements
    /\ filled = [values |-> filled.values, groups |-> filled.groups]
    /\ \A k \in DOMAIN filled.values : filled.values[k] \in Vals

(* It holds at the start.                                                     *)
LEMMA DataInit == Init => DataInv
<1> SUFFICES ASSUME Init PROVE DataInv
  OBVIOUS
<1>1. <<>> \in Seq(Chunks) /\ <<>> \in Seq(Reads) /\ <<>> \in Sections
  BY DEF Sections
<1>2. filled = NoFill /\ NoFill = [values |-> <<>>, groups |-> {}]
  BY DEF Init, NoFill
<1>3. /\ filled = [values |-> filled.values, groups |-> filled.groups]
      /\ filled.values = <<>>
  BY <1>2
<1>4. \A k \in DOMAIN filled.values : filled.values[k] \in Vals
  BY <1>3
<1>5. tmpl = None /\ pc = "idle" /\ result = None /\ todo = <<>> /\ read = <<>> /\ free = <<>>
  BY DEF Init
<1> QED
  BY <1>1, <1>3, <1>4, <1>5 DEF DataInv

(* One generic call: what is left to read, and what was read.                 *)
LEMMA ReadKeeps ==
    ASSUME NEW slip \in SLIPS, NEW hit \in BOOLEAN, ReadChunk(slip, hit), DataInv
    PROVE  /\ todo' \in Seq(Chunks) /\ read' \in Seq(Reads) /\ free' \in Sections
           /\ pc' \in {"generic", "align"} /\ (pc' = "generic" => todo' # <<>>)
<1> DEFINE c == Head(todo)
           lines == ChunkLines(text, c)
           secs == IF hit THEN _loads_lenient(lines, slip) ELSE Reading(lines, slip)
           new == [from |-> c.from, to |-> c.to, hit |-> hit, slip |-> slip, secs |-> secs]
<1>1. /\ todo \in Seq(Chunks) /\ todo # <<>> /\ read \in Seq(Reads) /\ free \in Sections
      /\ text \in DOMAIN DOCS
  BY DEF DataInv, ReadChunk
<1>2. c \in Chunks /\ Tail(todo) \in Seq(Chunks)
  BY <1>1
<1> HIDE DEF c
<1>3. lines \in Seq(DocLines)
  BY <1>1, <1>2, ChunkLinesAre
<1> HIDE DEF lines
<1>4. secs \in Sections
  BY <1>3, ReadIsSections
<1> HIDE DEF secs
<1>6. \/ /\ todo' = Halves(text, c) \o Tail(todo) /\ UNCHANGED <<read, free>>
         /\ MaySplit(text, c)
      \/ /\ todo' = Tail(todo) /\ read' = Append(read, new)
         /\ free' = IF c.depth = 0 THEN secs ELSE _merge_generic(free, secs)
  BY DEF ReadChunk, c, secs, lines
<1>7. /\ pc' = IF todo' = <<>> THEN "align" ELSE "generic"
  BY DEF ReadChunk
<1>9. MaySplit(text, c) => Halves(text, c) \in Seq(Chunks) /\ Halves(text, c) # <<>>
  <2> SUFFICES ASSUME MaySplit(text, c)
               PROVE  Halves(text, c) \in Seq(Chunks) /\ Halves(text, c) # <<>>
    OBVIOUS
  <2>1. PICK a \in Chunks, b \in Chunks : Halves(text, c) = <<a, b>>
    BY <1>1, <1>2, SplitIs
  <2> QED
    BY <2>1
<1>10. new \in Reads
  <2>1. c.from \in Nat /\ c.to \in Nat
    BY <1>2 DEF Chunks
  <2> QED
    BY <1>4, <2>1 DEF Reads
<1>11. _merge_generic(free, secs) \in Sections
  <2> DEFINE n == Len(free \o secs)
  <2>1. PICK u \in [0..n -> Sections] : _merge_generic(free, secs) = u[n]
    BY <1>1, <1>4, MergedIs
  <2>2. n \in 0..n
    <3>1. free \in Seq(Section) /\ secs \in Seq(Section)
      BY <1>1, <1>4 DEF Sections
    <3>2. free \o secs \in Seq(Section)
      BY <3>1
    <3> QED
      BY <3>2
  <2> HIDE DEF n
  <2> QED
    BY <2>1, <2>2
<1> HIDE DEF new
<1>12. CASE /\ todo' = Halves(text, c) \o Tail(todo) /\ UNCHANGED <<read, free>>
            /\ MaySplit(text, c)
  <2>1. todo' \in Seq(Chunks)
    BY <1>2, <1>9, <1>12
  <2> QED
    BY <1>1, <1>7, <1>12, <2>1
<1>13. CASE /\ todo' = Tail(todo) /\ read' = Append(read, new)
            /\ free' = IF c.depth = 0 THEN secs ELSE _merge_generic(free, secs)
  <2>1. read' \in Seq(Reads)
    BY <1>1, <1>10, <1>13
  <2>2. free' \in Sections
    BY <1>4, <1>11, <1>13
  <2> QED
    BY <1>2, <1>7, <1>13, <2>1, <2>2
<1> QED
  BY <1>6, <1>12, <1>13

(* The template of a request that has one, and what it may place.             *)
LEMMA SameTemplate ==
    ASSUME tmpl' = tmpl
    PROVE  Placements' = Placements /\ Groups' = Groups /\ Fields' = Fields
<1>1. Fields' = Fields
  BY DEF Fields
<1>2. Groups' = Groups
  BY <1>1 DEF Groups
<1>3. RowSet' = RowSet
  BY <1>1 DEF RowSet
<1> QED
  BY <1>1, <1>2, <1>3 DEF Placements

(* A table's answer is rows by the keys of the template.                      *)
LEMMA RowsAre ==
    ASSUME IsList(tmpl.fields), NEW g, NEW rows \in RowAnswers(g)
    PROVE  rows \in Seq(RowSet)
<1> DEFINE K == {f.key : f \in Range(Fields)}
           S == {i \in DOMAIN tmpl.fields :
                    tmpl.fields[i].repeatable /\ tmpl.fields[i].section = g}
           req == {f.key : f \in {x \in Range(Shape(g)) : x.required}}
<1>1. Range(Shape(g)) \subseteq Range(Fields)
  <2>1. Shape(g) = Kept(tmpl.fields, S)
    BY DEF Shape
  <2>2. S \in SUBSET DOMAIN tmpl.fields
    OBVIOUS
  <2> HIDE DEF S
  <2>3. Range(Shape(g)) = {tmpl.fields[i] : i \in S}
    BY <2>1, <2>2, KeptIs
  <2>4. Range(Shape(g)) \subseteq Range(tmpl.fields)
    BY <2>2, <2>3 DEF Range
  <2> QED
    BY <2>4, FieldsAre
<1>2. _record_columns(g) \subseteq K
  BY <1>1 DEF _record_columns
<1> HIDE DEF req
<1>3. ASSUME NEW r \in Answers(_record_columns(g), req) PROVE r \in RowSet
  <2> DEFINE C == _record_columns(g)
  <2>1. r = <<>> \/ \E ks \in {C, C \ req}, v \in VALUES : r \in [ks -> {v}]
    <3> DEFINE A == {[ks -> {v}] : ks \in {C, C \ req}, v \in VALUES}
    <3>1. \A a \in A : \E ks \in {C, C \ req}, v \in VALUES : a = [ks -> {v}]
      OBVIOUS
    <3>2. r \in {<<>>} \cup UNION A
      BY DEF Answers
    <3> HIDE DEF A, C
    <3>3. r = <<>> \/ \E a \in A : r \in a
      BY <3>2
    <3> QED
      BY <3>1, <3>3, Zenon
  <2>2. CASE r = <<>>
    <3>1. <<>> \in [{} -> Vals] /\ {} \in SUBSET K
      OBVIOUS
    <3> HIDE DEF K
    <3>2. <<>> \in UNION {[ks -> Vals] : ks \in SUBSET K}
      BY <3>1
    <3> QED
      BY <2>2, <3>2 DEF RowSet, K
  <2>3. CASE \E ks \in {C, C \ req}, v \in VALUES : r \in [ks -> {v}]
    <3>1. PICK ks \in {C, C \ req}, v \in VALUES : r \in [ks -> {v}]
      BY <2>3
    <3>2. v \in Vals
      BY TextAssumption DEF Vals, Empty
    <3>3. ks \in SUBSET K
      BY <1>2, <3>1
    <3>4. r \in [ks -> Vals]
      BY <3>1, <3>2
    <3> HIDE DEF K
    <3>5. r \in UNION {[s -> Vals] : s \in SUBSET K}
      BY <3>3, <3>4
    <3> QED
      BY <3>5 DEF RowSet, K
  <2> QED
    BY <2>1, <2>2, <2>3
<1>4. rows = <<>> \/ \E r \in Answers(_record_columns(g), req) : rows = <<r, r>>
  BY DEF RowAnswers, req
<1>5. CASE rows = <<>>
  BY <1>5
<1>6. CASE \E r \in Answers(_record_columns(g), req) : rows = <<r, r>>
  <2>1. PICK r \in Answers(_record_columns(g), req) : rows = <<r, r>>
    BY <1>6
  <2>2. r \in RowSet
    BY <1>3
  <2> QED
    BY <2>1, <2>2
<1> QED
  BY <1>4, <1>5, <1>6

(* A targeted answer's values are values.                                     *)
LEMMA GotIs ==
    ASSUME NEW keys, NEW req, NEW got \in Answers(keys, req)
    PROVE  \A k \in DOMAIN got : got[k] \in Vals
<1> DEFINE A == {[ks -> {v}] : ks \in {keys, keys \ req}, v \in VALUES}
<1>1. \A a \in A : \E ks \in {keys, keys \ req}, v \in VALUES : a = [ks -> {v}]
  OBVIOUS
<1>6. Answers(keys, req) = {<<>>} \cup UNION A
  BY DEF Answers
<1> HIDE DEF A
<1>2. got \in {<<>>} \cup UNION A
  BY <1>6, Zenon
<1>3. got = <<>> \/ \E a \in A : got \in a
  BY <1>2
<1>4. CASE got = <<>>
  BY <1>4
<1>5. CASE \E a \in A : got \in a
  <2>1. PICK a \in A : got \in a
    BY <1>5
  <2>2. PICK ks \in {keys, keys \ req}, v \in VALUES : a = [ks -> {v}]
    BY <1>1
  <2>3. v \in Vals
    BY TextAssumption DEF Vals, Empty
  <2> QED
    BY <2>1, <2>2, <2>3
<1> QED
  BY <1>3, <1>4, <1>5

(* A text that is read is one chunk of it.                                    *)
LEMMA WholeIsChunk ==
    ASSUME NEW t \in DOMAIN DOCS
    PROVE  <<[from |-> 0, to |-> _clean(t), depth |-> 0]>> \in Seq(Chunks)
<1>1. _clean(t) \in Nat
  BY CleanIs
<1>2. 0 \in 0..SPLIT_MAX_DEPTH
  BY DEF SPLIT_MAX_DEPTH
<1> DEFINE whole == [from |-> 0, to |-> _clean(t), depth |-> 0]
<1>3. whole \in Chunks
  BY <1>1, <1>2 DEF Chunks
<1> HIDE DEF whole
<1>4. <<whole>> \in Seq(Chunks)
  BY <1>3
<1> QED
  BY <1>4 DEF whole

(* Every step keeps it.                                                       *)
LEMMA DataNext == DataInv /\ [Next]_vars => DataInv'
<1> SUFFICES ASSUME DataInv, [Next]_vars PROVE DataInv'
  OBVIOUS
<1>0. /\ <<>> \in Seq(Chunks) /\ <<>> \in Seq(Reads) /\ <<>> \in Sections
      /\ NoFill = [values |-> NoFill.values, groups |-> NoFill.groups]
      /\ \A k \in DOMAIN NoFill.values : NoFill.values[k] \in Vals
  <2>1. NoFill = [values |-> <<>>, groups |-> {}] /\ NoFill.values = <<>>
    BY DEF NoFill
  <2> QED
    BY <2>1 DEF Sections
<1>A. ASSUME UNCHANGED <<text, fid, tmpl, todo, read, free, filled>>,
             pc \in {"records", "targeted"} => UNCHANGED placed,
             pc' \in {"records", "targeted"} => pc \in {"records", "targeted"},
             pc' = "generic" => pc = "generic",
             pc # "idle" \/ result # None \/ (pc' = "idle" /\ result' = None)
      PROVE  DataInv'
  <2>1. Placements' = Placements
    BY <1>A, SameTemplate
  <2> QED
    BY <1>A, <2>1 DEF DataInv
<1>1. ASSUME NEW t \in DOMAIN DOCS, NEW id \in Ids(reg) \cup {"", "retired"}, Request(t, id)
      PROVE  DataInv'
  <2> DEFINE whole == [from |-> 0, to |-> _clean(t), depth |-> 0]
  <2>1. <<whole>> \in Seq(Chunks)
    BY WholeIsChunk
  <2> HIDE DEF whole
  <2>2. \/ pc' = "idle" /\ todo' = <<>>
        \/ pc' = "generic" /\ todo' = <<whole>>
    BY <1>1 DEF Request, whole
  <2>3. todo' \in Seq(Chunks) /\ (pc' = "generic" => todo' # <<>>)
        /\ pc' \in {"idle", "generic"}
    <3>1. <<whole>> # <<>>
      OBVIOUS
    <3> QED
      BY <1>0, <2>1, <2>2, <3>1
  <2>4. /\ text' = t /\ fid' = Locator(Lines(t)) /\ read' = <<>> /\ free' = <<>>
        /\ filled' = NoFill /\ tmpl' = IF id \in Ids(reg) THEN Get(reg, id) ELSE None
    BY <1>1 DEF Request
  <2> QED
    BY <1>0, <2>3, <2>4 DEF DataInv
<1>2. ASSUME NEW slip \in SLIPS, NEW hit \in BOOLEAN, ReadChunk(slip, hit) PROVE DataInv'
  <2>1. /\ UNCHANGED <<text, fid, tmpl, filled, result>> /\ pc = "generic"
    BY <1>2 DEF ReadChunk
  <2>2. /\ todo' \in Seq(Chunks) /\ read' \in Seq(Reads) /\ free' \in Sections
        /\ pc' \in {"generic", "align"} /\ (pc' = "generic" => todo' # <<>>)
    BY <1>2, ReadKeeps
  <2> QED
    BY <2>1, <2>2 DEF DataInv
<1>3. CASE GenericRaises
  <2>1. /\ UNCHANGED <<text, fid, tmpl, read, free, filled>> /\ pc = "generic"
        /\ pc' = "idle" /\ todo' = <<>>
    BY <1>3 DEF GenericRaises
  <2> QED
    BY <1>0, <2>1 DEF DataInv
<1>4. CASE Align
  <2>1. CASE tmpl = None
    <3>1. /\ UNCHANGED <<text, fid, tmpl, todo, read, free, filled>> /\ pc = "align"
          /\ pc' = "expiry"
      BY <1>4, <2>1 DEF Align, Answer
    <3> QED
      BY <1>A, <3>1
  <2>2. CASE tmpl # None
    <3>1. /\ UNCHANGED <<text, fid, tmpl, todo, read, free, filled>> /\ pc = "align"
          /\ pc' = "records" /\ placed' = _align(free)
      BY <1>4, <2>2 DEF Align
    <3>2. _align(free) \in Placements
      BY AlignedIs DEF DataInv
    <3>3. Placements' = Placements
      BY <3>1, SameTemplate
    <3> QED
      BY <2>2, <3>1, <3>2, <3>3 DEF DataInv
  <2> QED
    BY <2>1, <2>2
<1>5. CASE Respond
  BY <1>0, <1>5 DEF Respond, DataInv
<1>6. ASSUME pc = "records", asked.groups # <<>>, NEW rows \in RowAnswers(Head(asked.groups)),
             RecordPass(rows)
      PROVE  DataInv'
  <2> DEFINE g == Head(asked.groups)
  <2>1. /\ UNCHANGED <<pc, text, fid, tmpl, todo, read, free, result>>
        /\ \/ UNCHANGED <<placed, filled>>
           \/ /\ placed' = [placed EXCEPT !.rows[g] = rows]
              /\ filled' = [filled EXCEPT !.groups = @ \cup {g}]
    BY <1>6 DEF RecordPass
  <2>2. CASE UNCHANGED <<placed, filled>>
    BY <1>6, <1>A, <2>1, <2>2
  <2>3. CASE /\ placed' = [placed EXCEPT !.rows[g] = rows]
             /\ filled' = [filled EXCEPT !.groups = @ \cup {g}]
    <3>1. /\ filled'.values = filled.values
          /\ filled' = [values |-> filled'.values, groups |-> filled'.groups]
      <4> DEFINE w == filled.values
                 gs == filled.groups
      <4>1. filled = [values |-> w, groups |-> gs]
        BY DEF DataInv
      <4> HIDE DEF w, gs, g
      <4>2. filled' = [values |-> w, groups |-> gs \cup {g}]
        BY <2>3, <4>1
      <4> QED
        BY <4>2 DEF w
    <3>2. placed \in Placements /\ tmpl # None
      BY <1>6 DEF DataInv
    <3>3. IsList(tmpl.fields)
      BY <3>2, TemplateIs DEF DataInv
    <3>4. rows \in Seq(RowSet)
      BY <1>6, <3>3, RowsAre
    <3>5. placed' \in Placements
      <4> HIDE DEF g
      <4>1. placed = [values |-> placed.values, rows |-> placed.rows, extras |-> placed.extras]
            /\ placed.rows \in [Groups -> Seq(RowSet)]
            /\ placed.values \in RowSet /\ placed.extras \in Seq(Found)
        BY <3>2 DEF Placements
      <4> DEFINE rs == [placed.rows EXCEPT ![g] = rows]
      <4>2. rs \in [Groups -> Seq(RowSet)]
        BY <3>4, <4>1
      <4>3. placed' = [placed EXCEPT !.rows = rs]
        BY <2>3
      <4> HIDE DEF rs
      <4>4. placed' = [values |-> placed.values, rows |-> rs, extras |-> placed.extras]
        BY <4>1, <4>3, PartIs
      <4> QED
        BY <4>1, <4>2, <4>4 DEF Placements
    <3>6. Placements' = Placements
      BY <2>1, SameTemplate
    <3> QED
      BY <1>6, <2>1, <3>1, <3>5, <3>6 DEF DataInv
  <2> QED
    BY <2>1, <2>2, <2>3
<1>7. CASE RecordsDone
  BY <1>7, <1>A DEF RecordsDone
<1>8. ASSUME NEW batch, NEW got \in BatchAnswers(batch), TargetedPass(got) PROVE DataInv'
  <2> DEFINE new == DOMAIN got \ (DOMAIN placed.values \cup DOMAIN filled.values)
             more == [k \in DOMAIN filled.values \cup new |->
                            IF k \in new THEN got[k] ELSE filled.values[k]]
  <2>1. /\ UNCHANGED <<pc, text, fid, tmpl, todo, read, free, result, placed>>
        /\ pc = "targeted" /\ filled' = [filled EXCEPT !.values = more]
    BY <1>8 DEF TargetedPass, Fill
  <2>2. \A k \in DOMAIN got : got[k] \in Vals
    BY GotIs DEF BatchAnswers
  <2>3. \A k \in DOMAIN filled.values : filled.values[k] \in Vals
    BY DEF DataInv
  <2>4. \A k \in DOMAIN more : more[k] \in Vals
    BY <2>2, <2>3
  <2> HIDE DEF more
  <2>5. filled'.values = more /\ filled' = [values |-> filled'.values, groups |-> filled'.groups]
    <3> DEFINE w == filled.values
               gs == filled.groups
    <3>1. filled = [values |-> w, groups |-> gs]
      BY DEF DataInv
    <3> HIDE DEF w, gs
    <3>2. filled' = [values |-> more, groups |-> gs]
      BY <2>1, <3>1
    <3> QED
      BY <3>2
  <2>6. Placements' = Placements
    BY <2>1, SameTemplate
  <2> QED
    BY <2>1, <2>4, <2>5, <2>6 DEF DataInv
<1>9. CASE TargetedDone
  BY <1>9, <1>A DEF TargetedDone, Answer
<1>10. CASE Expires
  BY <1>10, <1>A DEF Expires
<1>11. ASSUME NEW date, ChunkAnswer(date) PROVE DataInv'
  BY <1>11, <1>A DEF ChunkAnswer
<1>12. CASE ChunkRaises
  BY <1>12, <1>A DEF ChunkRaises
<1>13. CASE UNCHANGED vars
  <2>1. Placements' = Placements
    BY <1>13, SameTemplate DEF vars
  <2> QED
    BY <1>13, <2>1 DEF vars, DataInv
<1> QED
  BY <1>1, <1>2, <1>3, <1>4, <1>5, <1>6, <1>7, <1>8, <1>9, <1>10, <1>11, <1>12, <1>13 DEF Next

-----------------------------------------------------------------------------
(* Where a value is cited.                                                    *)

(* A word's place, counted as the browser counts, leads back to the word.     *)
LEMMA OffsetBack ==
    ASSUME NEW T, IsList(T), NEW i \in DOMAIN T
    PROVE  _utf16(T, i) \in Nat /\ code_point(T, _utf16(T, i)) = i
<1> DEFINE A == _astral(T)
           Below(j) == {k \in A : k < j}
           u(j) == j + Cardinality(Below(j))
<1>1. DOMAIN T = 1..Len(T) /\ Len(T) \in Nat
  BY ListIsFinite
<1>2. A \subseteq 1..Len(T) /\ IsFiniteSet(1..Len(T))
  BY <1>1, FS_Interval DEF _astral
<1> HIDE DEF A
<1>3. ASSUME NEW j
      PROVE  IsFiniteSet(Below(j)) /\ Cardinality(Below(j)) \in Nat
  <2>1. Below(j) \in SUBSET (1..Len(T))
    BY <1>2
  <2> QED
    BY <1>2, <2>1, FS_Subset, FS_CardinalityType
<1>4. ASSUME NEW j \in Int, NEW k \in Int, j <= k
      PROVE  Cardinality(Below(j)) <= Cardinality(Below(k))
  <2>1. \A x \in A : x \in Int
    BY <1>2
  <2>2. Below(j) \in SUBSET Below(k)
    BY <1>4, <2>1
  <2> QED
    BY <1>3, <2>2, FS_Subset
<1> HIDE DEF Below
<1>5. i \in Nat /\ u(i) \in Nat
  <2> DEFINE c == Cardinality(Below(i))
  <2>1. c \in Nat /\ i \in Nat
    BY <1>1, <1>3
  <2> HIDE DEF c
  <2>2. i + c \in Nat
    BY <2>1
  <2> QED
    BY <2>1, <2>2 DEF c
<1>6. ASSUME NEW j \in A PROVE u(j) < u(i) <=> j < i
  <2>1. j \in Int /\ i \in Int
    BY <1>2, <1>5
  <2> DEFINE a == Cardinality(Below(j))
             b == Cardinality(Below(i))
  <2>2. a \in Nat /\ b \in Nat /\ (j <= i => a <= b) /\ (i <= j => b <= a)
    BY <1>3, <1>4, <2>1
  <2> HIDE DEF a, b
  <2>3. j + a < i + b <=> j < i
    BY <2>1, <2>2
  <2> QED
    BY <2>3 DEF a, b
<1>7. \A j : _utf16(T, j) = u(j)
  BY DEF _utf16, A, Below
<1>8. {j \in A : _utf16(T, j) < u(i)} = Below(i)
  <2>1. \A j \in A : _utf16(T, j) < u(i) <=> j < i
    BY <1>6, <1>7
  <2> HIDE DEF u
  <2> QED
    BY <2>1 DEF Below
<1>9. code_point(T, u(i)) = u(i) - Cardinality(Below(i))
  <2>1. code_point(T, u(i)) = u(i) - Cardinality({j \in A : _utf16(T, j) < u(i)})
    BY DEF code_point, A
  <2> HIDE DEF u, Below
  <2> QED
    BY <1>8, <2>1
<1>10. Cardinality(Below(i)) \in Nat
  BY <1>3
<1>11. code_point(T, u(i)) = i
  BY <1>5, <1>9, <1>10
<1> QED
  BY <1>5, <1>7, <1>11

(* Of some places one costs least, the first of several.                      *)
LEMMA LeastCost ==
    ASSUME NEW C \in SUBSET Nat, C # {}, NEW f, \A c \in C : f[c] \in Nat
    PROVE  \E c \in C : \A d \in C : f[c] < f[d] \/ (f[c] = f[d] /\ c <= d)
<1> DEFINE V == {f[c] : c \in C}
           m == Min(V)
           D == {c \in C : f[c] = m}
<1>1. V \in SUBSET Nat /\ V # {}
  OBVIOUS
<1>2. m \in V /\ \A y \in V : m <= y
  <2> HIDE DEF V
  <2> QED
    BY <1>1, MinIs
<1> HIDE DEF m
<1>3. D \in SUBSET Nat /\ D # {}
  BY <1>2
<1>4. Min(D) \in D /\ \A y \in D : Min(D) <= y
  <2> HIDE DEF D
  <2> QED
    BY <1>3, MinIs
<1>5. ASSUME NEW d \in C PROVE f[Min(D)] < f[d] \/ (f[Min(D)] = f[d] /\ Min(D) <= d)
  <2>1. f[d] \in Nat /\ m <= f[d] /\ m \in Nat /\ f[Min(D)] = m
    BY <1>1, <1>2, <1>4
  <2>2. f[d] = m => Min(D) <= d
    BY <1>4
  <2> HIDE DEF D
  <2> QED
    BY <2>1, <2>2
<1> QED
  BY <1>4, <1>5

(* A finite set has a member of the greatest size.                            *)
LEMMA GreatestSize ==
    ASSUME NEW S, IsFiniteSet(S), S # {}, NEW f, f = [x \in S |-> f[x]],
           \A x \in S : f[x] \in Nat
    PROVE  \E x \in S : \A y \in S : f[x] >= f[y]
<1> DEFINE V == {f[x] : x \in S}
           ahead == [v \in V |-> {y \in V : y <= v}]
           place == [v \in V |-> Cardinality(ahead[v])]
<1>1. V \in SUBSET Nat /\ V # {} /\ IsFiniteSet(V)
  BY ImageIsFinite
<1> HIDE DEF V
<1>2. /\ ahead \in [V -> SUBSET V] /\ \A x \in V : x \in ahead[x]
      /\ \A x, y \in V : ahead[x] \subseteq ahead[y] \/ ahead[y] \subseteq ahead[x]
      /\ \A x, y \in V : ahead[x] = ahead[y] => x = y
  <2>1. \A x \in V : ahead[x] = {y \in V : y <= x} /\ x \in Int
    BY <1>1
  <2>2. ahead \in [V -> SUBSET V]
    OBVIOUS
  <2> HIDE DEF ahead
  <2>3. ASSUME NEW x \in V, NEW y \in V
        PROVE  /\ x \in ahead[x]
               /\ ahead[x] \subseteq ahead[y] \/ ahead[y] \subseteq ahead[x]
               /\ ahead[x] = ahead[y] => x = y
    <3>1. x <= y => ahead[x] \subseteq ahead[y]
      BY <2>1
    <3>2. y <= x => ahead[y] \subseteq ahead[x]
      BY <2>1
    <3>3. x \in ahead[x] /\ y \in ahead[y]
      BY <2>1
    <3>4. ahead[x] = ahead[y] => x <= y /\ y <= x
      BY <2>1, <3>3
    <3> QED
      BY <2>1, <3>1, <3>2, <3>3, <3>4
  <2> QED
    BY <2>2, <2>3
<1>3. Cardinality(V) \in Nat /\ Cardinality(V) # 0
  BY <1>1, FS_CardinalityType, FS_EmptySet
<1>4. \A p \in 1..Cardinality(V) : \E v \in V : place[v] = p
  <2>1. place = [v \in V |-> Cardinality(ahead[v])]
    OBVIOUS
  <2> HIDE DEF place, ahead
  <2> QED
    BY <1>1, <1>2, <2>1, RankedIs
<1>5. PICK v \in V : place[v] = Cardinality(V)
  BY <1>3, <1>4
<1>6. ahead[v] = V
  <2>1. ahead[v] \in SUBSET V /\ Cardinality(V) = Cardinality(ahead[v])
    BY <1>5
  <2> HIDE DEF ahead, place
  <2> QED
    BY <1>1, <2>1, FS_Subset
<1>7. \A y \in V : y <= v /\ y \in Int /\ v \in Int
  BY <1>1, <1>6
<1> HIDE DEF ahead, place
<1> QED
  BY <1>7 DEF V

(* An index whose words have pages and lines.                                 *)
Indexed(T) == IsList(T) /\ \A x \in Range(T) : x.page \in Nat /\ x.line \in Nat

(* Where a value is found it stands, and not in a page marker.                *)
LEMMA HitIs ==
    ASSUME NEW T, IsList(T), NEW v, IsList(v), NEW i \in find_all(T, v)
    PROVE  i \in DOMAIN T /\ ~T[i].marker /\ v # <<>>
<1>1. DOMAIN v = 1..Len(v) /\ Len(v) \in Nat /\ DOMAIN T = 1..Len(T) /\ Len(T) \in Nat
  BY ListIsFinite
<1>2. i \in DOMAIN T /\ Len(v) > 0 /\ \A k \in i..(i + Len(v) - 1) : ~T[k].marker
  BY DEF find_all, Starts
<1>3. i \in i..(i + Len(v) - 1)
  BY <1>1, <1>2
<1> QED
  BY <1>2, <1>3

(* What find cites is one of the places a value is found at, and one on the   *)
(* row's own line if there is one.                                            *)
LEMMA FindIs ==
    ASSUME NEW T, IsList(T), NEW v, IsList(v), NEW labels, NEW same,
           same = None \/ same \in DOMAIN T, NEW after
    PROVE  /\ find_all(T, v) = {} => find(T, v, labels, same, after) = None
           /\ find_all(T, v) # {} => \E i \in find_all(T, v) :
                /\ find(T, v, labels, same, after) = span(T, i)
                /\ (same # None /\ \E c \in find_all(T, v) : T[c].row = T[same].row) =>
                        T[i].row = T[same].row
<1> DEFINE all == find_all(T, v)
           on == IF same = None THEN {} ELSE {c \in all : T[c].row = T[same].row}
           cands == IF on # {} THEN on ELSE all
           anchors == LabelStarts(T, labels)
           later == {c \in cands : after # None /\ c > after}
           far == Best(cands, LAMBDA c : Distance(same, c))
           label == Best(cands, LAMBDA c : AfterLabel(anchors, c))
           choice == IF same # None /\ on = {} THEN far
                     ELSE IF anchors # {} THEN label
                     ELSE IF later # {} THEN Min(later)
                     ELSE Min(cands)
<1>1. find(T, v, labels, same, after) = IF all = {} THEN None ELSE span(T, choice)
  BY DEF find
<1>2. DOMAIN T \in SUBSET Nat
  <2>1. DOMAIN T = 1..Len(T) /\ Len(T) \in Nat
    BY ListIsFinite
  <2> QED
    BY <2>1
<1>3. all \subseteq DOMAIN T
  BY HitIs
<1> HIDE DEF all
<1>4. cands \subseteq all /\ (all # {} => cands # {}) /\ cands \in SUBSET Nat
  BY <1>2, <1>3
<1>5. anchors \in SUBSET Nat
  <2>1. \A w : find_all(T, w) \subseteq Nat
    BY <1>2 DEF find_all, Starts
  <2> QED
    BY <2>1 DEF LabelStarts
<1> HIDE DEF anchors, cands
<1>6. ASSUME cands # {}, same # None PROVE far \in cands
  <2> DEFINE f == [c \in cands |-> Distance(same, c)]
  <2>1. \A c \in cands : f[c] = Distance(same, c) /\ f[c] \in Nat
    <3>1. same \in Nat
      BY <1>2, <1>6
    <3>2. \A c \in cands : Distance(same, c) \in Nat
      BY <1>4, <3>1 DEF Distance
    <3> QED
      BY <3>2
  <2> HIDE DEF f
  <2>2. \E c \in cands : \A d \in cands : f[c] < f[d] \/ (f[c] = f[d] /\ c <= d)
    BY <1>4, <1>6, <2>1, LeastCost
  <2>3. \E c \in cands : \A d \in cands : \/ Distance(same, c) < Distance(same, d)
                                          \/ (Distance(same, c) = Distance(same, d) /\ c <= d)
    BY <2>1, <2>2
  <2>4. far = CHOOSE c \in cands : \A d \in cands : \/ Distance(same, c) < Distance(same, d)
                                      \/ (Distance(same, c) = Distance(same, d) /\ c <= d)
    BY DEF Best
  <2> HIDE DEF far
  <2> QED
    BY <2>3, <2>4
<1>7. ASSUME cands # {}, anchors # {} PROVE label \in cands
  <2> DEFINE f == [c \in cands |-> AfterLabel(anchors, c)]
  <2>1. \A c \in cands : f[c] = AfterLabel(anchors, c) /\ f[c] \in Nat
    <3>1. ASSUME NEW c \in cands PROVE AfterLabel(anchors, c) \in Nat
      <4> DEFINE D == {IF c >= a THEN c - a ELSE (a - c) + FAR : a \in anchors}
      <4>1. c \in Nat /\ FAR \in Nat
        BY <1>4 DEF FAR
      <4>2. D \in SUBSET Nat /\ D # {}
        <5> DEFINE g(a) == IF c >= a THEN c - a ELSE (a - c) + FAR
        <5>1. \A a \in anchors : a \in Nat
          BY <1>5
        <5>2. \A a \in anchors : g(a) \in Nat
          BY <4>1, <5>1
        <5>3. D = {g(a) : a \in anchors}
          OBVIOUS
        <5> HIDE DEF g, D
        <5> QED
          BY <1>7, <5>2, <5>3
      <4>3. AfterLabel(anchors, c) = Min(D)
        BY DEF AfterLabel
      <4> HIDE DEF D
      <4> QED
        BY <4>2, <4>3, MinIs
    <3> QED
      BY <3>1
  <2> HIDE DEF f
  <2>2. \E c \in cands : \A d \in cands : f[c] < f[d] \/ (f[c] = f[d] /\ c <= d)
    BY <1>4, <1>7, <2>1, LeastCost
  <2>3. \E c \in cands : \A d \in cands :
            \/ AfterLabel(anchors, c) < AfterLabel(anchors, d)
            \/ (AfterLabel(anchors, c) = AfterLabel(anchors, d) /\ c <= d)
    BY <2>1, <2>2
  <2>4. label = CHOOSE c \in cands : \A d \in cands :
            \/ AfterLabel(anchors, c) < AfterLabel(anchors, d)
            \/ (AfterLabel(anchors, c) = AfterLabel(anchors, d) /\ c <= d)
    BY DEF Best
  <2> HIDE DEF label
  <2> QED
    BY <2>3, <2>4
<1>8. later # {} => Min(later) \in cands
  <2>1. later \subseteq cands
    OBVIOUS
  <2> HIDE DEF later
  <2> QED
    BY <1>4, <2>1, MinIs
<1>9. cands # {} => Min(cands) \in cands
  BY <1>4, MinIs
<1> HIDE DEF far, label, later
<1>10. all # {} => choice \in cands
  BY <1>4, <1>6, <1>7, <1>8, <1>9
<1> HIDE DEF choice
<1>11. choice \in cands /\ same # None /\ (\E c \in all : T[c].row = T[same].row) =>
            T[choice].row = T[same].row
  BY DEF cands
<1> QED
  BY <1>1, <1>4, <1>10, <1>11 DEF all

(* A place of the index, as it is cited, is a place.                          *)
LEMMA SpanIs ==
    ASSUME NEW T, Indexed(T), NEW i \in DOMAIN T, NEW approx \in BOOLEAN
    PROVE  /\ [page |-> T[i].page, line |-> T[i].line, start |-> _utf16(T, i),
               approx |-> approx] # None
           /\ code_point(T, _utf16(T, i)) = i
<1>1. T[i].page \in Nat /\ T[i].line \in Nat
  BY DEF Indexed, Range
<1>2. _utf16(T, i) \in Nat /\ code_point(T, _utf16(T, i)) = i
  BY OffsetBack DEF Indexed
<1> QED
  BY <1>1, <1>2, PlaceAssumption

(* A citation of a value: its place, exactly or of a number of it.            *)
Cites(T, v, s) ==
    \E i \in DOMAIN T :
        /\ ~T[i].marker /\ s.approx \in BOOLEAN
        /\ s = [page |-> T[i].page, line |-> T[i].line, start |-> _utf16(T, i),
                approx |-> s.approx]
        /\ IF s.approx THEN \E x \in protected_tokens(v) : i \in find_all(T, <<x>>)
           ELSE i \in find_all(T, v)

(* A value that is found is cited where it stands, and on the row's own line  *)
(* if it stands there; one that is not, on a number of it or not at all.      *)
LEMMA LocateIs ==
    ASSUME NEW T, Indexed(T), NEW v, IsValue(v), NEW labels, NEW same,
           same = None \/ same \in DOMAIN T
    PROVE  /\ locate(T, v, labels, same) # None => Cites(T, v, locate(T, v, labels, same))
           /\ has(T, v) => \E i \in find_all(T, v) :
                /\ locate(T, v, labels, same) = span(T, i)
                /\ (same # None /\ \E c \in find_all(T, v) : T[c].row = T[same].row) =>
                        T[i].row = T[same].row
<1> DEFINE exact == find(T, v, labels, same, None)
           found == {x \in protected_tokens(v) : has(T, <<x>>)}
           longest == CHOOSE x \in found : \A y \in found : Len(x.w) >= Len(y.w)
           near == find(T, <<longest>>, labels, same, None)
           rough == [page |-> near.page, line |-> near.line, start |-> near.start, approx |-> TRUE]
           s == locate(T, v, labels, same)
<1>1. s = IF v = <<>> THEN None
          ELSE IF exact # None THEN exact
          ELSE IF found = {} THEN None
          ELSE rough
  BY DEF locate
<1>2. IsList(T) /\ IsList(v)
  BY DEF Indexed, IsValue
<1>3. /\ find_all(T, v) = {} => exact = None
      /\ find_all(T, v) # {} => \E i \in find_all(T, v) :
            /\ exact = span(T, i)
            /\ (same # None /\ \E c \in find_all(T, v) : T[c].row = T[same].row) =>
                    T[i].row = T[same].row
  <2> DEFINE after == None
  <2> HIDE DEF after
  <2>1. /\ find_all(T, v) = {} => find(T, v, labels, same, after) = None
        /\ find_all(T, v) # {} => \E i \in find_all(T, v) :
            /\ find(T, v, labels, same, after) = span(T, i)
            /\ (same # None /\ \E c \in find_all(T, v) : T[c].row = T[same].row) =>
                    T[i].row = T[same].row
    BY <1>2, FindIs
  <2> QED
    BY <2>1 DEF after
<1>4. ASSUME NEW i \in DOMAIN T PROVE span(T, i) # None
  <2>1. FALSE \in BOOLEAN
    OBVIOUS
  <2> QED
    BY <2>1, SpanIs DEF span
<1> HIDE DEF s, exact, found, near, rough
<1>5. CASE has(T, v)
  <2>1. PICK i \in find_all(T, v) :
            /\ exact = span(T, i)
            /\ (same # None /\ \E c \in find_all(T, v) : T[c].row = T[same].row) =>
                    T[i].row = T[same].row
    BY <1>3, <1>5 DEF has
  <2>2. i \in DOMAIN T /\ ~T[i].marker /\ v # <<>>
    BY <1>2, HitIs
  <2>3. exact # None
    BY <1>4, <2>1, <2>2
  <2>4. s = span(T, i)
    BY <1>1, <2>1, <2>2, <2>3
  <2>5. Cites(T, v, s)
    BY <2>2, <2>4 DEF Cites, span
  <2> QED
    BY <2>1, <2>4, <2>5 DEF s
<1>6. CASE ~has(T, v)
  <2>1. s = None \/ (found # {} /\ s = rough)
    BY <1>1, <1>3, <1>6 DEF has
  <2>2. ASSUME found # {}, s = rough PROVE Cites(T, v, s)
    <3> DEFINE f == [x \in found |-> Len(x.w)]
    <3>1. \A x \in found : x \in Range(v) /\ Len(x.w) \in Nat /\ has(T, <<x>>)
      BY DEF found, protected_tokens, IsValue
    <3>2. IsFiniteSet(found)
      <4>1. IsFiniteSet(Range(v)) /\ found \in SUBSET Range(v)
        BY <1>2, <3>1, ListIsFinite
      <4> QED
        BY <4>1, FS_Subset
    <3>3. f = [x \in found |-> f[x]] /\ \A x \in found : f[x] = Len(x.w) /\ f[x] \in Nat
      BY <3>1
    <3> HIDE DEF f
    <3>4. \E x \in found : \A y \in found : f[x] >= f[y]
      BY <2>2, <3>2, <3>3, GreatestSize
    <3>5. \E x \in found : \A y \in found : Len(x.w) >= Len(y.w)
      BY <3>3, <3>4
    <3>6. longest \in found
      BY <3>5
    <3> HIDE DEF longest
    <3>7. IsList(<<longest>>)
      <4>1. <<longest>> \in Seq({longest})
        OBVIOUS
      <4> QED
        BY <4>1, SeqIsList
    <3>8. find_all(T, <<longest>>) # {}
      BY <3>1, <3>6 DEF has
    <3> DEFINE w == <<longest>>
    <3> HIDE DEF w
    <3>9. \E i \in find_all(T, w) : near = span(T, i)
      BY <1>2, <3>7, <3>8, FindIs DEF near, w
    <3>10. PICK i \in find_all(T, w) : near = span(T, i)
      BY <3>9
    <3>11. i \in DOMAIN T /\ ~T[i].marker
      BY <1>2, <3>7, HitIs DEF w
    <3>12. s = [page |-> T[i].page, line |-> T[i].line, start |-> _utf16(T, i), approx |-> TRUE]
      BY <2>2, <3>10 DEF rough, span
    <3>13. s.approx = TRUE
      BY <3>12
    <3>14. longest \in protected_tokens(v) /\ i \in find_all(T, <<longest>>)
      BY <3>6 DEF found, w
    <3> QED
      BY <3>11, <3>12, <3>13, <3>14 DEF Cites
  <2> QED
    BY <1>6, <2>1, <2>2 DEF s
<1> QED
  BY <1>5, <1>6

(* A line of a text has a page and a number on it.                            *)
LEMMA PlaceIs ==
    ASSUME NEW t \in DOMAIN DOCS, NEW i \in DOMAIN Lines(t)
    PROVE  PageLine(Lines(t), i).page \in Nat /\ PageLine(Lines(t), i).line \in Nat
<1> DEFINE lines == Lines(t)
           markers == {m \in 1..i : IsMarker(lines[m])}
           last == Max(markers)
<1>1. DOMAIN lines = 1..Len(lines) /\ Len(lines) \in Nat
  BY TextAssumption, ListIsFinite DEF Lines
<1>2. i \in Nat /\ i \in DOMAIN lines
  BY <1>1
<1>3. markers # {} => last \in markers
  <2>1. markers \in SUBSET (0..i)
    BY <1>2
  <2> HIDE DEF markers
  <2> QED
    BY <1>2, <2>1, MaxIs
<1>4. CASE markers = {}
  <2>1. PageLine(lines, i) = [page |-> 1, line |-> i]
    BY <1>4 DEF PageLine
  <2> QED
    BY <1>2, <2>1
<1>5. CASE markers # {}
  <2>1. last \in 1..i /\ last \in DOMAIN lines
    BY <1>1, <1>2, <1>3, <1>5
  <2> DEFINE p == lines[last].page
             n == i - last
  <2>2. p \in Nat
    <3>1. lines[last] \in Range(DOCS[t])
      BY <2>1 DEF Range, Lines
    <3> HIDE DEF last
    <3> QED
      BY <3>1, TextAssumption
  <2>3. n \in Nat
    <3> HIDE DEF last
    <3> QED
      BY <1>2, <2>1
  <2>4. PageLine(lines, i) = [page |-> p, line |-> n]
    BY <1>5 DEF PageLine
  <2> HIDE DEF p, n
  <2> QED
    BY <2>2, <2>3, <2>4
<1> QED
  BY <1>4, <1>5

(* The index of a text has pages, lines and rows of it.                       *)
LEMMA IndexIs ==
    ASSUME NEW t \in DOMAIN DOCS
    PROVE  /\ Indexed(Locator(Lines(t)))
           /\ \A x \in Range(Locator(Lines(t))) : x.row \in DOMAIN Lines(t)
<1> DEFINE lines == Lines(t)
           T == Locator(lines)
<1>1. IsList(T) /\ \A x \in Range(T) : Stands(x, lines)
  BY LocatorIs
<1>2. ASSUME NEW x \in Range(T) PROVE x.page \in Nat /\ x.line \in Nat /\ x.row \in DOMAIN lines
  <2>1. PICK i \in DOMAIN lines : \E j \in DOMAIN Words(lines[i]) :
                x = PrintedAt(lines, i, Words(lines[i])[j])
    BY <1>1 DEF Stands
  <2>2. x.row = i /\ x.page = PageLine(lines, i).page /\ x.line = PageLine(lines, i).line
    BY <2>1 DEF PrintedAt
  <2> QED
    BY <2>2, PlaceIs
<1> QED
  BY <1>1, <1>2 DEF Indexed

(* A value has a size.                                                        *)
LEMMA SizeIs ==
    ASSUME NEW v, IsValue(v) PROVE Size(v) \in Nat
<1> DEFINE f == [i \in DOMAIN v |-> {i} \X (1..Len(v[i].w))]
           P == {f[i] : i \in DOMAIN v}
<1>1. IsFiniteSet(DOMAIN v)
  BY ListHasFew DEF IsValue
<1>2. ASSUME NEW i \in DOMAIN v PROVE IsFiniteSet({i} \X (1..Len(v[i].w)))
  <2>1. IsFiniteSet({i})
    BY FS_Singleton
  <2>2. v[i] \in Range(v)
    BY DEF Range
  <2>3. Len(v[i].w) \in Int /\ 1 \in Int
    BY <2>2 DEF IsValue
  <2>4. IsFiniteSet(1..Len(v[i].w))
    BY <2>3, FS_Interval
  <2> QED
    BY <2>1, <2>4, FS_Product
<1>3. IsFiniteSet(P)
  <2>1. f = [i \in DOMAIN v |-> f[i]]
    OBVIOUS
  <2> HIDE DEF f
  <2> QED
    BY <1>1, <2>1, ImageIsFinite
<1>4. \A x \in P : IsFiniteSet(x)
  BY <1>2
<1>5. Size(v) = Cardinality(UNION P)
  <2>1. P = {{i} \X (1..Len(v[i].w)) : i \in DOMAIN v}
    OBVIOUS
  <2> QED
    BY <2>1 DEF Size
<1> HIDE DEF P
<1> QED
  BY <1>3, <1>4, <1>5, FS_UNION, FS_CardinalityType

(* A value restored has as many words.                                        *)
LEMMA RestoredIs ==
    ASSUME NEW T, NEW value, IsList(value)
    PROVE  /\ IsList(restore(T, value)) /\ DOMAIN restore(T, value) = DOMAIN value
           /\ \A i \in DOMAIN value : restore(T, value)[i].w = value[i].w
           /\ restore(T, value) = <<>> <=> value = <<>>
<1> DEFINE r == restore(T, value)
<1>1. r = [i \in DOMAIN value |-> IF value[i].form = "" THEN value[i]
                                  ELSE IF FormIn(T, value[i].w) = None THEN value[i]
                                  ELSE Number(value[i].w, FormIn(T, value[i].w))]
  BY DEF restore, map_tokens
<1> HIDE DEF r
<1>2. IsList(r) /\ DOMAIN r = DOMAIN value /\ Len(r) = Len(value)
  <2>1. r = [i \in DOMAIN value |-> r[i]]
    BY <1>1
  <2> QED
    BY <2>1, MapIsList
<1>3. ASSUME NEW i \in DOMAIN value PROVE r[i].w = value[i].w
  <2> DEFINE x == value[i]
             y == Number(x.w, FormIn(T, x.w))
  <2>1. r[i] = IF x.form = "" THEN x ELSE IF FormIn(T, x.w) = None THEN x ELSE y
    BY <1>1
  <2>2. y.w = x.w
    BY DEF Number
  <2> HIDE DEF x, y
  <2>3. r[i].w = x.w
    BY <2>1, <2>2
  <2> QED
    BY <2>3 DEF x, y
<1>4. r = <<>> <=> value = <<>>
  <2>1. DOMAIN r = 1..Len(r) /\ Len(r) \in Nat /\ DOMAIN value = 1..Len(value)
    BY <1>2, ListIsFinite
  <2>2. r \in Seq(Range(r)) /\ value \in Seq(Range(value))
    BY <1>2 DEF IsList
  <2>3. (r = <<>> <=> Len(r) = 0) /\ (value = <<>> <=> Len(value) = 0)
    <3> DEFINE A == Range(r)
               B == Range(value)
    <3>1. r \in Seq(A) /\ value \in Seq(B)
      BY <2>2
    <3> HIDE DEF A, B
    <3> QED
      BY <3>1
  <2> QED
    BY <1>2, <2>3
<1> QED
  BY <1>2, <1>3, <1>4 DEF r

(* A number is restored in the form the text has for it, if any.              *)
LEMMA RestoredWord ==
    ASSUME NEW value
    PROVE  \A i \in DOMAIN value :
           /\ value[i].form = "" => restore(fid, value)[i] = value[i]
           /\ (value[i].form # "" /\ FormIn(fid, value[i].w) # None) =>
                    restore(fid, value)[i] = Number(value[i].w, FormIn(fid, value[i].w))
<1> TAKE i \in DOMAIN value
<1> DEFINE r == restore(fid, value)
           x == value[i]
           y == Number(x.w, FormIn(fid, x.w))
<1>1. r[i] = IF x.form = "" THEN x ELSE IF FormIn(fid, x.w) = None THEN x ELSE y
  BY DEF restore, map_tokens
<1> HIDE DEF r, x, y
<1>2. /\ x.form = "" => r[i] = x
      /\ (x.form # "" /\ FormIn(fid, x.w) # None) => r[i] = y
  BY <1>1
<1> QED
  BY <1>2 DEF r, x, y

(* A value restored is words.                                                 *)
LEMMA RestoredValue ==
    ASSUME NEW T, NEW value, IsValue(value)
    PROVE  IsValue(restore(T, value))
<1> DEFINE r == restore(T, value)
<1>1. r = [i \in DOMAIN value |-> IF value[i].form = "" THEN value[i]
                                  ELSE IF FormIn(T, value[i].w) = None THEN value[i]
                                  ELSE Number(value[i].w, FormIn(T, value[i].w))]
  BY DEF restore, map_tokens
<1>2. IsList(r) /\ DOMAIN r = DOMAIN value
  BY RestoredIs DEF IsValue
<1> HIDE DEF r
<1>3. ASSUME NEW i \in DOMAIN value PROVE r[i] = Number(r[i].w, r[i].form) /\ Len(r[i].w) \in Nat
  <2> DEFINE x == value[i]
             y == Number(x.w, FormIn(T, x.w))
  <2>1. r[i] = x \/ r[i] = y
    <3>1. r[i] = IF x.form = "" THEN x ELSE IF FormIn(T, x.w) = None THEN x ELSE y
      BY <1>1
    <3> HIDE DEF x, y
    <3> QED
      BY <3>1
  <2>2. x = Number(x.w, x.form) /\ Len(x.w) \in Nat
    BY DEF IsValue, Range
  <2>3. y.w = x.w /\ y = Number(y.w, y.form)
    BY DEF Number
  <2> HIDE DEF x, y
  <2> QED
    BY <2>1, <2>2, <2>3
<1>4. ASSUME NEW x \in Range(r) PROVE x = Number(x.w, x.form) /\ Len(x.w) \in Nat
  BY <1>2, <1>3 DEF Range
<1>5. IsValue(r)
  BY <1>2, <1>4 DEF IsValue
<1> QED
  BY <1>5 DEF r

(* A row is cited after a word of it that is found, if one is.                *)
LEMMA AnchorIs ==
    ASSUME Indexed(fid), NEW row, IsFiniteSet(DOMAIN row), \A k \in DOMAIN row : IsValue(row[k]),
           NEW after, NEW s, s = Anchor_of(row, after)
    PROVE  \/ /\ s = None
              /\ \A k \in DOMAIN row : row[k] # Empty => ~has(fid, restore(fid, row[k]))
           \/ /\ s \in DOMAIN fid
              /\ \E k \in DOMAIN row : row[k] # Empty /\ s \in find_all(fid, restore(fid, row[k]))
<1> DEFINE at(k) == find(fid, restore(fid, row[k]), {}, None, after)
           found == {k \in DOMAIN row : row[k] # Empty /\ at(k) # None}
           longest == CHOOSE k \in found : \A o \in found : Size(row[k]) >= Size(row[o])
<1>1. s = IF found = {} THEN None ELSE code_point(fid, at(longest).start)
  BY DEF Anchor_of
<1>2. ASSUME NEW k \in DOMAIN row
      PROVE  /\ ~has(fid, restore(fid, row[k])) => at(k) = None
             /\ has(fid, restore(fid, row[k])) =>
                    \E i \in find_all(fid, restore(fid, row[k])) :
                        i \in DOMAIN fid /\ at(k) = span(fid, i) /\ at(k) # None
  <2> DEFINE v == restore(fid, row[k])
             none == {}
             same == None
  <2>1. IsList(v) /\ IsList(fid)
    BY RestoredIs DEF IsValue, Indexed
  <2> HIDE DEF v, none, same
  <2>2. /\ find_all(fid, v) = {} => find(fid, v, none, same, after) = None
        /\ find_all(fid, v) # {} => \E i \in find_all(fid, v) :
                find(fid, v, none, same, after) = span(fid, i)
    BY <2>1, FindIs DEF same
  <2>3. ASSUME NEW i \in find_all(fid, v) PROVE i \in DOMAIN fid /\ span(fid, i) # None
    <3>1. i \in DOMAIN fid
      BY <2>1, HitIs
    <3>2. FALSE \in BOOLEAN
      OBVIOUS
    <3> QED
      BY <3>1, <3>2, SpanIs DEF span
  <2>4. at(k) = find(fid, v, none, same, after)
    BY DEF v, none, same
  <2> HIDE DEF at
  <2>5. /\ find_all(fid, v) = {} => at(k) = None
        /\ find_all(fid, v) # {} => \E i \in find_all(fid, v) :
                i \in DOMAIN fid /\ at(k) = span(fid, i) /\ at(k) # None
    BY <2>2, <2>3, <2>4
  <2> QED
    BY <2>5 DEF has, v
<1> HIDE DEF at
<1>3. CASE found = {}
  <2>1. \A k \in DOMAIN row : row[k] # Empty => at(k) = None
    BY <1>3
  <2>2. \A k \in DOMAIN row : row[k] # Empty => ~has(fid, restore(fid, row[k]))
    BY <1>2, <2>1
  <2> QED
    BY <1>1, <1>3, <2>2
<1>4. CASE found # {}
  <2> DEFINE f == [k \in found |-> Size(row[k])]
  <2>1. \A k \in found : k \in DOMAIN row /\ row[k] # Empty /\ at(k) # None
    OBVIOUS
  <2>2. IsFiniteSet(found)
    <3>1. found \in SUBSET DOMAIN row
      OBVIOUS
    <3> HIDE DEF found
    <3> QED
      BY <3>1, FS_Subset
  <2> HIDE DEF found
  <2>3. f = [k \in found |-> f[k]] /\ \A k \in found : f[k] = Size(row[k]) /\ f[k] \in Nat
    BY <2>1, SizeIs
  <2> HIDE DEF f
  <2>4. \E k \in found : \A o \in found : f[k] >= f[o]
    BY <1>4, <2>2, <2>3, GreatestSize
  <2>5. \E k \in found : \A o \in found : Size(row[k]) >= Size(row[o])
    BY <2>3, <2>4
  <2>6. longest \in found
    BY <2>5
  <2>7. s = code_point(fid, at(longest).start)
    BY <1>1, <1>4
  <2> HIDE DEF longest
  <2>8. PICK i \in find_all(fid, restore(fid, row[longest])) :
            i \in DOMAIN fid /\ at(longest) = span(fid, i)
    BY <1>2, <2>1, <2>6
  <2>9. at(longest).start = _utf16(fid, i)
    BY <2>8 DEF span
  <2>10. s = i
    BY <2>7, <2>8, <2>9, OffsetBack DEF Indexed
  <2> QED
    BY <2>1, <2>6, <2>8, <2>10
<1> QED
  BY <1>3, <1>4

(* What is cited where it is located leads back to the page.                  *)
LEMMA CitedIs ==
    ASSUME Indexed(fid), NEW c, IsValue(c.value), NEW labels, NEW same,
           same = None \/ same \in DOMAIN fid,
           c.source = locate(fid, c.value, labels, same), c.status = "ok" => has(fid, c.value)
    PROVE  Cited(c)
<1> DEFINE v == c.value
           s == locate(fid, v, labels, same)
<1>1. /\ s # None => Cites(fid, v, s)
      /\ has(fid, v) => \E i \in find_all(fid, v) : s = span(fid, i)
  BY LocateIs
<1> HIDE DEF s
<1>2. c.source = s
  BY DEF s
<1>3. ASSUME c.status = "ok" PROVE s # None /\ ~s.approx
  <2>1. PICK i \in find_all(fid, v) : s = span(fid, i)
    BY <1>1, <1>3
  <2>2. i \in DOMAIN fid
    BY HitIs DEF Indexed, IsValue
  <2>3. span(fid, i) # None
    BY <2>2, SpanIs DEF span
  <2> QED
    BY <2>1, <2>3 DEF span
<1>4. ASSUME s # None
      PROVE  LET i == code_point(fid, s.start)
             IN /\ i \in DOMAIN fid /\ ~fid[i].marker
                /\ s.page = fid[i].page /\ s.line = fid[i].line
                /\ IF s.approx THEN \E x \in protected_tokens(v) : i \in find_all(fid, <<x>>)
                   ELSE i \in find_all(fid, v)
  <2>1. PICK i \in DOMAIN fid :
            /\ ~fid[i].marker /\ s.approx \in BOOLEAN
            /\ s = [page |-> fid[i].page, line |-> fid[i].line, start |-> _utf16(fid, i),
                    approx |-> s.approx]
            /\ IF s.approx THEN \E x \in protected_tokens(v) : i \in find_all(fid, <<x>>)
               ELSE i \in find_all(fid, v)
    BY <1>1, <1>4 DEF Cites
  <2>2. s.page = fid[i].page /\ s.line = fid[i].line /\ s.start = _utf16(fid, i)
    BY <2>1
  <2>3. code_point(fid, s.start) = i
    BY <2>2, OffsetBack DEF Indexed
  <2> QED
    BY <2>1, <2>2, <2>3
<1> QED
  BY <1>2, <1>3, <1>4 DEF Cited

-----------------------------------------------------------------------------
(* What a result states.                                                      *)

(* A cell that is "ok" is a claim about the page.                             *)
Honest(c) ==
    c.status = "ok" =>
        /\ has(fid, c.value)
        /\ \A x \in protected_tokens(c.value) : InText(x)
        /\ \A x \in Range(c.value) : \E y \in Range(fid) :
            ~y.marker /\ (y.w = x.w \/ <<x.w, y.w>> \in Inside)

(* A cell made of a field and a value.                                        *)
MadeOf(c, f, value) ==
    c.key = f.key /\ c.value = restore(fid, value) /\ Honest(c) /\ Cited(c)

(* A number the text has a form for is printed in that form.                  *)
LEMMA FormIsPrinted ==
    ASSUME text \in DOMAIN DOCS, fid = Locator(Lines(text)), NEW w, FormIn(fid, w) # None
    PROVE  InText(Number(w, FormIn(fid, w)))
<1> DEFINE at == {i \in DOMAIN fid : fid[i].w = w /\ fid[i].form # ""}
           m == Min(at)
           y == fid[m]
           lines == Lines(text)
<1>1. IsList(fid) /\ \A x \in Range(fid) : Stands(x, lines)
  BY LocatorIs
<1>2. at # {} /\ FormIn(fid, w) = y.form
  BY DEF FormIn
<1>3. m \in DOMAIN fid /\ y.w = w /\ y.form # ""
  <2>1. DOMAIN fid = 1..Len(fid) /\ Len(fid) \in Nat
    BY <1>1, ListIsFinite
  <2>2. at \in SUBSET Nat
    <3>1. at \subseteq DOMAIN fid
      OBVIOUS
    <3>2. DOMAIN fid \subseteq Nat
      BY <2>1
    <3> HIDE DEF at
    <3> QED
      BY <3>1, <3>2
  <2>3. Min(at) \in at
    <3> HIDE DEF at
    <3> QED
      BY <1>2, <2>2, MinIs
  <2> QED
    BY <2>3
<1> HIDE DEF m, at
<1>4. Stands(y, lines)
  BY <1>1, <1>3 DEF Range
<1> HIDE DEF y
<1>5. PICK i \in DOMAIN lines : \E j \in DOMAIN Words(lines[i]) :
            y = PrintedAt(lines, i, Words(lines[i])[j])
  BY <1>4 DEF Stands
<1>6. PICK j \in DOMAIN Words(lines[i]) : y = PrintedAt(lines, i, Words(lines[i])[j])
  BY <1>5
<1> DEFINE x == Words(lines[i])[j]
<1>7. x.w = w /\ x.form = y.form
  BY <1>3, <1>6 DEF PrintedAt
<1>8. x \in Range(Words(lines[i]))
  BY DEF Range
<1>9. /\ IsWords(Words(lines[i]))
      /\ IsMarker(lines[i]) => \A z \in Range(Words(lines[i])) : z.form = ""
  <2>1. lines[i] \in Range(DOCS[text])
    BY DEF Lines, Range
  <2> QED
    BY <2>1, TextAssumption, WordsAre, ValueIsWords
<1>10. ~IsMarker(lines[i]) /\ x = Number(x.w, x.form)
  BY <1>3, <1>7, <1>8, <1>9 DEF IsWords
<1> HIDE DEF x
<1>11. x = Number(w, FormIn(fid, w))
  BY <1>2, <1>7, <1>10
<1> QED
  BY <1>8, <1>10, <1>11 DEF InText, lines

(* What find_all finds stands on the page, outside the markers, word by word. *)
LEMMA FoundStands ==
    ASSUME IsList(fid), NEW v, IsList(v), has(fid, v), NEW x \in Range(v)
    PROVE  \E y \in Range(fid) : ~y.marker /\ (y.w = x.w \/ <<x.w, y.w>> \in Inside)
<1>1. /\ DOMAIN fid = 1..Len(fid) /\ Len(fid) \in Nat
      /\ DOMAIN v = 1..Len(v) /\ Len(v) \in Nat
  BY ListIsFinite
<1>2. PICK i \in Starts(fid, v) : \A k \in i..(i + Len(v) - 1) : ~fid[k].marker
  BY DEF has, find_all
<1>3. /\ i \in DOMAIN fid /\ i + Len(v) - 1 <= Len(fid)
      /\ \A k \in DOMAIN v : \/ fid[i + k - 1].w = v[k].w
                             \/ <<v[k].w, fid[i + k - 1].w>> \in Inside
  BY DEF Starts
<1>4. PICK k \in DOMAIN v : x = v[k]
  BY DEF Range
<1>5. i + k - 1 \in DOMAIN fid /\ i + k - 1 \in i..(i + Len(v) - 1)
  BY <1>1, <1>3
<1> DEFINE y == fid[i + k - 1]
<1>6. y \in Range(fid) /\ ~y.marker
  BY <1>2, <1>5 DEF Range
<1>7. y.w = x.w \/ <<x.w, y.w>> \in Inside
  BY <1>3, <1>4
<1> HIDE DEF y
<1> QED
  BY <1>6, <1>7

(* What is made of a value that is words is honest about it.                  *)
LEMMA MadeIs ==
    ASSUME text \in DOMAIN DOCS, fid = Locator(Lines(text)),
           NEW f, NEW value, IsValue(value), NEW origin, NEW same,
           same = None \/ same \in DOMAIN fid
    PROVE  MadeOf(make(f, value, origin, same), f, value)
<1> DEFINE c == make(f, value, origin, same)
           r == restore(fid, value)
           shown == IF value = Empty THEN None ELSE r[1]
           valid == Field_validate(f, shown, reg.types)
           verified == check(fid, value).verified
<1>1. /\ c.key = f.key /\ c.value = r
      /\ c.status = IF valid = "ok" /\ ~verified THEN "unverified" ELSE valid
      /\ c.source = locate(fid, r, {f.label} \cup f.aliases \cup f.shared, same)
  BY DEF make, check
<1>2. Indexed(fid) /\ IsList(fid)
  BY IndexIs DEF Indexed
<1>3. IsList(value) /\ IsList(r) /\ DOMAIN r = DOMAIN value
  BY RestoredIs DEF IsValue
<1>4. ASSUME c.status = "ok"
      PROVE  /\ has(fid, r)
             /\ \A x \in protected_tokens(r) : InText(x)
             /\ \A x \in Range(r) : \E y \in Range(fid) :
                    ~y.marker /\ (y.w = x.w \/ <<x.w, y.w>> \in Inside)
  <2>1. valid = "ok" /\ verified
    <3> HIDE DEF c, valid, verified
    <3> QED
      BY <1>1, <1>4
  <2>2. value # Empty
    <3> SUFFICES ASSUME value = Empty PROVE FALSE
      OBVIOUS
    <3>1. valid = Field_validate(f, None, reg.types)
      OBVIOUS
    <3>2. Field_validate(f, None, reg.types) = "empty"
      BY DEF Field_validate
    <3> HIDE DEF valid
    <3> QED
      BY <2>1, <3>1, <3>2
  <2>3. ~Missing(fid, value) /\ has(fid, r)
    <3>1. verified = (value = <<>> \/ (~Missing(fid, value) /\ has(fid, r)))
      BY DEF check
    <3> QED
      BY <2>1, <2>2, <3>1 DEF Empty
  <2>4. ASSUME NEW x \in Range(r), x.form # "" PROVE InText(x)
    <3>1. PICK k \in DOMAIN value : x = r[k]
      BY <1>3 DEF Range
    <3>0. k \in DOMAIN value
      OBVIOUS
    <3> DEFINE z == value[k]
    <3>2. /\ z.form = "" => r[k] = z
          /\ (z.form # "" /\ FormIn(fid, z.w) # None) => r[k] = Number(z.w, FormIn(fid, z.w))
      BY <3>0, RestoredWord
    <3> HIDE DEF r
    <3>3. z \in Range(value)
      BY DEF Range
    <3> HIDE DEF z
    <3>4. z.form # ""
      BY <2>4, <3>1, <3>2
    <3>5. FormIn(fid, z.w) # None
      BY <2>3, <3>3, <3>4 DEF Missing, protected_tokens
    <3> QED
      BY <3>1, <3>2, <3>4, <3>5, FormIsPrinted
  <2>5. \A x \in protected_tokens(r) : InText(x)
    BY <2>4 DEF protected_tokens
  <2> HIDE DEF r
  <2> QED
    BY <1>2, <1>3, <2>3, <2>5, FoundStands
<1>5. IsValue(r)
  BY RestoredValue
<1> DEFINE labels == {f.label} \cup f.aliases \cup f.shared
<1>6. c.value = r /\ c.source = locate(fid, r, labels, same)
  BY <1>1
<1> HIDE DEF c, r, labels
<1>7. Cited(c)
  BY <1>2, <1>4, <1>5, <1>6, CitedIs
<1> QED
  BY <1>1, <1>4, <1>7 DEF MadeOf, Honest, c, r

(* A request whose template has been filled in.                               *)
Ready ==
    /\ text \in DOMAIN DOCS /\ fid = Locator(Lines(text))
    /\ \E id \in Ids(reg) : tmpl = Get(reg, id)
    /\ placed \in Placements
    /\ \A k \in DOMAIN filled.values : filled.values[k] \in Vals

(* A field somebody found a value of.                                         *)
IsHeld(f) ==
    IF f.repeatable THEN ~Absent(f, placed.rows[f.section]) ELSE Value(f.key) # Empty

(* A cell of the answer is made of a field, and of a value only if one was    *)
(* found.                                                                     *)
States(c) ==
    \E f \in Range(Fields) : \E value :
        IsValue(value) /\ MadeOf(c, f, value) /\ (value # Empty => IsHeld(f))

(* What a template's field is called is its own.                              *)
LEMMA KeysAreOwn ==
    ASSUME \E id \in Ids(reg) : tmpl = Get(reg, id)
    PROVE  /\ IsList(tmpl.fields)
           /\ \A f, g \in Range(Fields) : f.key = g.key => f = g
<1>1. PICK id \in Ids(reg) : tmpl = Get(reg, id)
  OBVIOUS
<1>2. /\ IsList(tmpl.fields)
      /\ \A i, j \in DOMAIN tmpl.fields : tmpl.fields[i].key = tmpl.fields[j].key => i = j
  BY <1>1, TemplateIs
<1>3. Range(Fields) = Range(tmpl.fields)
  BY <1>2, FieldsAre
<1>4. ASSUME NEW f \in Range(Fields), NEW g \in Range(Fields), f.key = g.key PROVE f = g
  <2>1. PICK i \in DOMAIN tmpl.fields : f = tmpl.fields[i]
    BY <1>3 DEF Range
  <2>2. PICK j \in DOMAIN tmpl.fields : g = tmpl.fields[j]
    BY <1>3 DEF Range
  <2> QED
    BY <1>2, <1>4, <2>1, <2>2
<1> QED
  BY <1>2, <1>4

(* A cell made of a field states what was found.                              *)
LEMMA CellIsMade ==
    ASSUME Ready, NEW f \in Range(Fields), NEW value, IsValue(value), NEW origin, NEW same,
           same = None \/ same \in DOMAIN fid, value # Empty => IsHeld(f)
    PROVE  States(make(f, value, origin, same))
<1>1. MadeOf(make(f, value, origin, same), f, value)
  BY MadeIs DEF Ready
<1> DEFINE c == make(f, value, origin, same)
<1>2. MadeOf(c, f, value)
  BY <1>1
<1> HIDE DEF c
<1>3. States(c)
  BY <1>2 DEF States
<1> QED
  BY <1>3 DEF c

(* A made cell has the field's name, and a value if it was made of one.       *)
LEMMA CellShows ==
    ASSUME NEW f, NEW value, IsValue(value), NEW origin, NEW same
    PROVE  /\ make(f, value, origin, same).key = f.key
           /\ make(f, value, origin, same).value # Empty <=> value # Empty
<1>1. /\ make(f, value, origin, same).key = f.key
      /\ make(f, value, origin, same).value = restore(fid, value)
  BY DEF make, check
<1>2. restore(fid, value) = <<>> <=> value = <<>>
  BY RestoredIs DEF IsValue
<1> QED
  BY <1>1, <1>2 DEF Empty

(* What is found for a field is words, or nothing.                            *)
LEMMA ValueIs ==
    ASSUME Ready, NEW k
    PROVE  IsValue(Value(k)) /\ IsValue(Empty)
<1>1. IsValue(Empty)
  BY DEF IsValue, IsList, Empty, Range
<1>2. placed.values \in RowSet
  BY DEF Ready, Placements
<1>3. k \in DOMAIN placed.values => placed.values[k] \in Vals
  BY <1>2 DEF RowSet
<1>4. k \in DOMAIN filled.values => filled.values[k] \in Vals
  BY DEF Ready
<1>5. \/ k \in DOMAIN placed.values /\ Value(k) = placed.values[k]
      \/ k \in DOMAIN filled.values /\ Value(k) = filled.values[k]
      \/ Value(k) = Empty
  BY DEF Value
<1>6. Value(k) \in Vals \/ Value(k) = Empty
  BY <1>3, <1>4, <1>5
<1> QED
  BY <1>1, <1>6, ValsAre

(* The scalar fields of the answer.                                           *)
LEMMA ScalarsAre ==
    ASSUME Ready
    PROVE  /\ IsList(Scalars) /\ \A c \in Range(Scalars) : States(c)
           /\ \A f \in Range(Fields) : ~f.repeatable /\ Value(f.key) # Empty =>
                    \E c \in Range(Scalars) : c.key = f.key /\ c.value # Empty
<1> DEFINE S == {i \in DOMAIN Fields : ~Fields[i].repeatable /\
                    (Fields[i].required \/ Value(Fields[i].key) # Empty)}
           shown == Kept(Fields, S)
           cell(f) == make(f, Value(f.key), Origin(f.key), None)
           s == Scalars
<1>1. s = [i \in DOMAIN shown |-> cell(shown[i])]
  BY DEF Scalars
<1>2. IsList(Fields)
  BY KeysAreOwn, FieldsAre DEF Ready
<1>3. S \in SUBSET DOMAIN Fields
  OBVIOUS
<1>4. IsList(shown) /\ Range(shown) = {Fields[i] : i \in S}
  <2> HIDE DEF S
  <2> QED
    BY <1>2, <1>3, KeptIs
<1>5. ASSUME NEW f \in Range(shown)
      PROVE  f \in Range(Fields) /\ ~f.repeatable
  BY <1>4 DEF Range
<1>6. ASSUME NEW f \in Range(Fields), ~f.repeatable, Value(f.key) # Empty
      PROVE  f \in Range(shown)
  <2>1. PICK i \in DOMAIN Fields : f = Fields[i]
    BY DEF Range
  <2>2. i \in S
    BY <1>6, <2>1
  <2> HIDE DEF S, shown
  <2> QED
    BY <1>4, <2>1, <2>2
<1> HIDE DEF shown
<1>7. ASSUME NEW f \in Range(shown) PROVE States(cell(f))
  <2>1. IsValue(Value(f.key))
    BY ValueIs
  <2>2. f \in Range(Fields) /\ ~f.repeatable
    BY <1>5
  <2>3. Value(f.key) # Empty => IsHeld(f)
    BY <2>2 DEF IsHeld
  <2> QED
    BY <2>1, <2>2, <2>3, CellIsMade
<1>8. ASSUME NEW f PROVE cell(f).key = f.key /\ (cell(f).value # Empty <=> Value(f.key) # Empty)
  BY ValueIs, CellShows
<1> HIDE DEF s, cell
<1>9. IsList(s) /\ DOMAIN s = DOMAIN shown
  <2>1. s = [i \in DOMAIN shown |-> s[i]]
    BY <1>1
  <2> QED
    BY <1>4, <2>1, MapIsList
<1>10. \A c \in Range(s) : \E f \in Range(shown) : c = cell(f)
  BY <1>1 DEF Range
<1>11. \A f \in Range(shown) : cell(f) \in Range(s)
  BY <1>1 DEF Range
<1>12. \A c \in Range(s) : States(c)
  BY <1>7, <1>10
<1>13. ASSUME NEW f \in Range(Fields), ~f.repeatable, Value(f.key) # Empty
       PROVE  \E c \in Range(s) : c.key = f.key /\ c.value # Empty
  <2>1. cell(f) \in Range(s)
    BY <1>6, <1>11, <1>13
  <2> QED
    BY <1>8, <1>13, <2>1
<1> QED
  BY <1>9, <1>12, <1>13 DEF s

(* The empty columns of the answer.                                           *)
LEMMA EmptyColumnsAre ==
    ASSUME Ready
    PROVE  IsList(EmptyColumns) /\ \A c \in Range(EmptyColumns) : States(c)
<1> DEFINE fields == tmpl.fields
           S == {i \in DOMAIN fields : fields[i].repeatable /\
                    fields[i].required /\ placed.rows[fields[i].section] = <<>>}
           shown == Kept(fields, S)
           cell(f) == make(f, Empty, "model", None)
           s == EmptyColumns
<1>1. s = [i \in DOMAIN shown |-> cell(shown[i])]
  BY DEF EmptyColumns
<1>2. IsList(fields) /\ Range(Fields) = Range(fields)
  BY KeysAreOwn, FieldsAre DEF Ready
<1>3. S \in SUBSET DOMAIN fields
  OBVIOUS
<1>4. IsList(shown) /\ Range(shown) = {fields[i] : i \in S}
  <2> HIDE DEF S
  <2> QED
    BY <1>2, <1>3, KeptIs
<1>5. ASSUME NEW f \in Range(shown) PROVE f \in Range(Fields)
  BY <1>2, <1>4 DEF Range
<1> HIDE DEF shown
<1>6. ASSUME NEW f \in Range(shown) PROVE States(cell(f))
  <2>1. IsValue(Empty)
    BY ValueIs
  <2> QED
    BY <1>5, <2>1, CellIsMade
<1> HIDE DEF s, cell
<1>7. IsList(s)
  <2>1. s = [i \in DOMAIN shown |-> s[i]]
    BY <1>1
  <2> QED
    BY <1>4, <2>1, MapIsList
<1>8. \A c \in Range(s) : \E f \in Range(shown) : c = cell(f)
  BY <1>1 DEF Range
<1> QED
  BY <1>6, <1>7, <1>8 DEF s

(* The columns of a table are fields of its section.                          *)
LEMMA ColumnsAre ==
    ASSUME Ready, NEW g, NEW rows
    PROVE  /\ IsList(Columns(g, rows))
           /\ \A f \in Range(Columns(g, rows)) :
                    f \in Range(Fields) /\ f.repeatable /\ f.section = g
           /\ \A f \in Range(Fields) : f.repeatable /\ f.section = g /\ f.required =>
                    f \in Range(Columns(g, rows))
<1> DEFINE fields == tmpl.fields
           A == {i \in DOMAIN fields : fields[i].repeatable /\ fields[i].section = g}
           shape == Kept(fields, A)
           B == {i \in DOMAIN shape :
                    shape[i].required \/ \E r \in Range(rows) : shape[i].key \in DOMAIN r}
           columns == Kept(shape, B)
<1>1. shape = Shape(g)
  BY DEF Shape
<1>2. columns = Columns(g, rows)
  BY <1>1 DEF Columns
<1>3. IsList(fields) /\ Range(Fields) = Range(fields)
  BY KeysAreOwn, FieldsAre DEF Ready
<1>4. A \in SUBSET DOMAIN fields /\ B \in SUBSET DOMAIN shape
  OBVIOUS
<1>5. IsList(shape) /\ Range(shape) = {fields[i] : i \in A}
  <2> HIDE DEF A
  <2> QED
    BY <1>3, <1>4, KeptIs
<1>6. \A f : f \in Range(shape) <=> f \in Range(Fields) /\ f.repeatable /\ f.section = g
  <2>1. \A f : f \in {fields[i] : i \in A} <=>
                    \E i \in DOMAIN fields : f = fields[i] /\ f.repeatable /\ f.section = g
    OBVIOUS
  <2> HIDE DEF A, shape
  <2>2. \A f : f \in Range(fields) <=> \E i \in DOMAIN fields : f = fields[i]
    BY DEF Range
  <2> QED
    BY <1>3, <1>5, <2>1, <2>2
<1> HIDE DEF shape
<1>7. IsList(columns) /\ Range(columns) = {shape[i] : i \in B}
  <2> HIDE DEF B
  <2> QED
    BY <1>4, <1>5, KeptIs
<1>8. \A f \in Range(columns) : f \in Range(shape)
  <2>1. {shape[i] : i \in B} \subseteq Range(shape)
    BY DEF Range
  <2> HIDE DEF B
  <2> QED
    BY <1>7, <2>1
<1>9. ASSUME NEW f \in Range(shape), f.required PROVE f \in Range(columns)
  <2>1. PICK i \in DOMAIN shape : f = shape[i]
    BY DEF Range
  <2>2. i \in B
    BY <1>9, <2>1
  <2> HIDE DEF B, columns
  <2> QED
    BY <1>7, <2>1, <2>2
<1> HIDE DEF columns
<1> QED
  BY <1>2, <1>6, <1>7, <1>8, <1>9

(* Cells that state what a row has under some columns.                        *)
ShownAs(cells, columns, row) ==
    /\ \A c \in Range(cells) : States(c)
    /\ \A f \in Range(columns) : f.key \in DOMAIN row =>
            \E c \in Range(cells) : c.key = f.key /\ c.value # Empty

(* A row of the answer, made of a row that was found.                         *)
LEMMA RowIs ==
    ASSUME Ready, NEW g \in Groups, NEW rows, rows = placed.rows[g], NEW n \in DOMAIN rows,
           NEW origin, NEW same, same = None \/ same \in DOMAIN fid
    PROVE  ShownAs(make_row(Columns(g, rows), rows[n], origin, same), Columns(g, rows), rows[n])
<1> DEFINE columns == Columns(g, rows)
           row == rows[n]
           value(f) == IF f.key \in DOMAIN row THEN row[f.key] ELSE Empty
           cell(f) == make(f, value(f), origin, same)
           cells == make_row(columns, row, origin, same)
<1>1. cells = [i \in DOMAIN columns |-> cell(columns[i])]
  BY DEF make_row
<1>2. \A f \in Range(columns) : f \in Range(Fields) /\ f.repeatable /\ f.section = g
  BY ColumnsAre
<1>3. row \in RowSet /\ row \in Range(rows)
  <2>1. rows \in Seq(RowSet)
    BY DEF Ready, Placements
  <2> QED
    BY <2>1, SeqIsList DEF Range
<1>4. \A k \in DOMAIN row : row[k] \in Vals
  BY <1>3 DEF RowSet
<1> HIDE DEF columns, row
<1>5. ASSUME NEW f
      PROVE  /\ IsValue(value(f)) /\ (f.key \in DOMAIN row <=> value(f) # Empty)
  <2>1. IsValue(Empty)
    BY ValueIs
  <2>2. f.key \in DOMAIN row => IsValue(row[f.key]) /\ row[f.key] # Empty
    BY <1>4, ValsAre
  <2> QED
    BY <2>1, <2>2
<1>6. ASSUME NEW f \in Range(columns) PROVE States(cell(f))
  <2>1. f.key \in DOMAIN row => IsHeld(f)
    <3>1. f.repeatable /\ f.section = g
      BY <1>2
    <3>2. IsHeld(f) <=> ~Absent(f, rows)
      BY <3>1 DEF IsHeld
    <3> QED
      BY <1>3, <3>2 DEF Absent
  <2>2. value(f) # Empty => IsHeld(f)
    BY <1>5, <2>1
  <2>3. IsValue(value(f)) /\ f \in Range(Fields)
    BY <1>2, <1>5
  <2> HIDE DEF value
  <2> QED
    BY <2>2, <2>3, CellIsMade
<1>7. ASSUME NEW f PROVE cell(f).key = f.key /\ (cell(f).value # Empty <=> f.key \in DOMAIN row)
  <2>1. IsValue(value(f)) /\ (f.key \in DOMAIN row <=> value(f) # Empty)
    BY <1>5
  <2> HIDE DEF value
  <2> QED
    BY <2>1, CellShows
<1> HIDE DEF cells, cell
<1>8. \A c \in Range(cells) : \E f \in Range(columns) : c = cell(f)
  BY <1>1 DEF Range
<1>9. \A f \in Range(columns) : cell(f) \in Range(cells)
  BY <1>1 DEF Range
<1>10. \A c \in Range(cells) : States(c)
  BY <1>6, <1>8
<1>11. \A f \in Range(columns) : f.key \in DOMAIN row =>
            \E c \in Range(cells) : c.key = f.key /\ c.value # Empty
  BY <1>7, <1>9
<1> QED
  BY <1>10, <1>11 DEF ShownAs, cells, columns, row

(* A column some row has a value of is shown.                                 *)
LEMMA ColumnIsShown ==
    ASSUME Ready, NEW f \in Range(Fields), f.repeatable, NEW rows,
           NEW n \in DOMAIN rows, f.key \in DOMAIN rows[n]
    PROVE  f \in Range(Columns(f.section, rows))
<1> DEFINE fields == tmpl.fields
           g == f.section
           A == {i \in DOMAIN fields : fields[i].repeatable /\ fields[i].section = g}
           shape == Kept(fields, A)
           B == {i \in DOMAIN shape :
                    shape[i].required \/ \E r \in Range(rows) : shape[i].key \in DOMAIN r}
           columns == Kept(shape, B)
<1>1. shape = Shape(g)
  BY DEF Shape
<1>2. columns = Columns(g, rows)
  BY <1>1 DEF Columns
<1>3. IsList(fields) /\ Range(Fields) = Range(fields)
  BY KeysAreOwn, FieldsAre DEF Ready
<1>4. A \in SUBSET DOMAIN fields /\ B \in SUBSET DOMAIN shape
  OBVIOUS
<1>5. IsList(shape) /\ Range(shape) = {fields[i] : i \in A}
  <2> HIDE DEF A
  <2> QED
    BY <1>3, <1>4, KeptIs
<1>6. f \in Range(shape)
  <2>1. PICK i \in DOMAIN fields : f = fields[i]
    BY <1>3 DEF Range
  <2>2. i \in A
    BY <2>1
  <2> HIDE DEF A, shape
  <2> QED
    BY <1>5, <2>1, <2>2
<1> HIDE DEF shape
<1>7. Range(columns) = {shape[i] : i \in B}
  <2> HIDE DEF B
  <2> QED
    BY <1>4, <1>5, KeptIs
<1>8. PICK i \in DOMAIN shape : f = shape[i]
  BY <1>6 DEF Range
<1>9. i \in B
  <2>1. rows[n] \in Range(rows)
    BY DEF Range
  <2> QED
    BY <1>8, <2>1
<1> HIDE DEF B, columns
<1> QED
  BY <1>2, <1>7, <1>8, <1>9

(* A row of the answer is cited after an anchor of its own.                   *)
LEMMA RowsFollow ==
    ASSUME NEW g, NEW rows, NEW origin
    PROVE  /\ DOMAIN MadeRows(g, rows, origin) = DOMAIN rows
           /\ \A n \in DOMAIN rows : \E after :
                MadeRows(g, rows, origin)[n] =
                    make_row(Columns(g, rows), rows[n], origin, Anchor_of(rows[n], after))
<1> DEFINE m == MadeRows(g, rows, origin)
           at(row, after) == Anchor_of(row, after)
           u == CHOOSE upto : upto = [n \in 0..Len(rows) |->
                    IF n = 0 THEN None
                    ELSE IF at(rows[n], upto[n - 1]) = None THEN upto[n - 1]
                    ELSE at(rows[n], upto[n - 1])]
           row(n) == make_row(Columns(g, rows), rows[n], origin, at(rows[n], u[n - 1]))
<1>1. m = [n \in DOMAIN rows |-> row(n)]
  BY DEF MadeRows
<1> HIDE DEF u, m
<1>2. ASSUME NEW n \in DOMAIN rows
      PROVE  \E after :
                m[n] = make_row(Columns(g, rows), rows[n], origin, Anchor_of(rows[n], after))
  BY <1>1
<1>3. DOMAIN m = DOMAIN rows
  BY <1>1
<1> QED
  BY <1>2, <1>3 DEF m

(* A row that was found has finitely many cells, each of words.               *)
LEMMA RowHasFew ==
    ASSUME Ready, NEW g \in Groups, NEW rows, rows = placed.rows[g], NEW n \in DOMAIN rows
    PROVE  /\ IsFiniteSet(DOMAIN rows[n])
           /\ \A k \in DOMAIN rows[n] : IsValue(rows[n][k]) /\ rows[n][k] # Empty
<1> DEFINE R == Range(Fields)
           s == [f \in R |-> f.key]
           row == rows[n]
<1>1. IsFiniteSet(R)
  <2>1. IsList(Fields)
    BY KeysAreOwn, FieldsAre DEF Ready
  <2> QED
    BY <2>1, ListIsFinite
<1>2. row \in RowSet
  <2>1. rows \in Seq(RowSet)
    BY DEF Ready, Placements
  <2> QED
    BY <2>1
<1> HIDE DEF row
<1>3. DOMAIN row \in SUBSET {s[f] : f \in R} /\ \A k \in DOMAIN row : row[k] \in Vals
  BY <1>2 DEF RowSet
<1>4. s = [f \in R |-> s[f]]
  OBVIOUS
<1> HIDE DEF R, s
<1>5. IsFiniteSet({s[f] : f \in R})
  BY <1>1, <1>4, ImageIsFinite
<1>6. IsFiniteSet(DOMAIN row)
  BY <1>3, <1>5, FS_Subset
<1>7. \A k \in DOMAIN row : IsValue(row[k]) /\ row[k] # Empty
  BY <1>3, ValsAre
<1> QED
  BY <1>6, <1>7 DEF row

(* The anchor of a row, if it has one, is a place of the text.                *)
LEMMA AnchorStands ==
    ASSUME Ready, NEW g \in Groups, NEW rows, rows = placed.rows[g], NEW n \in DOMAIN rows,
           NEW after
    PROVE  Anchor_of(rows[n], after) = None \/ Anchor_of(rows[n], after) \in DOMAIN fid
<1> DEFINE row == rows[n]
           s == Anchor_of(row, after)
<1>1. IsFiniteSet(DOMAIN row) /\ \A k \in DOMAIN row : IsValue(row[k])
  BY RowHasFew
<1>2. Indexed(fid)
  BY IndexIs DEF Ready
<1>3. s = Anchor_of(row, after)
  OBVIOUS
<1> HIDE DEF row, s
<1>4. s = None \/ s \in DOMAIN fid
  BY <1>1, <1>2, <1>3, AnchorIs
<1> QED
  BY <1>4 DEF row, s

(* Rows of cells that state what the rows of a table have.                    *)
ShownRows(m, g, rows) ==
    /\ DOMAIN m = DOMAIN rows
    /\ \A n \in DOMAIN rows : \A c \in Range(m[n]) : States(c)
    /\ \A f \in Range(Fields) :
            f.repeatable /\ f.section = g /\ f.required /\ ~Absent(f, rows) =>
                \E n \in DOMAIN rows : \E c \in Range(m[n]) : c.key = f.key /\ c.value # Empty

(* A table of the answer.                                                     *)
LEMMA TableIs ==
    ASSUME Ready, NEW g \in Groups, NEW rows, rows = placed.rows[g], NEW origin
    PROVE  ShownRows(MadeRows(g, rows, origin), g, rows)
<1> DEFINE m == MadeRows(g, rows, origin)
           columns == Columns(g, rows)
<1>1. DOMAIN m = DOMAIN rows /\ \A n \in DOMAIN rows : \E after :
            m[n] = make_row(columns, rows[n], origin, Anchor_of(rows[n], after))
  BY RowsFollow
<1> HIDE DEF m
<1>2. ASSUME NEW n \in DOMAIN rows
      PROVE  /\ \A c \in Range(m[n]) : States(c)
             /\ \A f \in Range(columns) : f.key \in DOMAIN rows[n] =>
                    \E c \in Range(m[n]) : c.key = f.key /\ c.value # Empty
  <2>0. PICK after : m[n] = make_row(columns, rows[n], origin, Anchor_of(rows[n], after))
    BY <1>1
  <2> DEFINE same == Anchor_of(rows[n], after)
  <2>a. same = None \/ same \in DOMAIN fid
    BY AnchorStands
  <2>1. m[n] = make_row(columns, rows[n], origin, same)
    BY <2>0
  <2> HIDE DEF same
  <2> DEFINE cells == make_row(columns, rows[n], origin, same)
  <2>2. ShownAs(cells, columns, rows[n])
    BY <2>a, RowIs
  <2> HIDE DEF cells, columns
  <2>3. m[n] = cells
    BY <2>1 DEF cells
  <2> QED
    BY <2>2, <2>3 DEF ShownAs
<1>3. ASSUME NEW f \in Range(Fields), f.repeatable, f.section = g, f.required, ~Absent(f, rows)
      PROVE  \E n \in DOMAIN rows : \E c \in Range(m[n]) : c.key = f.key /\ c.value # Empty
  <2>1. f \in Range(columns)
    BY <1>3, ColumnsAre
  <2>2. PICK n \in DOMAIN rows : f.key \in DOMAIN rows[n]
    BY <1>3 DEF Absent, Range
  <2> HIDE DEF columns
  <2> QED
    BY <1>2, <2>1, <2>2
<1> QED
  BY <1>1, <1>2, <1>3 DEF ShownRows, m

(* The named parts of the answer.                                             *)
LEMMA AssembledIs ==
    /\ Assembled.error = FALSE /\ Assembled.fields = Scalars \o EmptyColumns
    /\ DOMAIN Assembled.rows = {g \in Groups : placed.rows[g] # <<>>}
    /\ \A g \in DOMAIN Assembled.rows : Assembled.rows[g] =
            MadeRows(g, placed.rows[g], IF g \in filled.groups THEN "model" ELSE "aligned")
    /\ Assembled.missing = {f.key : f \in {x \in Range(Fields) : x.required /\ ~IsHeld(x)}}
    /\ Assembled.truncated = Truncated(text) /\ Assembled.output_capped = OutputCapped
    /\ Assembled.extras = [i \in DOMAIN placed.extras |-> loose(placed.extras[i])]
    /\ Assembled.expiry = None
<1> DEFINE G == {x \in Groups : placed.rows[x] # <<>>}
           made(g) == MadeRows(g, placed.rows[g],
                               IF g \in filled.groups THEN "model" ELSE "aligned")
           rs == [g \in G |-> made(g)]
           fs == Scalars \o EmptyColumns
           ms == {f.key : f \in {x \in Range(Fields) : x.required /\ ~IsHeld(x)}}
           es == [i \in DOMAIN placed.extras |-> loose(placed.extras[i])]
           t == Truncated(text)
           o == OutputCapped
<1>1. ms = {f.key : f \in {x \in Range(Fields) : x.required /\
                    IF x.repeatable THEN Absent(x, placed.rows[x.section])
                    ELSE Value(x.key) = Empty}}
  BY DEF IsHeld
<1>2. Assembled = [error |-> FALSE, fields |-> fs, rows |-> rs, extras |-> es,
                   missing |-> ms, truncated |-> t, output_capped |-> o, expiry |-> None]
  <2> HIDE DEF ms
  <2> QED
    BY <1>1 DEF Assembled
<1> HIDE DEF fs, ms, es, t, o
<1>3. DOMAIN rs = G /\ \A g \in G : rs[g] = made(g)
  OBVIOUS
<1> HIDE DEF rs, G, made
<1>4. /\ Assembled.error = FALSE /\ Assembled.fields = fs /\ Assembled.rows = rs
      /\ Assembled.missing = ms /\ Assembled.truncated = t /\ Assembled.output_capped = o
      /\ Assembled.extras = es /\ Assembled.expiry = None
  BY <1>2
<1> QED
  BY <1>3, <1>4 DEF fs, ms, es, t, o, G, made

(* Every cell of the answer states what was found, and every required field   *)
(* that was found has a cell.                                                 *)
LEMMA KeyedAre ==
    ASSUME Ready
    PROVE  /\ \A c \in Keyed(Assembled) : States(c)
           /\ \A f \in Range(Fields) : f.required /\ IsHeld(f) =>
                \E c \in Keyed(Assembled) : c.key = f.key /\ c.value # Empty
<1> DEFINE r == Assembled
           o(g) == IF g \in filled.groups THEN "model" ELSE "aligned"
           G == {g \in Groups : placed.rows[g] # <<>>}
<1>1. /\ r.fields = Scalars \o EmptyColumns /\ DOMAIN r.rows = G
      /\ \A g \in G : r.rows[g] = MadeRows(g, placed.rows[g], o(g))
  <2>1. DOMAIN r.rows = G
    BY AssembledIs
  <2>2. \A g \in DOMAIN r.rows : r.rows[g] = MadeRows(g, placed.rows[g], o(g))
    BY AssembledIs
  <2> HIDE DEF r, o, G
  <2>3. \A g \in G : r.rows[g] = MadeRows(g, placed.rows[g], o(g))
    BY <2>1, <2>2
  <2>4. r.fields = Scalars \o EmptyColumns
    BY AssembledIs DEF r
  <2> QED
    BY <2>1, <2>3, <2>4
<1> HIDE DEF r
<1>2. Range(r.fields) = Range(Scalars) \cup Range(EmptyColumns)
  BY <1>1, ScalarsAre, EmptyColumnsAre, BothLists
<1>3. ASSUME NEW g \in G
      PROVE  /\ DOMAIN r.rows[g] = DOMAIN placed.rows[g]
             /\ \A n \in DOMAIN r.rows[g] : \A c \in Range(r.rows[g][n]) : States(c)
             /\ \A f \in Range(Fields) :
                  f.repeatable /\ f.section = g /\ f.required /\ IsHeld(f) =>
                      \E n \in DOMAIN r.rows[g] : \E c \in Range(r.rows[g][n]) :
                          c.key = f.key /\ c.value # Empty
  <2> DEFINE rows == placed.rows[g]
             m == MadeRows(g, rows, o(g))
  <2>1. g \in Groups
    OBVIOUS
  <2>a. ShownRows(m, g, rows)
    BY <2>1, TableIs
  <2>3. r.rows[g] = m
    BY <1>1
  <2>4. \A f \in Range(Fields) : f.repeatable /\ f.section = g /\ IsHeld(f) => ~Absent(f, rows)
    BY DEF IsHeld
  <2> HIDE DEF m, rows, o, G
  <2>2. /\ DOMAIN m = DOMAIN rows
        /\ \A n \in DOMAIN rows : \A c \in Range(m[n]) : States(c)
        /\ \A f \in Range(Fields) :
                f.repeatable /\ f.section = g /\ f.required /\ ~Absent(f, rows) =>
                    \E n \in DOMAIN rows : \E c \in Range(m[n]) :
                        c.key = f.key /\ c.value # Empty
    BY <2>a DEF ShownRows
  <2>5. \A f \in Range(Fields) :
                f.repeatable /\ f.section = g /\ f.required /\ IsHeld(f) =>
                    \E n \in DOMAIN rows : \E c \in Range(m[n]) :
                        c.key = f.key /\ c.value # Empty
    BY <2>2, <2>4
  <2>6. DOMAIN r.rows[g] = DOMAIN rows
    BY <2>2, <2>3
  <2>7. \A n \in DOMAIN r.rows[g] : \A c \in Range(r.rows[g][n]) : States(c)
    BY <2>2, <2>3, <2>6
  <2>8. \A f \in Range(Fields) :
                f.repeatable /\ f.section = g /\ f.required /\ IsHeld(f) =>
                    \E n \in DOMAIN r.rows[g] : \E c \in Range(r.rows[g][n]) :
                        c.key = f.key /\ c.value # Empty
    BY <2>3, <2>5, <2>6
  <2> QED
    BY <2>6, <2>7, <2>8 DEF rows
<1>4. Cells(r) = UNION {UNION {Range(x) : x \in Range(r.rows[g])} : g \in G}
  BY <1>1 DEF Cells
<1>5. \A c : c \in Cells(r) <=> \E g \in G : \E n \in DOMAIN r.rows[g] : c \in Range(r.rows[g][n])
  <2> HIDE DEF G
  <2> QED
    BY <1>4 DEF Range
<1>6. ASSUME NEW c \in Keyed(r) PROVE States(c)
  <2>1. c \in Range(Scalars) \/ c \in Range(EmptyColumns) \/ c \in Cells(r)
    BY <1>2 DEF Keyed
  <2>2. CASE c \in Cells(r)
    <3> HIDE DEF G
    <3> QED
      BY <1>3, <1>5, <2>2
  <2>3. CASE c \in Range(Scalars)
    BY <2>3, ScalarsAre
  <2>4. CASE c \in Range(EmptyColumns)
    BY <2>4, EmptyColumnsAre
  <2> QED
    BY <2>1, <2>2, <2>3, <2>4
<1>7. ASSUME NEW f \in Range(Fields), f.required, IsHeld(f)
      PROVE  \E c \in Keyed(r) : c.key = f.key /\ c.value # Empty
  <2>1. CASE ~f.repeatable
    <3>1. Value(f.key) # Empty
      BY <1>7, <2>1 DEF IsHeld
    <3>2. \E c \in Range(Scalars) : c.key = f.key /\ c.value # Empty
      BY <2>1, <3>1, ScalarsAre
    <3>3. Range(Scalars) \subseteq Keyed(r)
      BY <1>2 DEF Keyed
    <3> QED
      BY <3>2, <3>3
  <2>2. CASE f.repeatable
    <3> DEFINE g == f.section
    <3>1. g \in Groups
      BY <2>2 DEF Groups
    <3>2. ~Absent(f, placed.rows[g])
      BY <1>7, <2>2 DEF IsHeld
    <3>3. placed.rows[g] # <<>>
      BY <3>2 DEF Absent, Range
    <3>4. g \in G
      BY <3>1, <3>3
    <3> HIDE DEF G
    <3>5. \E n \in DOMAIN r.rows[g] : \E c \in Range(r.rows[g][n]) :
              c.key = f.key /\ c.value # Empty
      BY <1>3, <1>7, <2>2, <3>4
    <3>6. \E c \in Cells(r) : c.key = f.key /\ c.value # Empty
      BY <1>5, <3>4, <3>5
    <3> QED
      BY <3>6 DEF Keyed
  <2> QED
    BY <2>1, <2>2
<1> QED
  BY <1>6, <1>7 DEF r

(* What a result claims: of every value it calls "ok", of every required      *)
(* field it does not call missing, and of the limits that were met.           *)
IsResult(r) ==
    r = [error |-> r.error, fields |-> r.fields, rows |-> r.rows, extras |-> r.extras,
         missing |-> r.missing, truncated |-> r.truncated,
         output_capped |-> r.output_capped, expiry |-> r.expiry]
Named(r) == {c.key : c \in {x \in Keyed(r) : x.value # Empty}}
Needed == {f.key : f \in Range(required_fields(tmpl))}
Claims(r) ==
    /\ IsResult(r)
    /\ \A c \in Keyed(r) : Honest(c)
    /\ (tmpl # None /\ ~r.error /\ _clean(text) # 0) => r.missing = Needed \ Named(r)
    /\ ~r.error => r.truncated = Truncated(text) /\ r.output_capped = OutputCapped

(* An assembled answer claims what it can show.                               *)
LEMMA AssembledClaims ==
    ASSUME Ready PROVE Claims(Assembled)
<1> DEFINE r == Assembled
<1>1. /\ \A c \in Keyed(r) : States(c)
      /\ \A f \in Range(Fields) : f.required /\ IsHeld(f) =>
            \E c \in Keyed(r) : c.key = f.key /\ c.value # Empty
  BY KeyedAre
<1>2. r.missing = {f.key : f \in {x \in Range(Fields) : x.required /\ ~IsHeld(x)}}
  BY AssembledIs
<1>3. IsResult(r)
  BY DEF Assembled, IsResult
<1>a. r.truncated = Truncated(text) /\ r.output_capped = OutputCapped
  BY AssembledIs
<1> HIDE DEF r
<1>4. \A c \in Keyed(r) : Honest(c)
  BY <1>1 DEF States, MadeOf
<1>5. Range(required_fields(tmpl)) = {f \in Range(Fields) : f.required}
  BY KeysAreOwn, FieldsAre DEF Ready
<1>6. \A f, g \in Range(Fields) : f.key = g.key => f = g
  BY KeysAreOwn DEF Ready
<1>7. ASSUME NEW c \in Keyed(r), c.value # Empty, NEW f \in Range(Fields), c.key = f.key
      PROVE  IsHeld(f)
  <2>1. PICK g \in Range(Fields) : \E value :
            IsValue(value) /\ MadeOf(c, g, value) /\ (value # Empty => IsHeld(g))
    BY <1>1 DEF States
  <2>2. PICK value : IsValue(value) /\ MadeOf(c, g, value) /\ (value # Empty => IsHeld(g))
    BY <2>1
  <2>3. c.key = g.key /\ c.value = restore(fid, value)
    BY <2>2 DEF MadeOf
  <2>4. g = f
    BY <1>6, <1>7, <2>3
  <2>5. restore(fid, value) = <<>> <=> value = <<>>
    BY <2>2, RestoredIs DEF IsValue
  <2>6. value # Empty
    BY <1>7, <2>3, <2>5 DEF Empty
  <2> QED
    BY <2>2, <2>4, <2>6
<1>8. \A k : k \in r.missing <=> k \in Needed \ Named(r)
  <2>1. \A k : k \in r.missing <=> \E f \in Range(Fields) : f.required /\ ~IsHeld(f) /\ f.key = k
    BY <1>2
  <2>2. \A k : k \in Needed <=> \E f \in Range(Fields) : f.required /\ f.key = k
    BY <1>5 DEF Needed
  <2>3. \A k : k \in Named(r) <=> \E c \in Keyed(r) : c.value # Empty /\ c.key = k
    BY DEF Named
  <2>4. ASSUME NEW f \in Range(Fields), f.required
        PROVE  f.key \in Named(r) <=> IsHeld(f)
    <3>1. IsHeld(f) => f.key \in Named(r)
      BY <1>1, <2>3, <2>4
    <3>2. f.key \in Named(r) => IsHeld(f)
      BY <1>7, <2>3
    <3> QED
      BY <3>1, <3>2
  <2>5. ASSUME NEW k PROVE k \in r.missing <=> k \in Needed \ Named(r)
    <3>1. k \in r.missing => k \in Needed \ Named(r)
      BY <2>1, <2>2, <2>4
    <3>2. k \in Needed \ Named(r) => k \in r.missing
      BY <2>1, <2>2, <2>4
    <3> QED
      BY <3>1, <3>2
  <2> QED
    BY <2>5
<1>9. \A k \in r.missing : k \in Needed
  BY <1>8
<1>10. r.missing = Needed \ Named(r)
  BY <1>8
<1> QED
  BY <1>3, <1>4, <1>10, <1>a DEF Claims, r

(* An answer without keyed cells claims nothing of them.                      *)
LEMMA BareClaims ==
    ASSUME NEW error, NEW cut, NEW capped, NEW extras, NEW r,
           r = [error |-> error, fields |-> <<>>, rows |-> <<>>, extras |-> extras,
                missing |-> {}, truncated |-> cut, output_capped |-> capped, expiry |-> None]
    PROVE  IsResult(r) /\ Keyed(r) = {} /\ r.error = error /\ r.truncated = cut
           /\ r.output_capped = capped
<1>1. IsResult(r)
  BY DEF IsResult
<1>2. r.fields = <<>> /\ r.rows = <<>> /\ r.error = error /\ r.truncated = cut
      /\ r.output_capped = capped
  OBVIOUS
<1>3. Range(<<>>) = {} /\ DOMAIN <<>> = {}
  BY DEF Range
<1>4. Cells(r) = {}
  BY <1>2, <1>3 DEF Cells
<1> QED
  BY <1>1, <1>2, <1>3, <1>4 DEF Keyed

(* So does an answer with nothing in it.                                      *)
LEMMA NothingIsBare ==
    ASSUME NEW error, NEW cut
    PROVE  /\ IsResult(Nothing(error, cut)) /\ Keyed(Nothing(error, cut)) = {}
           /\ Nothing(error, cut).error = error /\ Nothing(error, cut).truncated = cut
           /\ Nothing(error, cut).output_capped = FALSE
<1> DEFINE r == Nothing(error, cut)
           off == FALSE
           none == <<>>
<1>1. r = [error |-> error, fields |-> <<>>, rows |-> <<>>, extras |-> none,
           missing |-> {}, truncated |-> cut, output_capped |-> off, expiry |-> None]
  BY DEF Nothing
<1> HIDE DEF r, off, none
<1>2. IsResult(r) /\ Keyed(r) = {} /\ r.error = error /\ r.truncated = cut
      /\ r.output_capped = off
  BY <1>1, BareClaims
<1> QED
  BY <1>2 DEF r, off

(* When nothing was read, nothing was cut off.                                *)
LEMMA NothingRead ==
    ASSUME read' = <<>>
    PROVE  OutputCapped' = FALSE
<1>1. DOMAIN read' = {}
  OBVIOUS
<1> QED
  BY <1>1 DEF OutputCapped

(* An expiry is added to a result, and nothing of it changed.                 *)
LEMMA ExpiryAdded ==
    ASSUME NEW r, Claims(r), NEW e
    PROVE  Claims([r EXCEPT !.expiry = e])
<1> DEFINE s == [r EXCEPT !.expiry = e]
<1>1. r = [error |-> r.error, fields |-> r.fields, rows |-> r.rows, extras |-> r.extras,
           missing |-> r.missing, truncated |-> r.truncated,
           output_capped |-> r.output_capped, expiry |-> r.expiry]
  BY DEF Claims, IsResult
<1>2. s = [error |-> r.error, fields |-> r.fields, rows |-> r.rows, extras |-> r.extras,
           missing |-> r.missing, truncated |-> r.truncated,
           output_capped |-> r.output_capped, expiry |-> e]
  <2> DEFINE a == r.error
             b == r.fields
             c == r.rows
             d == r.extras
             f == r.missing
             g == r.truncated
             h == r.output_capped
             i == r.expiry
  <2>1. r = [error |-> a, fields |-> b, rows |-> c, extras |-> d, missing |-> f,
             truncated |-> g, output_capped |-> h, expiry |-> i]
    BY <1>1
  <2> HIDE DEF a, b, c, d, f, g, h, i
  <2>2. s = [error |-> a, fields |-> b, rows |-> c, extras |-> d, missing |-> f,
             truncated |-> g, output_capped |-> h, expiry |-> e]
    BY <2>1
  <2> QED
    BY <2>2 DEF a, b, c, d, f, g, h
<1> HIDE DEF s
<1>3. /\ s.error = r.error /\ s.fields = r.fields /\ s.rows = r.rows
      /\ s.missing = r.missing /\ s.truncated = r.truncated
      /\ s.output_capped = r.output_capped /\ IsResult(s)
  BY <1>2 DEF IsResult
<1>4. Keyed(s) = Keyed(r)
  BY <1>3 DEF Keyed, Cells
<1>5. Named(s) = Named(r)
  BY <1>4 DEF Named
<1>6. Claims(s)
  BY <1>3, <1>4, <1>5 DEF Claims
<1> QED
  BY <1>6 DEF s

(* A result claims the same while its request lasts.                          *)
LEMMA ClaimsLast ==
    ASSUME UNCHANGED <<text, fid, tmpl, read>>, \E r : r = result' /\ Claims(r)
    PROVE  Claims(result)'
<1>1. PICK r : r = result' /\ Claims(r)
  OBVIOUS
<1>2. (text' = text /\ fid' = fid /\ tmpl' = tmpl) /\ read' = read
  OBVIOUS
<1>3. IsResult(result)' /\ Keyed(result)' = Keyed(r) /\ Named(result)' = Named(r)
  <2>1. IsResult(result)'
    BY <1>1 DEF Claims, IsResult
  <2>2. Keyed(result)' = Keyed(r)
    BY <1>1 DEF Keyed, Cells
  <2>3. Named(result)' = Named(r)
    BY <1>1 DEF Named, Keyed, Cells
  <2> QED
    BY <2>1, <2>2, <2>3
<1>4. ASSUME NEW c PROVE Honest(c)' <=> Honest(c)
  BY <1>2 DEF Honest, InText
<1>5. Needed' = Needed /\ OutputCapped' = OutputCapped /\ _clean(text)' = _clean(text)
      /\ Truncated(text)' = Truncated(text)
  BY <1>2 DEF Needed, OutputCapped
<1>6. \A c \in Keyed(result)' : Honest(c)'
  BY <1>1, <1>3, <1>4 DEF Claims
<1>7. /\ (tmpl # None /\ ~r.error /\ _clean(text) # 0) => r.missing = Needed \ Named(r)
      /\ ~r.error => r.truncated = Truncated(text) /\ r.output_capped = OutputCapped
  BY <1>1 DEF Claims
<1>8. (/\ (tmpl # None /\ ~result.error /\ _clean(text) # 0) =>
                    result.missing = Needed \ Named(result)
       /\ ~result.error => /\ result.truncated = Truncated(text)
                           /\ result.output_capped = OutputCapped)'
  BY <1>1, <1>2, <1>3, <1>5, <1>7
<1> QED
  BY <1>3, <1>6, <1>8 DEF Claims

(* What has been answered can be shown.                                       *)
FactsInv ==
    /\ DataInv
    /\ (pc \in {"expiry", "chunk"} \/ Done) => Claims(result)

(* It holds at the start.                                                     *)
LEMMA FactsInit == Init => FactsInv
  BY DataInit DEF FactsInv, Init, Done

(* Every step that answers, or adds to an answer, keeps it shown.             *)
LEMMA FactsNext == FactsInv /\ [Next]_vars => FactsInv'
<1> SUFFICES ASSUME FactsInv, [Next]_vars PROVE FactsInv'
  OBVIOUS
<1>0. DataInv /\ DataInv'
  BY DataNext DEF FactsInv
<1>C. (pc \in {"expiry", "chunk"} \/ Done) => Claims(result)
  BY DEF FactsInv
<1>A. ASSUME UNCHANGED <<text, fid, tmpl, read, result>>,
             pc' \in {"expiry", "chunk"} \/ Done' => pc \in {"expiry", "chunk"} \/ Done
      PROVE  FactsInv'
  <2>1. CASE pc' \in {"expiry", "chunk"} \/ Done'
    <3>1. Claims(result) /\ result = result'
      BY <1>A, <1>C, <2>1
    <3>2. Claims(result)'
      BY <1>A, <3>1, ClaimsLast
    <3> QED
      BY <1>0, <3>2 DEF FactsInv
  <2>2. CASE ~(pc' \in {"expiry", "chunk"} \/ Done')
    BY <1>0, <2>2 DEF FactsInv
  <2> QED
    BY <2>1, <2>2
<1>B. ASSUME ~(pc' \in {"expiry", "chunk"}), pc' # "idle" \/ result' = None
      PROVE  FactsInv'
  BY <1>0, <1>B DEF FactsInv, Done
<1>D. ASSUME UNCHANGED <<text, fid, tmpl, read>>, NEW r, r = result', Claims(r)
      PROVE  FactsInv'
  <2>1. Claims(result)'
    BY <1>D, ClaimsLast
  <2> QED
    BY <1>0, <2>1 DEF FactsInv
<1>1. ASSUME NEW t \in DOMAIN DOCS, NEW id \in Ids(reg) \cup {"", "retired"}, Request(t, id)
      PROVE  FactsInv'
  <2>1. CASE _clean(t) # 0
    <3>1. pc' = "generic"
      BY <1>1, <2>1 DEF Request
    <3> QED
      BY <1>B, <3>1
  <2>2. CASE _clean(t) = 0
    <3>1. /\ result' = Nothing(FALSE, Truncated(t)) /\ text' = t /\ read' = <<>>
      BY <1>1, <2>2 DEF Request
    <3> DEFINE cut == Truncated(t)
               r == Nothing(FALSE, cut)
    <3>3. IsResult(r) /\ Keyed(r) = {} /\ r.truncated = cut /\ r.output_capped = FALSE
      BY NothingIsBare
    <3>4. IsResult(result)' /\ Keyed(result)' = {}
      <4> HIDE DEF r, cut
      <4>1. result' = r
        BY <3>1 DEF r, cut
      <4> QED
        BY <3>3, <4>1 DEF IsResult, Keyed, Cells
    <3>a. Truncated(text)' = cut /\ _clean(text)' = 0
      BY <2>2, <3>1
    <3>2. read' = <<>>
      BY <3>1
    <3>c. OutputCapped' = FALSE
      BY <3>2, NothingRead
    <3>6. result'.truncated = cut /\ result'.output_capped = FALSE
      BY <3>1, <3>3
    <3> HIDE DEF r, cut
    <3>8. Claims(result)'
      BY <3>4, <3>a, <3>c, <3>6 DEF Claims
    <3> QED
      BY <1>0, <3>8 DEF FactsInv
  <2> QED
    BY <2>1, <2>2
<1>2. ASSUME NEW slip \in SLIPS, NEW hit \in BOOLEAN, ReadChunk(slip, hit) PROVE FactsInv'
  <2>1. pc' \in {"generic", "align"}
    BY <1>0, <1>2, ReadKeeps
  <2> QED
    BY <1>B, <2>1
<1>3. CASE GenericRaises
  <2> DEFINE r == Nothing(TRUE, FALSE)
  <2>1. UNCHANGED <<text, fid, tmpl, read>> /\ result' = r
    BY <1>3 DEF GenericRaises
  <2>2. r = [error |-> TRUE, fields |-> <<>>, rows |-> <<>>, extras |-> <<>>,
             missing |-> {}, truncated |-> FALSE, output_capped |-> FALSE, expiry |-> None]
    BY DEF Nothing
  <2> HIDE DEF r
  <2>3. IsResult(r) /\ Keyed(r) = {} /\ r.error = TRUE
    BY <2>2, BareClaims
  <2>4. Claims(r)
    BY <2>3 DEF Claims
  <2> QED
    BY <1>D, <2>1, <2>4
<1>4. CASE Align
  <2>1. CASE tmpl = None
    <3> DEFINE r == Generic
               es == FlattenSeq([s \in DOMAIN free |->
                        [i \in DOMAIN free[s].fields |-> loose(free[s].fields[i])]])
               cut == Truncated(text)
               capped == OutputCapped
    <3>1. UNCHANGED <<text, fid, tmpl, read>> /\ result' = r
      BY <1>4, <2>1 DEF Align, Answer
    <3>2. r = [error |-> FALSE, fields |-> <<>>, rows |-> <<>>, extras |-> es,
               missing |-> {}, truncated |-> cut, output_capped |-> capped, expiry |-> None]
      BY DEF Generic
    <3> HIDE DEF r, es, cut, capped
    <3>3. IsResult(r) /\ Keyed(r) = {} /\ r.truncated = cut /\ r.output_capped = capped
      BY <3>2, BareClaims
    <3>4. Claims(r)
      BY <2>1, <3>3 DEF Claims, cut, capped
    <3> QED
      BY <1>D, <3>1, <3>4
  <2>2. CASE tmpl # None
    <3>1. pc' = "records"
      BY <1>4, <2>2 DEF Align
    <3> QED
      BY <1>B, <3>1
  <2> QED
    BY <2>1, <2>2
<1>5. CASE Respond
  BY <1>5, <1>B DEF Respond
<1>6. ASSUME NEW rows, RecordPass(rows) PROVE FactsInv'
  BY <1>6, <1>B DEF RecordPass
<1>7. CASE RecordsDone
  BY <1>7, <1>B DEF RecordsDone
<1>8. ASSUME NEW got, TargetedPass(got) PROVE FactsInv'
  BY <1>8, <1>B DEF TargetedPass
<1>9. CASE TargetedDone
  <2> DEFINE r == Assembled
  <2>1. UNCHANGED <<text, fid, tmpl, read>> /\ result' = r /\ pc = "targeted"
    BY <1>9 DEF TargetedDone, Answer
  <2>2. Ready
    BY <1>0, <2>1 DEF DataInv, Ready
  <2>3. Claims(r)
    BY <2>2, AssembledClaims
  <2> HIDE DEF r
  <2> QED
    BY <1>D, <2>1, <2>3
<1>10. CASE Expires
  <2>1. UNCHANGED <<text, fid, tmpl, read>> /\ pc = "expiry"
        /\ \E e : result' = [result EXCEPT !.expiry = e]
    BY <1>10 DEF Expires
  <2>2. PICK e : result' = [result EXCEPT !.expiry = e]
    BY <2>1
  <2> DEFINE r == [result EXCEPT !.expiry = e]
  <2>3. Claims(result)
    BY <1>C, <2>1
  <2>4. Claims(r)
    BY <2>3, ExpiryAdded
  <2> HIDE DEF r
  <2> QED
    BY <1>D, <2>1, <2>2, <2>4 DEF r
<1>11. ASSUME NEW date, ChunkAnswer(date) PROVE FactsInv'
  <2>1. UNCHANGED <<text, fid, tmpl, read>> /\ pc = "chunk"
    BY <1>11 DEF ChunkAnswer
  <2>2. UNCHANGED result \/ \E e : result' = [result EXCEPT !.expiry = e]
    BY <1>11 DEF ChunkAnswer
  <2>3. CASE UNCHANGED result
    BY <1>A, <2>1, <2>3
  <2>4. CASE \E e : result' = [result EXCEPT !.expiry = e]
    <3>1. PICK e : result' = [result EXCEPT !.expiry = e]
      BY <2>4
    <3> DEFINE r == [result EXCEPT !.expiry = e]
    <3>2. Claims(result)
      BY <1>C, <2>1
    <3>3. Claims(r)
      BY <3>2, ExpiryAdded
    <3> HIDE DEF r
    <3> QED
      BY <1>D, <2>1, <3>1, <3>3 DEF r
  <2> QED
    BY <2>2, <2>3, <2>4
<1>12. CASE ChunkRaises
  BY <1>12, <1>A DEF ChunkRaises
<1>13. CASE UNCHANGED vars
  <2>1. UNCHANGED <<pc, text, fid, tmpl, read, result>>
    BY <1>13 DEF vars
  <2>2. Done' = Done
    BY <2>1 DEF Done
  <2> QED
    BY <1>A, <2>1, <2>2
<1> QED
  BY <1>1, <1>2, <1>3, <1>4, <1>5, <1>6, <1>7, <1>8, <1>9, <1>10, <1>11, <1>12, <1>13 DEF Next

(* The invariant of the facts holds throughout.                               *)
LEMMA FactsAlways == Spec => []FactsInv
<1>1. Init => FactsInv
  BY FactsInit
<1>2. FactsInv /\ [Next]_vars => FactsInv'
  BY FactsNext
<1> QED
  BY <1>1, <1>2, PTL DEF Spec

-----------------------------------------------------------------------------
(* What a result cites.                                                       *)

(* Rows of a table have cells of its own columns only.                        *)
OwnRows(g) ==
    {row \in RowSet : \A k \in DOMAIN row : \E f \in Range(Fields) :
        f.repeatable /\ f.section = g /\ f.key = k}
OwnColumns(p) == \A g \in Groups : p.rows[g] \in Seq(OwnRows(g))

(* The shape of a table is its fields.                                        *)
LEMMA ShapeIs ==
    ASSUME IsList(tmpl.fields), NEW g
    PROVE  \A f \in Range(Shape(g)) : f \in Range(Fields) /\ f.repeatable /\ f.section = g
<1> DEFINE fields == tmpl.fields
           S == {i \in DOMAIN fields : fields[i].repeatable /\ fields[i].section = g}
<1>1. Shape(g) = Kept(fields, S)
  BY DEF Shape
<1>2. S \in SUBSET DOMAIN fields
  OBVIOUS
<1>3. \A i \in S : fields[i] \in Range(fields) /\ fields[i].repeatable /\ fields[i].section = g
  BY DEF Range
<1> HIDE DEF S
<1>4. Range(Shape(g)) = {fields[i] : i \in S}
  BY <1>1, <1>2, KeptIs
<1>5. Range(Fields) = Range(fields)
  BY FieldsAre
<1> QED
  BY <1>3, <1>4, <1>5

(* A row has one cell more, of its own.                                       *)
LEMMA WithIsOwn ==
    ASSUME NEW f \in Range(Fields), f.repeatable, NEW g, g = f.section, NEW v \in Vals
    PROVE  /\ With(<<>>, f.key, v) \in OwnRows(g)
           /\ \A row \in OwnRows(g) : With(row, f.key, v) \in OwnRows(g)
<1>1. ASSUME NEW row \in RowSet,
             \A k \in DOMAIN row : \E h \in Range(Fields) :
                h.repeatable /\ h.section = g /\ h.key = k
      PROVE  With(row, f.key, v) \in OwnRows(g)
  <2> DEFINE w == With(row, f.key, v)
  <2>1. w \in RowSet
    BY WithIs
  <2>2. DOMAIN w = DOMAIN row \cup {f.key}
    BY DEF With
  <2> HIDE DEF w
  <2>3. \A k \in DOMAIN w : \E h \in Range(Fields) : h.repeatable /\ h.section = g /\ h.key = k
    BY <1>1, <2>2
  <2>4. w \in OwnRows(g)
    BY <2>1, <2>3 DEF OwnRows
  <2> QED
    BY <2>4 DEF w
<1>2. <<>> \in RowSet /\ DOMAIN <<>> = {}
  <2>1. <<>> \in [{} -> Vals] /\ {} \in SUBSET {h.key : h \in Range(Fields)}
    OBVIOUS
  <2> DEFINE K == {h.key : h \in Range(Fields)}
  <2> HIDE DEF K
  <2>2. <<>> \in UNION {[ks -> Vals] : ks \in SUBSET K}
    BY <2>1
  <2>3. <<>> \in RowSet
    BY <2>2 DEF RowSet, K
  <2>4. DOMAIN <<>> = {}
    OBVIOUS
  <2> QED
    BY <2>3, <2>4
<1> QED
  BY <1>1, <1>2 DEF OwnRows

(* An item placed leaves every row with its own columns.                      *)
LEMMA ItemIsOwn ==
    ASSUME NEW p \in Placements, OwnColumns(p), NEW it \in Aligned
    PROVE  OwnColumns(PlaceItem(p, it))
<1> DEFINE x == [label |-> it.label, value |-> it.value]
           f == it.target
           v == it.value
           q == PlaceItem(p, it)
           pv == p.values
           pr == p.rows
           pe == p.extras
<1>1. v \in Vals /\ f \in Range(Fields) \cup {None}
  <2>1. PICK y \in Found, t \in Range(Fields) \cup {None} :
            y.value # Empty /\ it = [label |-> y.label, value |-> y.value, target |-> t]
    BY DEF Aligned
  <2> QED
    BY <2>1 DEF Vals
<1>2. pr \in [Groups -> Seq(RowSet)] /\ p = [values |-> pv, rows |-> pr, extras |-> pe]
  BY DEF Placements
<1>3. ASSUME q.rows = p.rows PROVE OwnColumns(q)
  BY <1>3 DEF OwnColumns
<1>4. ASSUME q = [p EXCEPT !.extras = Append(@, x)] PROVE OwnColumns(q)
  <2> DEFINE e == Append(pe, x)
  <2>1. q = [p EXCEPT !.extras = e]
    BY <1>4
  <2> HIDE DEF q, e, pv, pr, pe
  <2>2. q = [values |-> pv, rows |-> pr, extras |-> e]
    BY <1>2, <2>1, PartIs
  <2>3. q.rows = p.rows
    BY <2>2 DEF pr
  <2> QED
    BY <1>3, <2>3
<1>5. ASSUME q = [p EXCEPT !.values = With(@, f.key, v)] PROVE OwnColumns(q)
  <2> DEFINE d == With(pv, f.key, v)
  <2>1. q = [p EXCEPT !.values = d]
    BY <1>5
  <2> HIDE DEF q, d, pv, pr, pe
  <2>2. q = [values |-> d, rows |-> pr, extras |-> pe]
    BY <1>2, <2>1, PartIs
  <2>3. q.rows = p.rows
    BY <2>2 DEF pr
  <2> QED
    BY <1>3, <2>3
<1>6. ASSUME f # None, f.repeatable, q = PlaceInRow(p, f, v) PROVE OwnColumns(q)
  <2> DEFINE g == f.section
             rows == pr[g]
             n == Len(rows)
             new == With(<<>>, f.key, v)
             more == With(rows[n], f.key, v)
             longer == [rows EXCEPT ![n] = more]
             R1 == [pr EXCEPT ![g] = Append(rows, new)]
             R2 == [pr EXCEPT ![g] = longer]
             S == OwnRows(g)
  <2>1. f \in Range(Fields) /\ g \in Groups
    BY <1>1, <1>6 DEF Groups
  <2>2. rows \in Seq(S)
    BY <2>1 DEF OwnColumns
  <2>3. new \in S /\ \A row \in S : With(row, f.key, v) \in S
    BY <1>1, <1>6, <2>1, WithIsOwn
  <2>4. \/ q = [p EXCEPT !.rows = R1]
        \/ q = [p EXCEPT !.rows = R2] /\ rows # <<>>
    <3>1. [p EXCEPT !.rows[g] = Append(@, new)] = [p EXCEPT !.rows = R1]
      OBVIOUS
    <3>2. [p EXCEPT !.rows[g][n] = With(@, f.key, v)] = [p EXCEPT !.rows = R2]
      <4>1. [pr EXCEPT ![g][n] = With(@, f.key, v)] = R2
        BY <1>2, <2>1
      <4>2. [p EXCEPT !.rows[g][n] = With(@, f.key, v)]
                = [p EXCEPT !.rows = [pr EXCEPT ![g][n] = With(@, f.key, v)]]
        OBVIOUS
      <4> QED
        BY <4>1, <4>2
    <3>3. PlaceInRow(p, f, v) =
            IF rows = <<>> \/ f.key \in DOMAIN rows[n]
            THEN [p EXCEPT !.rows[g] = Append(@, new)]
            ELSE [p EXCEPT !.rows[g][n] = With(@, f.key, v)]
      BY DEF PlaceInRow
    <3> HIDE DEF R1, R2
    <3> QED
      BY <1>6, <3>1, <3>2, <3>3
  <2> HIDE DEF S
  <2>5. Append(rows, new) \in Seq(S)
    <3> HIDE DEF rows, new
    <3> QED
      BY <2>2, <2>3
  <2>6. ASSUME rows # <<>> PROVE longer \in Seq(S)
    <3>1. rows[n] \in S /\ n \in 1..Len(rows)
      <4> HIDE DEF rows
      <4> QED
        BY <2>2, <2>6
    <3>2. more \in S
      BY <2>3, <3>1
    <3> HIDE DEF rows, more
    <3> QED
      BY <2>2, <3>1, <3>2
  <2> HIDE DEF q, f, v, longer
  <2>7. ASSUME NEW R, q = [p EXCEPT !.rows = R], R[g] \in Seq(S),
               \A h \in Groups : h # g => R[h] = pr[h]
        PROVE  OwnColumns(q)
    <3> HIDE DEF pv, pr, pe
    <3>1. q = [values |-> pv, rows |-> R, extras |-> pe]
      BY <1>2, <2>7, PartIs
    <3>2. q.rows = R
      BY <3>1
    <3>3. \A h \in Groups : pr[h] \in Seq(OwnRows(h))
      BY DEF OwnColumns, pr
    <3>4. \A h \in Groups : R[h] \in Seq(OwnRows(h))
      BY <2>7, <3>3 DEF S
    <3> QED
      BY <3>2, <3>4 DEF OwnColumns
  <2>8. CASE q = [p EXCEPT !.rows = R1]
    <3>1. R1[g] = Append(rows, new) /\ \A h \in Groups : h # g => R1[h] = pr[h]
      BY <1>2, <2>1
    <3> HIDE DEF R1, new, rows
    <3> QED
      BY <2>5, <2>7, <2>8, <3>1
  <2>9. CASE q = [p EXCEPT !.rows = R2] /\ rows # <<>>
    <3>1. R2[g] = longer /\ \A h \in Groups : h # g => R2[h] = pr[h]
      BY <1>2, <2>1
    <3> HIDE DEF R2, rows
    <3> QED
      BY <2>6, <2>7, <2>9, <3>1
  <2> QED
    BY <2>4, <2>8, <2>9
<1>7. \/ q = [p EXCEPT !.extras = Append(@, x)]
      \/ f # None /\ f.repeatable /\ q = PlaceInRow(p, f, v)
      \/ q = [p EXCEPT !.values = With(@, f.key, v)]
  BY DEF PlaceItem
<1> QED
  BY <1>4, <1>5, <1>6, <1>7

(* So does alignment.                                                         *)
LEMMA AlignIsOwn ==
    ASSUME NEW secs \in Sections
    PROVE  OwnColumns(_align(secs))
<1> DEFINE items == ItemsOf(secs)
           n == Len(items)
<1>1. items \in Seq(Aligned)
  BY ItemsAre
<1>2. PICK u \in [0..n -> Placements] :
            /\ u[0] = Blank /\ _align(secs) = u[n]
            /\ \A i \in 1..n : u[i] = PlaceItem(u[i - 1], items[i])
  BY AlignIs
<1> DEFINE G == {i \in 0..n : OwnColumns(u[i])}
<1> HIDE DEF items
<1>3. n \in Nat /\ \A i \in 1..n : items[i] \in Aligned
  BY <1>1
<1> HIDE DEF n
<1>4. 0 \in G
  <2> DEFINE rs == [g \in Groups |-> <<>>]
  <2>1. u[0].rows = rs
    BY <1>2 DEF Blank
  <2>2. \A g \in Groups : rs[g] \in Seq(OwnRows(g))
    OBVIOUS
  <2> HIDE DEF rs
  <2>3. OwnColumns(u[0])
    BY <2>1, <2>2 DEF OwnColumns
  <2> QED
    BY <1>3, <2>3
<1>5. ASSUME NEW i \in 1..n, i - 1 \in G PROVE i \in G
  <2> DEFINE p == u[i - 1]
             x == items[i]
  <2>1. i - 1 \in 0..n /\ i \in 0..n /\ OwnColumns(p)
    BY <1>3, <1>5
  <2>2. p \in Placements /\ u[i] = PlaceItem(p, x) /\ x \in Aligned
    BY <1>2, <1>3, <2>1
  <2> HIDE DEF p, x
  <2>3. OwnColumns(u[i])
    BY <2>1, <2>2, ItemIsOwn
  <2> QED
    BY <2>1, <2>3
<1>6. \A i \in 0..n : i \in G
  <2> HIDE DEF G
  <2> QED
    BY <1>3, <1>4, <1>5, UpTo
<1> QED
  BY <1>2, <1>3, <1>6

(* So do the rows a table is answered with.                                   *)
LEMMA AnsweredIsOwn ==
    ASSUME IsList(tmpl.fields), NEW g, NEW rows \in RowAnswers(g)
    PROVE  rows \in Seq(OwnRows(g))
<1> DEFINE C == _record_columns(g)
           req == {f.key : f \in {x \in Range(Shape(g)) : x.required}}
<1>1. \A k \in C : \E f \in Range(Fields) : f.repeatable /\ f.section = g /\ f.key = k
  BY ShapeIs DEF _record_columns
<1>2. rows = <<>> \/ \E r \in Answers(C, req) : rows = <<r, r>>
  BY DEF RowAnswers
<1> HIDE DEF req
<1>3. ASSUME NEW r \in Answers(C, req) PROVE DOMAIN r \subseteq C
  <2> DEFINE A == {[ks -> {v}] : ks \in {C, C \ req}, v \in VALUES}
  <2>1. \A a \in A : \E ks \in {C, C \ req}, v \in VALUES : a = [ks -> {v}]
    OBVIOUS
  <2>2. r \in {<<>>} \cup UNION A
    BY DEF Answers
  <2> HIDE DEF A, C
  <2>3. r = <<>> \/ \E a \in A : r \in a
    BY <2>2
  <2>4. CASE r = <<>>
    <3>1. DOMAIN r = {}
      BY <2>4
    <3> QED
      BY <3>1
  <2>5. CASE \E a \in A : r \in a
    <3>1. PICK ks \in {C, C \ req}, v \in VALUES : r \in [ks -> {v}]
      BY <2>1, <2>5, Zenon
    <3>2. DOMAIN r = ks
      BY <3>1
    <3> QED
      BY <3>2
  <2> QED
    BY <2>3, <2>4, <2>5
<1>4. rows \in Seq(RowSet)
  BY RowsAre
<1> HIDE DEF C
<1>5. CASE rows = <<>>
  BY <1>5
<1>6. CASE \E r \in Answers(C, req) : rows = <<r, r>>
  <2>1. PICK r \in Answers(C, req) : rows = <<r, r>>
    BY <1>6
  <2>2. r \in RowSet
    <3>1. rows[1] = r /\ 1 \in 1..Len(rows)
      BY <2>1
    <3> QED
      BY <1>4, <3>1
  <2>3. r \in OwnRows(g)
    BY <1>1, <1>3, <2>2 DEF OwnRows
  <2> QED
    BY <2>1, <2>3
<1> QED
  BY <1>2, <1>5, <1>6

(* A value is printed on a line, and what a row prints is together when there *)
(* is a line that each cell it prints is cited on.                            *)
IsOn(c, row) == \E i \in find_all(fid, c.value) : fid[i].row = row

LEMMA TogetherIs ==
    ASSUME NEW cells,
           (\E c \in Range(cells) : has(fid, c.value)) =>
             \E row : /\ \E c \in Range(cells) : IsOn(c, row)
                     /\ \A c \in Range(cells) : IsOn(c, row) =>
                         c.source # None /\ fid[code_point(fid, c.source.start)].row = row
    PROVE  Together(cells)
<1> DEFINE at == PrintedOn(cells)
<1>1. \A c \in Range(cells) : \A i \in find_all(fid, c.value) :
          [cell |-> c, row |-> fid[i].row] \in at
  BY DEF PrintedOn
<1>2. \A x \in at : x.cell \in Range(cells) /\ IsOn(x.cell, x.row)
  <2> SUFFICES ASSUME NEW x \in at PROVE x.cell \in Range(cells) /\ IsOn(x.cell, x.row)
    OBVIOUS
  <2>1. PICK c \in Range(cells) :
            \E i \in find_all(fid, c.value) : x = [cell |-> c, row |-> fid[i].row]
    BY DEF PrintedOn
  <2>2. PICK i \in find_all(fid, c.value) : x = [cell |-> c, row |-> fid[i].row]
    BY <2>1
  <2> QED
    BY <2>1, <2>2 DEF IsOn
<1> HIDE DEF at
<1>3. SUFFICES ASSUME at # {}
      PROVE  \E row \in {x.row : x \in at} : \A x \in at : x.row = row =>
                x.cell.source # None /\ fid[code_point(fid, x.cell.source.start)].row = row
  BY DEF Together, at
<1>4. PICK x \in at : TRUE
  BY <1>3
<1>5. has(fid, x.cell.value)
  BY <1>2, <1>4 DEF IsOn, has
<1>6. PICK row : /\ \E c \in Range(cells) : IsOn(c, row)
                /\ \A c \in Range(cells) : IsOn(c, row) =>
                     c.source # None /\ fid[code_point(fid, c.source.start)].row = row
  BY <1>2, <1>4, <1>5
<1>7. PICK c \in Range(cells) : IsOn(c, row)
  BY <1>6
<1>8. PICK i \in find_all(fid, c.value) : fid[i].row = row
  BY <1>7 DEF IsOn
<1>9. [cell |-> c, row |-> fid[i].row] \in at
  BY <1>1
<1>10. row \in {y.row : y \in at}
  BY <1>8, <1>9
<1> QED
  BY <1>2, <1>6, <1>10

(* The cells of a row of the answer are cited together.                       *)
LEMMA RowIsTogether ==
    ASSUME Ready, OwnColumns(placed), NEW g \in Groups, NEW rows, rows = placed.rows[g],
           NEW n \in DOMAIN rows, NEW origin, NEW after
    PROVE  Together(make_row(Columns(g, rows), rows[n], origin, Anchor_of(rows[n], after)))
<1> DEFINE columns == Columns(g, rows)
           row == rows[n]
           s == Anchor_of(row, after)
           value(f) == IF f.key \in DOMAIN row THEN row[f.key] ELSE Empty
           cell(f) == make(f, value(f), origin, s)
           cells == make_row(columns, row, origin, s)
           labels(f) == {f.label} \cup f.aliases \cup f.shared
<1>1. cells = [i \in DOMAIN columns |-> cell(columns[i])]
  BY DEF make_row
<1>2. \A f \in Range(columns) : f \in Range(Fields)
  BY ColumnsAre
<1>3. IsFiniteSet(DOMAIN row) /\ \A k \in DOMAIN row : IsValue(row[k]) /\ row[k] # Empty
  BY RowHasFew
<1>4. Indexed(fid) /\ \A x \in Range(fid) : x.row \in DOMAIN Lines(text)
  BY IndexIs DEF Ready
<1>5. ASSUME NEW k \in DOMAIN row PROVE \E f \in Range(columns) : f.key = k
  <2> DEFINE S == OwnRows(g)
  <2>1. rows \in Seq(S)
    BY DEF OwnColumns
  <2>2. row \in S
    <3> HIDE DEF S
    <3> QED
      BY <2>1
  <2> HIDE DEF row
  <2>3. PICK f \in Range(Fields) : f.repeatable /\ f.section = g /\ f.key = k
    BY <2>2 DEF OwnRows
  <2>4. f.key \in DOMAIN rows[n]
    BY <2>3 DEF row
  <2>5. f \in Range(Columns(f.section, rows))
    BY <2>3, <2>4, ColumnIsShown
  <2> QED
    BY <2>3, <2>5
<1>6. ASSUME NEW f
      PROVE  /\ cell(f).value = restore(fid, value(f))
             /\ cell(f).source = locate(fid, restore(fid, value(f)), labels(f), s)
  BY DEF make, check
<1> DEFINE found(k) == has(fid, restore(fid, row[k]))
<1>7. s = Anchor_of(row, after)
  OBVIOUS
<1> HIDE DEF columns, cells, cell, row, labels, s
<1>8. \/ s = None /\ \A k \in DOMAIN row : ~found(k)
      \/ /\ s \in DOMAIN fid
         /\ \E k \in DOMAIN row : s \in find_all(fid, restore(fid, row[k]))
  BY <1>3, <1>4, <1>7, AnchorIs
<1>9. ASSUME NEW f
      PROVE  /\ f.key \in DOMAIN row => value(f) = row[f.key]
             /\ has(fid, cell(f).value) => f.key \in DOMAIN row
  <2>1. f.key \notin DOMAIN row => cell(f).value = <<>>
    <3>1. IsList(Empty) /\ Empty = <<>>
      BY ValueIs DEF IsValue, Empty
    <3>2. restore(fid, Empty) = <<>>
      BY <3>1, RestoredIs
    <3> QED
      BY <1>6, <3>2
  <2>2. ~has(fid, <<>>)
    BY DEF has, find_all, Starts
  <2> QED
    BY <2>1, <2>2
<1>10. ASSUME NEW c \in Range(cells)
       PROVE  \E f \in Range(columns) : c = cell(f)
  BY <1>1 DEF Range
<1>11. ASSUME NEW f \in Range(columns) PROVE cell(f) \in Range(cells)
  BY <1>1 DEF Range
<1>12. SUFFICES ASSUME NEW c \in Range(cells), has(fid, c.value)
       PROVE  \E r :
                /\ \E d \in Range(cells) : IsOn(d, r)
                /\ \A d \in Range(cells) : IsOn(d, r) =>
                    d.source # None /\ fid[code_point(fid, d.source.start)].row = r
  BY TogetherIs DEF cells, columns, row, s
<1>13. PICK k \in DOMAIN row : s \in DOMAIN fid /\ s \in find_all(fid, restore(fid, row[k]))
  <2>1. PICK f \in Range(columns) : c = cell(f)
    BY <1>10
  <2>2. f.key \in DOMAIN row /\ found(f.key)
    BY <1>6, <1>9, <1>12, <2>1
  <2> QED
    BY <1>8, <2>2
<1> DEFINE r == fid[s].row
<1>15. \E d \in Range(cells) : IsOn(d, r)
  <2>1. PICK f \in Range(columns) : f.key = k
    BY <1>5
  <2>2. cell(f).value = restore(fid, row[k])
    BY <1>6, <1>9, <2>1
  <2>3. IsOn(cell(f), r)
    BY <1>13, <2>2 DEF IsOn
  <2> QED
    BY <1>11, <2>1, <2>3
<1>16. ASSUME NEW d \in Range(cells), IsOn(d, r)
       PROVE  d.source # None /\ fid[code_point(fid, d.source.start)].row = r
  <2>1. PICK f \in Range(columns) : d = cell(f)
    BY <1>10
  <2> DEFINE v == restore(fid, value(f))
             ls == labels(f)
  <2>2. d.value = v /\ d.source = locate(fid, v, ls, s)
    BY <1>6, <2>1
  <2>3. IsValue(v)
    <3>1. has(fid, d.value)
      BY <1>16 DEF IsOn, has
    <3>2. f.key \in DOMAIN row /\ value(f) = row[f.key]
      BY <1>9, <2>1, <3>1
    <3> HIDE DEF value
    <3> QED
      BY <1>3, <3>2, RestoredValue
  <2> HIDE DEF v, ls
  <2>4. has(fid, v) /\ \E i \in find_all(fid, v) : fid[i].row = fid[s].row
    BY <1>16, <2>2 DEF IsOn, has
  <2>5. s # None
    <3>1. s \in Nat
      <4>1. DOMAIN fid = 1..Len(fid) /\ Len(fid) \in Nat
        BY <1>4, ListIsFinite DEF Indexed
      <4> QED
        BY <1>13, <4>1
    <3> QED
      BY <3>1, PlaceAssumption
  <2>6. PICK i \in find_all(fid, v) :
            /\ locate(fid, v, ls, s) = span(fid, i)
            /\ (s # None /\ \E j \in find_all(fid, v) : fid[j].row = fid[s].row) =>
                    fid[i].row = fid[s].row
    BY <1>4, <1>13, <2>3, <2>4, LocateIs
  <2>7. i \in DOMAIN fid
    BY <1>4, <2>3, HitIs DEF Indexed, IsValue
  <2>8. span(fid, i) # None /\ code_point(fid, span(fid, i).start) = i
    BY <1>4, <2>7, SpanIs DEF span
  <2> QED
    BY <2>2, <2>4, <2>5, <2>6, <2>8
<1> QED
  BY <1>15, <1>16

(* A value of the document as it stands is cited where it stands.             *)
LEMMA LooseIsCited ==
    ASSUME text \in DOMAIN DOCS, fid = Locator(Lines(text)), NEW it \in Found
    PROVE  Cited(loose(it))
<1> DEFINE c == loose(it)
           v == restore(fid, it.value)
           labels == {it.label}
           same == None
<1>1. c.status = "" /\ c.value = v /\ c.source = locate(fid, v, labels, same)
  BY DEF loose
<1>2. IsValue(v)
  BY FoundIs, RestoredValue
<1>3. Indexed(fid)
  BY IndexIs
<1>4. same = None
  OBVIOUS
<1> HIDE DEF c, v, labels, same
<1>5. Cited(c)
  BY <1>1, <1>2, <1>3, <1>4, CitedIs
<1> QED
  BY <1>5 DEF c

(* What a result cites leads back to the page.                                *)
Traced(r) ==
    /\ \A c \in Keyed(r) \cup Range(r.extras) : Cited(c)
    /\ \A g \in DOMAIN r.rows : \A n \in DOMAIN r.rows[g] : Together(r.rows[g][n])

(* An assembled answer does.                                                  *)
LEMMA AssembledIsTraced ==
    ASSUME Ready, OwnColumns(placed) PROVE Traced(Assembled)
<1> DEFINE r == Assembled
           o(g) == IF g \in filled.groups THEN "model" ELSE "aligned"
           ex == placed.extras
<1>1. \A c \in Keyed(r) : Cited(c)
  BY KeyedAre DEF States, MadeOf
<1>2. DOMAIN r.rows = {g \in Groups : placed.rows[g] # <<>>}
  BY AssembledIs
<1>3. \A g \in DOMAIN r.rows : r.rows[g] = MadeRows(g, placed.rows[g], o(g))
  BY AssembledIs
<1>4. r.extras = [i \in DOMAIN ex |-> loose(ex[i])]
  BY AssembledIs
<1> HIDE DEF r, o
<1>5. ASSUME NEW c \in Range(r.extras) PROVE Cited(c)
  <2>1. PICK i \in DOMAIN ex : c = loose(ex[i])
    BY <1>4 DEF Range
  <2>2. ex[i] \in Found
    <3>1. ex \in Seq(Found)
      BY DEF Ready, Placements
    <3> QED
      BY <3>1
  <2> HIDE DEF ex
  <2> QED
    BY <2>1, <2>2, LooseIsCited DEF Ready
<1>6. ASSUME NEW g \in DOMAIN r.rows, NEW n \in DOMAIN r.rows[g] PROVE Together(r.rows[g][n])
  <2> DEFINE rows == placed.rows[g]
             a == o(g)
             m == MadeRows(g, rows, a)
  <2>1. g \in Groups /\ r.rows[g] = m
    BY <1>2, <1>3
  <2>2. rows = placed.rows[g]
    OBVIOUS
  <2> HIDE DEF a, rows
  <2>3. DOMAIN m = DOMAIN rows /\ \A j \in DOMAIN rows : \E after :
            m[j] = make_row(Columns(g, rows), rows[j], a, Anchor_of(rows[j], after))
    BY RowsFollow
  <2>4. n \in DOMAIN rows
    BY <2>1, <2>3
  <2>5. PICK after : m[n] = make_row(Columns(g, rows), rows[n], a, Anchor_of(rows[n], after))
    BY <2>3, <2>4
  <2>6. Together(make_row(Columns(g, rows), rows[n], a, Anchor_of(rows[n], after)))
    BY <2>1, <2>2, <2>4, RowIsTogether
  <2> QED
    BY <2>1, <2>5, <2>6
<1>7. Traced(r)
  BY <1>1, <1>5, <1>6 DEF Traced
<1> QED
  BY <1>7 DEF r

(* A free-form answer does.                                                   *)
LEMMA GenericIsTraced ==
    ASSUME text \in DOMAIN DOCS, fid = Locator(Lines(text)), free \in Sections
    PROVE  Traced(Generic)
<1> DEFINE ss == [s \in DOMAIN free |->
                    [i \in DOMAIN free[s].fields |-> loose(free[s].fields[i])]]
           es == FlattenSeq(ss)
           cut == Truncated(text)
           capped == OutputCapped
           r == Generic
<1>1. r = [error |-> FALSE, fields |-> <<>>, rows |-> <<>>, extras |-> es,
           missing |-> {}, truncated |-> cut, output_capped |-> capped, expiry |-> None]
  BY DEF Generic
<1>2. IsList(free) /\ Range(free) \subseteq Section
  BY SeqIsList DEF Sections
<1>3. ASSUME NEW s \in DOMAIN free
      PROVE  free[s].fields \in Seq(Found) /\ IsList(free[s].fields)
  <2>1. free[s] \in Section
    BY <1>2 DEF Range
  <2>2. free[s].fields \in Seq(Found)
    BY <2>1 DEF Section
  <2> QED
    BY <2>2, SeqIsList
<1>4. DOMAIN ss = DOMAIN free /\ ss = [s \in DOMAIN free |-> ss[s]]
  OBVIOUS
<1>5. ASSUME NEW s \in DOMAIN ss PROVE IsList(ss[s]) /\ \A c \in Range(ss[s]) : Cited(c)
  <2> DEFINE fs == free[s].fields
             m == ss[s]
  <2>1. m = [i \in DOMAIN fs |-> loose(fs[i])]
    BY <1>4, <1>5
  <2>2. fs \in Seq(Found) /\ IsList(fs)
    BY <1>3, <1>4
  <2> HIDE DEF m, fs
  <2>3. m = [i \in DOMAIN fs |-> m[i]]
    BY <2>1
  <2>4. IsList(m)
    BY <2>2, <2>3, MapIsList
  <2>5. ASSUME NEW c \in Range(m) PROVE Cited(c)
    <3>1. PICK i \in DOMAIN fs : c = loose(fs[i])
      BY <2>1 DEF Range
    <3>2. fs[i] \in Found
      BY <2>2
    <3> QED
      BY <3>1, <3>2, LooseIsCited
  <2> QED
    BY <2>4, <2>5 DEF m
<1> HIDE DEF ss, cut, capped, r
<1>6. IsList(ss)
  BY <1>2, <1>4, MapIsList
<1>7. Range(es) = UNION {Range(ss[s]) : s \in DOMAIN ss}
  BY <1>5, <1>6, FlattenRange
<1>8. \A c \in Range(es) : Cited(c)
  BY <1>5, <1>7
<1> HIDE DEF es
<1>9. Keyed(r) = {}
  BY <1>1, BareClaims
<1>10. r.rows = <<>> /\ r.extras = es
  BY <1>1
<1>11. DOMAIN r.rows = {}
  BY <1>10
<1>12. Traced(r)
  BY <1>8, <1>9, <1>10, <1>11 DEF Traced
<1> QED
  BY <1>12 DEF r

(* An empty answer cites nothing.                                             *)
LEMMA NothingCites ==
    ASSUME NEW error, NEW cut
    PROVE  LET r == Nothing(error, cut)
           IN Keyed(r) = {} /\ Range(r.extras) = {} /\ DOMAIN r.rows = {}
<1> DEFINE r == Nothing(error, cut)
<1>1. Keyed(r) = {}
  BY NothingIsBare
<1>2. r.extras = <<>> /\ r.rows = <<>>
  BY DEF Nothing
<1> HIDE DEF r
<1>3. DOMAIN r.rows = {} /\ DOMAIN r.extras = {}
  BY <1>2
<1>4. Range(r.extras) = {}
  BY <1>3 DEF Range
<1> QED
  BY <1>1, <1>3, <1>4 DEF r

(* An expiry added changes nothing else.                                      *)
LEMMA ExpiryOnly ==
    ASSUME NEW r, IsResult(r), NEW e, NEW s, s = [r EXCEPT !.expiry = e]
    PROVE  s.fields = r.fields /\ s.rows = r.rows /\ s.extras = r.extras
<1> DEFINE a == r.error
           b == r.fields
           c == r.rows
           d == r.extras
           f == r.missing
           g == r.truncated
           h == r.output_capped
           i == r.expiry
<1>1. r = [error |-> a, fields |-> b, rows |-> c, extras |-> d, missing |-> f,
           truncated |-> g, output_capped |-> h, expiry |-> i]
  BY DEF IsResult
<1> HIDE DEF a, b, c, d, f, g, h, i
<1>2. s = [error |-> a, fields |-> b, rows |-> c, extras |-> d, missing |-> f,
           truncated |-> g, output_capped |-> h, expiry |-> e]
  BY <1>1
<1>3. s.fields = b /\ s.rows = c /\ s.extras = d
  BY <1>2
<1> QED
  BY <1>3 DEF b, c, d

(* Nor what is cited.                                                         *)
LEMMA ExpiryTraced ==
    ASSUME NEW r, IsResult(r), Traced(r), NEW e, NEW s, s = [r EXCEPT !.expiry = e]
    PROVE  Traced(s)
<1>1. s.fields = r.fields /\ s.rows = r.rows /\ s.extras = r.extras
  BY ExpiryOnly
<1>2. Keyed(s) = Keyed(r)
  BY <1>1 DEF Keyed, Cells
<1> QED
  BY <1>1, <1>2 DEF Traced

(* The citations of a result stand while its text lasts.                      *)
LEMMA TracedLast ==
    ASSUME UNCHANGED <<text, fid>>, \E r : r = result' /\ Traced(r)
    PROVE  Traced(result)'
<1>1. PICK r : r = result' /\ Traced(r)
  OBVIOUS
<1>2. text' = text /\ fid' = fid
  OBVIOUS
<1>3. ASSUME NEW c PROVE Cited(c)' <=> Cited(c)
  BY <1>2 DEF Cited
<1>4. ASSUME NEW cells PROVE Together(cells)' <=> Together(cells)
  BY <1>2 DEF Together, PrintedOn
<1>5. Keyed(result)' = Keyed(r)
  BY <1>1 DEF Keyed, Cells
<1>6. /\ \A c \in Keyed(r) \cup Range(r.extras) : Cited(c)'
      /\ \A g \in DOMAIN r.rows : \A n \in DOMAIN r.rows[g] : Together(r.rows[g][n])'
  BY <1>1, <1>3, <1>4 DEF Traced
<1> QED
  BY <1>1, <1>5, <1>6 DEF Traced

(* Rows keep to their columns while the template lasts.                       *)
LEMMA OwnLast ==
    ASSUME tmpl' = tmpl, \E p : p = placed' /\ OwnColumns(p)
    PROVE  OwnColumns(placed)'
<1>1. PICK p : p = placed' /\ OwnColumns(p)
  OBVIOUS
<1>2. Fields' = Fields /\ Groups' = Groups
  BY SameTemplate
<1>3. RowSet' = RowSet
  BY <1>2 DEF RowSet, Vals
<1>4. ASSUME NEW g PROVE OwnRows(g)' = OwnRows(g)
  BY <1>2, <1>3 DEF OwnRows
<1>5. \A g \in Groups : p.rows[g] \in Seq(OwnRows(g)')
  BY <1>1, <1>4 DEF OwnColumns
<1> QED
  BY <1>1, <1>2, <1>5 DEF OwnColumns

(* What is placed keeps to its columns, and what has been answered is cited.  *)
TracedInv ==
    /\ pc \in {"records", "targeted"} => OwnColumns(placed)
    /\ (pc \in {"expiry", "chunk"} \/ Done) => Traced(result)

(* It holds at the start.                                                     *)
LEMMA TracedInit == Init => TracedInv
  BY DEF Init, TracedInv, Done

(* Every step keeps it.                                                       *)
LEMMA TracedNext == FactsInv /\ TracedInv /\ [Next]_vars => TracedInv'
<1> SUFFICES ASSUME FactsInv, TracedInv, [Next]_vars PROVE TracedInv'
  OBVIOUS
<1>0. DataInv
  BY DEF FactsInv
<1>A. ASSUME UNCHANGED <<text, fid, result>>, pc' \notin {"records", "targeted"},
             pc' \in {"expiry", "chunk"} \/ Done' => pc \in {"expiry", "chunk"} \/ Done
      PROVE  TracedInv'
  <2>1. CASE pc' \in {"expiry", "chunk"} \/ Done'
    <3>1. Traced(result) /\ result = result'
      BY <1>A, <2>1 DEF TracedInv
    <3>2. Traced(result)'
      BY <1>A, <3>1, TracedLast
    <3> QED
      BY <1>A, <3>2 DEF TracedInv
  <2>2. CASE ~(pc' \in {"expiry", "chunk"} \/ Done')
    BY <1>A, <2>2 DEF TracedInv
  <2> QED
    BY <2>1, <2>2
<1>B. ASSUME pc' \notin {"records", "targeted", "expiry", "chunk"},
             pc' # "idle" \/ result' = None
      PROVE  TracedInv'
  BY <1>B DEF TracedInv, Done
<1>C. ASSUME UNCHANGED <<text, fid>>, pc' \notin {"records", "targeted"},
             NEW r, r = result', Traced(r)
      PROVE  TracedInv'
  <2>1. Traced(result)'
    BY <1>C, TracedLast
  <2> QED
    BY <1>C, <2>1 DEF TracedInv
<1>D. ASSUME tmpl' = tmpl, pc' \in {"records", "targeted"}, NEW p, p = placed', OwnColumns(p)
      PROVE  TracedInv'
  <2>1. OwnColumns(placed)'
    BY <1>D, OwnLast
  <2>2. ~(pc' \in {"expiry", "chunk"} \/ Done')
    BY <1>D DEF Done
  <2> QED
    BY <2>1, <2>2 DEF TracedInv
<1>E. pc \in {"records", "targeted"} => OwnColumns(placed)
  BY DEF TracedInv
<1>F. ASSUME NEW error, NEW cut, result' = Nothing(error, cut), pc' = "idle"
      PROVE  TracedInv'
  <2> DEFINE r == Nothing(error, cut)
  <2>1. Keyed(r) = {} /\ Range(r.extras) = {} /\ DOMAIN r.rows = {}
    BY NothingCites
  <2>2. result' = r
    BY <1>F
  <2> HIDE DEF r
  <2>3. Keyed(result)' = {}
    BY <2>1, <2>2 DEF Keyed, Cells
  <2>4. Range(result.extras)' = {} /\ DOMAIN result'.rows = {}
    BY <2>1, <2>2
  <2>5. Traced(result)'
    BY <2>3, <2>4 DEF Traced
  <2> QED
    BY <1>F, <2>5 DEF TracedInv
<1>1. ASSUME NEW t \in DOMAIN DOCS, NEW id \in Ids(reg) \cup {"", "retired"}, Request(t, id)
      PROVE  TracedInv'
  <2>1. CASE _clean(t) # 0
    <3>1. pc' = "generic"
      BY <1>1, <2>1 DEF Request
    <3> QED
      BY <1>B, <3>1
  <2>2. CASE _clean(t) = 0
    <3> DEFINE error == FALSE
               cut == Truncated(t)
    <3>1. result' = Nothing(error, cut) /\ pc' = "idle"
      BY <1>1, <2>2 DEF Request
    <3> HIDE DEF error, cut
    <3> QED
      BY <1>F, <3>1
  <2> QED
    BY <2>1, <2>2
<1>2. ASSUME NEW slip \in SLIPS, NEW hit \in BOOLEAN, ReadChunk(slip, hit) PROVE TracedInv'
  <2>1. pc' \in {"generic", "align"}
    BY <1>0, <1>2, ReadKeeps
  <2> QED
    BY <1>B, <2>1
<1>3. CASE GenericRaises
  <2> DEFINE error == TRUE
             cut == FALSE
  <2>1. result' = Nothing(error, cut) /\ pc' = "idle"
    BY <1>3 DEF GenericRaises
  <2> HIDE DEF error, cut
  <2> QED
    BY <1>F, <2>1
<1>4. CASE Align
  <2>1. text \in DOMAIN DOCS /\ fid = Locator(Lines(text)) /\ free \in Sections
    BY <1>0, <1>4 DEF DataInv, Align
  <2>2. CASE tmpl = None
    <3> DEFINE r == Generic
    <3>1. UNCHANGED <<text, fid>> /\ pc' = "expiry" /\ result' = r
      BY <1>4, <2>2 DEF Align, Answer
    <3>2. Traced(r)
      BY <2>1, GenericIsTraced
    <3> HIDE DEF r
    <3> QED
      BY <1>C, <3>1, <3>2
  <2>3. CASE tmpl # None
    <3> DEFINE p == _align(free)
    <3>1. tmpl' = tmpl /\ pc' = "records" /\ placed' = p
      BY <1>4, <2>3 DEF Align
    <3>2. OwnColumns(p)
      BY <2>1, AlignIsOwn
    <3> HIDE DEF p
    <3> QED
      BY <1>D, <3>1, <3>2
  <2> QED
    BY <2>2, <2>3
<1>5. CASE Respond
  BY <1>5, <1>B DEF Respond
<1>6. ASSUME pc = "records", asked.groups # <<>>, NEW rows \in RowAnswers(Head(asked.groups)),
             RecordPass(rows)
      PROVE  TracedInv'
  <2> DEFINE g == Head(asked.groups)
             q == [placed EXCEPT !.rows[g] = rows]
  <2>1. tmpl' = tmpl /\ pc' = "records" /\ (placed' = placed \/ placed' = q)
    BY <1>6 DEF RecordPass
  <2>2. placed \in Placements /\ tmpl # None /\ OwnColumns(placed)
    BY <1>0, <1>6, <1>E DEF DataInv
  <2>3. IsList(tmpl.fields)
    BY <1>0, <2>2, TemplateIs DEF DataInv
  <2>4. rows \in Seq(OwnRows(g))
    BY <1>6, <2>3, AnsweredIsOwn
  <2> HIDE DEF g
  <2>5. OwnColumns(q)
    <3> DEFINE pv == placed.values
               pr == placed.rows
               pe == placed.extras
               R == [pr EXCEPT ![g] = rows]
    <3>1. placed = [values |-> pv, rows |-> pr, extras |-> pe] /\ pr \in [Groups -> Seq(RowSet)]
      BY <2>2 DEF Placements
    <3>2. q = [placed EXCEPT !.rows = R]
      OBVIOUS
    <3>3. \A h \in Groups : R[h] = IF h = g THEN rows ELSE pr[h]
      BY <3>1
    <3> HIDE DEF q, R, pv, pr, pe
    <3>4. q = [values |-> pv, rows |-> R, extras |-> pe]
      BY <3>1, <3>2, PartIs
    <3>5. q.rows = R
      BY <3>4
    <3>6. \A h \in Groups : R[h] \in Seq(OwnRows(h))
      BY <2>2, <2>4, <3>3 DEF OwnColumns, pr
    <3> QED
      BY <3>5, <3>6 DEF OwnColumns
  <2> HIDE DEF q
  <2> QED
    BY <1>D, <2>1, <2>2, <2>5
<1>7. CASE RecordsDone
  <2>1. UNCHANGED <<tmpl, placed>> /\ pc = "records" /\ pc' = "targeted"
    BY <1>7 DEF RecordsDone
  <2> QED
    BY <1>D, <1>E, <2>1
<1>8. ASSUME NEW got, TargetedPass(got) PROVE TracedInv'
  <2>1. UNCHANGED <<tmpl, placed>> /\ pc = "targeted" /\ pc' = "targeted"
    BY <1>8 DEF TargetedPass, Fill
  <2> QED
    BY <1>D, <1>E, <2>1
<1>9. CASE TargetedDone
  <2> DEFINE r == Assembled
  <2>1. UNCHANGED <<text, fid>> /\ result' = r /\ pc = "targeted" /\ pc' = "expiry"
    BY <1>9 DEF TargetedDone, Answer
  <2>2. Ready
    BY <1>0, <2>1 DEF DataInv, Ready
  <2>3. Traced(r)
    BY <1>E, <2>1, <2>2, AssembledIsTraced
  <2> HIDE DEF r
  <2> QED
    BY <1>C, <2>1, <2>3
<1>G. ASSUME UNCHANGED <<text, fid>>, NEW e, result' = [result EXCEPT !.expiry = e],
             pc \in {"expiry", "chunk"}, pc' \notin {"records", "targeted"}
      PROVE  TracedInv'
  <2> DEFINE r == [result EXCEPT !.expiry = e]
  <2>1. Traced(result) /\ IsResult(result)
    BY <1>G DEF TracedInv, FactsInv, Claims
  <2>2. r = result'
    BY <1>G
  <2>3. Traced(r)
    BY <2>1, ExpiryTraced
  <2> HIDE DEF r
  <2> QED
    BY <1>C, <1>G, <2>2, <2>3
<1>10. CASE Expires
  <2>1. UNCHANGED <<text, fid>> /\ pc = "expiry" /\ pc' \in {"idle", "chunk"}
        /\ \E e : result' = [result EXCEPT !.expiry = e]
    BY <1>10 DEF Expires
  <2> QED
    BY <1>G, <2>1
<1>11. ASSUME NEW date, ChunkAnswer(date) PROVE TracedInv'
  <2>1. UNCHANGED <<text, fid>> /\ pc = "chunk" /\ pc' \in {"idle", "chunk"}
    BY <1>11 DEF ChunkAnswer
  <2>2. UNCHANGED result \/ \E e : result' = [result EXCEPT !.expiry = e]
    BY <1>11 DEF ChunkAnswer
  <2> QED
    BY <1>A, <1>G, <2>1, <2>2
<1>12. CASE ChunkRaises
  <2>1. UNCHANGED <<text, fid, result>> /\ pc = "chunk" /\ pc' = "idle"
    BY <1>12 DEF ChunkRaises
  <2> QED
    BY <1>A, <2>1
<1>13. CASE UNCHANGED vars
  <2>1. UNCHANGED <<pc, text, fid, tmpl, placed, result>>
    BY <1>13 DEF vars
  <2>2. CASE pc \in {"records", "targeted"}
    BY <1>D, <1>E, <2>1, <2>2
  <2>3. CASE pc \notin {"records", "targeted"}
    <3>1. Done' = Done
      BY <2>1 DEF Done
    <3> QED
      BY <1>A, <2>1, <2>3, <3>1
  <2> QED
    BY <2>2, <2>3
<1> QED
  BY <1>1, <1>2, <1>3, <1>4, <1>5, <1>6, <1>7, <1>8, <1>9, <1>10, <1>11, <1>12, <1>13 DEF Next

(* It holds throughout.                                                       *)
LEMMA TracedAlways == Spec => []TracedInv
<1>1. Init => TracedInv
  BY TracedInit
<1>2. FactsInv /\ TracedInv /\ [Next]_vars => TracedInv'
  BY TracedNext
<1> QED
  BY <1>1, <1>2, FactsAlways, PTL DEF Spec

(* What the result states it can show: a required field is reported missing   *)
(* exactly when no cell of the result has a value of it; a value is "ok" only *)
(* if it stands on the page, outside the page markers, with every number in a *)
(* form the page prints it in; and a citation leads back to where the value,  *)
(* or a number of it, is printed, the cells of a row on one line (structure.py, *)
(* missing_required, make; provenance.py, Locator.locate, find).              *)
THEOREM FactsAreShown == Spec => []FactsAreBacked
<1>1. FactsInv /\ TracedInv => FactsAreBacked
  <2> SUFFICES ASSUME FactsInv, TracedInv PROVE FactsAreBacked
    OBVIOUS
  <2>1. Done => Claims(result)
    BY DEF FactsInv
  <2>2. UnverifiedNotFact
    BY <2>1 DEF Claims, Honest, UnverifiedNotFact
  <2>3. MissingHonest
    BY <2>1 DEF Claims, MissingHonest, Needed, Named
  <2>4. CitationsStand
    BY DEF TracedInv, Traced, CitationsStand
  <2> QED
    BY <2>2, <2>3, <2>4 DEF FactsAreBacked
<1> QED
  BY <1>1, FactsAlways, TracedAlways, PTL

-----------------------------------------------------------------------------
(* The windows the expiry model reads.                                        *)

(* A quotient is where its dividend falls.                                    *)
LEMMA QuotientIs ==
    ASSUME NEW a \in Nat, NEW d \in Nat, d > 0
    PROVE  /\ a \div d \in Nat /\ (a \div d) * d \in Nat
           /\ (a \div d) * d <= a /\ a < (a \div d) * d + d
  OBVIOUS

(* Fewer steps are no longer.                                                 *)
LEMMA FewerSteps ==
    ASSUME NEW a \in Nat, NEW b \in Nat, NEW d \in Nat, a <= b
    PROVE  a * d \in Nat /\ b * d \in Nat /\ a * d <= b * d
  OBVIOUS

(* Two neighbours are a list of two.                                          *)
LEMMA PairAt ==
    ASSUME NEW S, NEW t \in Seq(S), NEW j \in Nat, 1 <= j, j + 1 <= Len(t)
    PROVE  /\ SubSeq(t, j, j + 1) \in Seq(S) /\ Len(SubSeq(t, j, j + 1)) = 2
           /\ SubSeq(t, j, j + 1)[1] = t[j] /\ SubSeq(t, j, j + 1)[2] = t[j + 1]
  OBVIOUS

(* Two neighbours in a cut are two neighbours of the whole.                   *)
LEMMA PairIsSame ==
    ASSUME NEW S, NEW s \in Seq(S), NEW a \in Nat, NEW b \in Nat, a < b, b <= Len(s),
           NEW j \in 1..(b - a - 1)
    PROVE  /\ Len(SubSeq(s, a + 1, b)) = b - a
           /\ SubSeq(SubSeq(s, a + 1, b), j, j + 1) = SubSeq(s, a + j, a + j + 1)
<1> DEFINE t == SubSeq(s, a + 1, b)
           x == SubSeq(t, j, j + 1)
           k == a + j
           y == SubSeq(s, k, k + 1)
<1>1. /\ t \in Seq(S) /\ Len(t) = b - a
      /\ \A i \in 1..(b - a) : t[i] = s[a + i]
  OBVIOUS
<1> HIDE DEF t
<1>2. x \in Seq(S) /\ Len(x) = 2 /\ x[1] = t[j] /\ x[2] = t[j + 1]
  <2>1. j \in Nat /\ 1 <= j /\ j + 1 <= Len(t)
    BY <1>1
  <2> QED
    BY <1>1, <2>1, PairAt
<1>3. y \in Seq(S) /\ Len(y) = 2 /\ y[1] = s[a + j] /\ y[2] = s[a + j + 1]
  <2>1. k \in Nat /\ 1 <= k /\ k + 1 <= Len(s)
    OBVIOUS
  <2> HIDE DEF k
  <2>2. y \in Seq(S) /\ Len(y) = 2 /\ y[1] = s[k] /\ y[2] = s[k + 1]
    BY <2>1, PairAt
  <2> QED
    BY <2>2 DEF k
<1>4. t[j] = s[a + j] /\ t[j + 1] = s[a + j + 1]
  BY <1>1
<1> HIDE DEF x, y
<1>5. x = y
  BY <1>2, <1>3, <1>4
<1> QED
  BY <1>1, <1>5 DEF t, x, y

(* Every pair of neighbouring lines is whole in a window, while there is room *)
(* for windows.                                                               *)
Covers(w, s, limit) ==
    \/ Len(w) = limit
    \/ \A i \in 1..(Len(s) - 1) : \E c \in DOMAIN w : \E j \in 1..(Len(w[c]) - 1) :
            SubSeq(w[c], j, j + 1) = SubSeq(s, i, i + 1)

(* So the windows of _chunks do.                                              *)
LEMMA WindowsAre ==
    ASSUME NEW S, NEW s \in Seq(S), NEW size \in Nat, size > 1, NEW limit \in Nat, limit > 0,
           NEW w, w = _chunks(s, size, limit)
    PROVE  Covers(w, s, limit)
<1> DEFINE n == Len(s)
           d == size - 1
           m == (n - 1 + d - 1) \div d
           k == Min({m, limit})
           from(c) == (c - 1) * d
           upto(c) == Min({n, (c - 1) * d + size})
<1>1. n \in Nat /\ d \in Nat /\ d > 0
  OBVIOUS
<1>2. CASE n <= size
  <2>1. w = <<s>>
    BY <1>2 DEF _chunks
  <2>2. DOMAIN w = {1} /\ w[1] = s
    BY <2>1
  <2> QED
    BY <2>2 DEF Covers
<1>3. CASE n > size
  <2>1. w = [c \in 1..k |-> SubSeq(s, from(c) + 1, upto(c))]
    BY <1>3 DEF _chunks
  <2>2. m \in Nat /\ m * d \in Nat /\ n - 1 + d - 1 < m * d + d
    <3> DEFINE a == n - 1 + d - 1
    <3>1. a \in Nat
      BY <1>1, <1>3
    <3>2. m = a \div d
      OBVIOUS
    <3> HIDE DEF a, m, d
    <3>3. m \in Nat /\ m * d \in Nat /\ a < m * d + d
      BY <1>1, <3>1, <3>2, QuotientIs
    <3> QED
      BY <3>3 DEF a
  <2> HIDE DEF m
  <2>3. k = (IF m <= limit THEN m ELSE limit) /\ k \in Nat
    BY <2>2, MinOfTwo
  <2> HIDE DEF k
  <2>4. Len(w) = k /\ DOMAIN w = 1..k
    BY <2>1, <2>3
  <2>5. CASE limit < m
    BY <2>2, <2>3, <2>4, <2>5 DEF Covers
  <2>6. CASE m <= limit
    <3> SUFFICES ASSUME NEW i \in 1..(n - 1)
                 PROVE  \E c \in DOMAIN w : \E j \in 1..(Len(w[c]) - 1) :
                            SubSeq(w[c], j, j + 1) = SubSeq(s, i, i + 1)
      BY DEF Covers
    <3> DEFINE q == (i - 1) \div d
               a == q * d
               c == q + 1
               j == i - a
               b == upto(c)
    <3>1. q \in Nat /\ a \in Nat /\ a <= i - 1 /\ i - 1 < a + d
      <4> DEFINE h == i - 1
      <4>1. h \in Nat
        BY <1>1
      <4> HIDE DEF h, d
      <4>2. /\ h \div d \in Nat /\ (h \div d) * d \in Nat
            /\ (h \div d) * d <= h /\ h < (h \div d) * d + d
        BY <1>1, <4>1, QuotientIs
      <4> QED
        BY <4>2 DEF h
    <3>2. n - 1 <= m * d
      BY <1>1, <2>2
    <3>3. q < m
      <4> SUFFICES ASSUME m <= q PROVE FALSE
        BY <2>2, <3>1
      <4> HIDE DEF q, d
      <4>1. m * d <= q * d
        BY <1>1, <2>2, <3>1, FewerSteps
      <4> QED
        BY <1>1, <2>2, <3>1, <3>2, <4>1
    <3>4. c \in DOMAIN w
      BY <2>2, <2>3, <2>4, <2>6, <3>1, <3>3
    <3>5. from(c) = a /\ b = Min({n, a + size})
      <4> HIDE DEF q, d
      <4>1. c - 1 = q
        BY <3>1
      <4> HIDE DEF c
      <4> QED
        BY <4>1
    <3> HIDE DEF q, b
    <3>6. b = IF n <= a + size THEN n ELSE a + size
      <4> HIDE DEF a
      <4> QED
        BY <1>1, <3>1, <3>5, MinOfTwo
    <3>7. w[c] = SubSeq(s, a + 1, b)
      <4> HIDE DEF c, a
      <4>1. w[c] = SubSeq(s, from(c) + 1, upto(c))
        BY <2>1, <2>4, <3>4
      <4> QED
        BY <3>5, <4>1 DEF b
    <3> HIDE DEF a, c
    <3>8. a < b /\ b <= n /\ b \in Nat /\ j \in 1..(b - a - 1)
      BY <1>1, <3>1, <3>6
    <3>9. Len(w[c]) = b - a /\ SubSeq(w[c], j, j + 1) = SubSeq(s, a + j, a + j + 1)
      <4> HIDE DEF j, d
      <4> QED
        BY <3>1, <3>7, <3>8, PairIsSame
    <3>10. a + j = i
      BY <3>1
    <3>11. SubSeq(w[c], j, j + 1) = SubSeq(s, i, i + 1)
      BY <3>9, <3>10
    <3> QED
      BY <3>4, <3>8, <3>9, <3>11
  <2> QED
    BY <2>2, <2>5, <2>6
<1> QED
  BY <1>1, <1>2, <1>3

(* Before the model is believed to have seen nothing, every line and every    *)
(* pair of neighbours was in one of its windows, or the limit was reached     *)
(* (expiry.py, _chunks).                                                      *)
LEMMA WindowsAlways == FactsInv => WindowsCover
<1> SUFFICES ASSUME FactsInv, pc = "chunk" PROVE WindowsCover
  BY DEF WindowsCover
<1>1. text \in DOMAIN DOCS
  BY DEF FactsInv, DataInv
<1> DEFINE s == Lines(text)
           w == Windows
<1>2. s \in Seq(PageLines)
  <2>1. IsList(s) /\ Range(s) \subseteq PageLines
    BY <1>1, TextAssumption DEF Lines, PageLines
  <2> QED
    BY <2>1, ListInSeq
<1>3. EXPIRY_LINES \in Nat /\ EXPIRY_LINES > 1 /\ MAX_CHUNKS \in Nat /\ MAX_CHUNKS > 0
  BY LimitAssumption
<1>4. w = _chunks(s, EXPIRY_LINES, MAX_CHUNKS)
  BY DEF Windows
<1>5. Covers(w, s, MAX_CHUNKS)
  <2> HIDE DEF s, w
  <2> QED
    BY <1>2, <1>3, <1>4, WindowsAre
<1> QED
  BY <1>5 DEF Covers, WindowsCover

-----------------------------------------------------------------------------
(* Lists end to end.                                                          *)

(* The order of joining does not matter, and nothing adds nothing.            *)
LEMMA JoinedIs ==
    ASSUME NEW S, NEW a \in Seq(S), NEW b \in Seq(S), NEW c \in Seq(S)
    PROVE  /\ (a \o b) \o c = a \o (b \o c) /\ a \o b \in Seq(S)
           /\ a \o <<>> = a /\ <<>> \o a = a /\ <<>> \in Seq(S)
<1>1. (a \o b) \o c = a \o (b \o c)
  <2> DEFINE x == (a \o b) \o c
             y == a \o (b \o c)
  <2>1. x \in Seq(S) /\ y \in Seq(S) /\ Len(x) = Len(y)
    OBVIOUS
  <2>2. \A i \in 1..Len(x) : x[i] = y[i]
    OBVIOUS
  <2> HIDE DEF x, y
  <2>3. x = y
    BY <2>1, <2>2
  <2> QED
    BY <2>3 DEF x, y
<1>2. a \o <<>> = a /\ <<>> \o a = a /\ <<>> \in Seq(S) /\ a \o b \in Seq(S)
  OBVIOUS
<1> QED
  BY <1>1, <1>2

(* A list is built up one at a time.                                          *)
LEMMA BuiltUp ==
    ASSUME NEW S, NEW s \in Seq(S)
    PROVE  /\ SubSeq(s, 1, 0) = <<>> /\ SubSeq(s, 1, Len(s)) = s
           /\ \A i \in 1..Len(s) : /\ SubSeq(s, 1, i - 1) \in Seq(S)
                                   /\ SubSeq(s, 1, i) = Append(SubSeq(s, 1, i - 1), s[i])
<1>1. SubSeq(s, 1, 0) = <<>> /\ SubSeq(s, 1, Len(s)) = s
  OBVIOUS
<1>2. ASSUME NEW i \in 1..Len(s)
      PROVE  /\ SubSeq(s, 1, i - 1) \in Seq(S)
             /\ SubSeq(s, 1, i) = Append(SubSeq(s, 1, i - 1), s[i])
  <2> DEFINE x == SubSeq(s, 1, i)
             z == SubSeq(s, 1, i - 1)
             y == Append(z, s[i])
  <2>1. x \in Seq(S) /\ Len(x) = i /\ \A k \in 1..i : x[k] = s[k]
    OBVIOUS
  <2>2. z \in Seq(S) /\ Len(z) = i - 1 /\ \A k \in 1..(i - 1) : z[k] = s[k]
    OBVIOUS
  <2>3. s[i] \in S /\ i \in Nat
    OBVIOUS
  <2> HIDE DEF x, z
  <2>4. y \in Seq(S) /\ Len(y) = i /\ \A k \in 1..i : y[k] = s[k]
    <3>1. y \in Seq(S) /\ Len(y) = i /\ y[i] = s[i] /\ \A k \in 1..(i - 1) : y[k] = z[k]
      BY <2>2, <2>3
    <3>2. \A k \in 1..i : k = i \/ k \in 1..(i - 1)
      BY <2>3
    <3> HIDE DEF y
    <3> QED
      BY <2>2, <3>1, <3>2
  <2> HIDE DEF y
  <2>5. x = y
    BY <2>1, <2>4
  <2> QED
    BY <2>2, <2>5 DEF x, y, z
<1> QED
  BY <1>1, <1>2

(* One list more is flattened onto the rest.                                  *)
LEMMA FlattenMore ==
    ASSUME NEW S, NEW ss \in Seq(Seq(S)), NEW x \in Seq(S)
    PROVE  /\ FlattenSeq(Append(ss, x)) = FlattenSeq(ss) \o x
           /\ FlattenSeq(ss) \in Seq(S) /\ FlattenSeq(<<>>) = <<>> /\ FlattenSeq(<<x>>) = x
<1> DEFINE W == Seq(S)
           n == Len(ss)
           tt == Append(ss, x)
<1>0. FlattenSeq(<<>>) = <<>>
  BY DEF FlattenSeq
<1>1. n \in Nat /\ tt \in Seq(W) /\ tt # <<>> /\ Len(tt) = n + 1 /\ tt[n + 1] = x
      /\ \A i \in 1..n : tt[i] = ss[i]
  <2> HIDE DEF W
  <2>1. ss \in Seq(W) /\ x \in W
    BY DEF W
  <2> QED
    BY <2>1
<1> HIDE DEF tt
<1>2. PICK h \in [1..(n + 1) -> W] :
            /\ h[1] = tt[1] /\ FlattenSeq(tt) = h[n + 1]
            /\ \A i \in 2..(n + 1) : h[i] = h[i - 1] \o tt[i]
  <2>0. tt \in Seq(Seq(S)) /\ tt # <<>>
    BY <1>1
  <2>1. PICK h \in [1..Len(tt) -> Seq(S)] :
            /\ h[1] = tt[1] /\ FlattenSeq(tt) = h[Len(tt)]
            /\ \A i \in 2..Len(tt) : h[i] = h[i - 1] \o tt[i]
    BY <2>0, FlattenIs
  <2>2. Len(tt) = n + 1
    BY <1>1
  <2> HIDE DEF n
  <2> QED
    BY <2>1, <2>2
<1>3. CASE ss = <<>>
  <2>1. n = 0
    BY <1>3
  <2>2. FlattenSeq(tt) = x
    BY <1>1, <1>2, <2>1
  <2>3. <<>> \o x = x /\ <<>> \in Seq(S)
    BY JoinedIs
  <2>4. tt = <<x>>
    BY <1>3 DEF tt
  <2> QED
    BY <1>0, <1>3, <2>2, <2>3, <2>4 DEF tt
<1>4. CASE ss # <<>>
  <2>1. PICK f \in [1..n -> W] :
            /\ f[1] = ss[1] /\ FlattenSeq(ss) = f[n]
            /\ \A i \in 2..n : f[i] = f[i - 1] \o ss[i]
    BY <1>4, FlattenIs
  <2>2. n > 0
    BY <1>4
  <2> HIDE DEF n, W
  <2> DEFINE G == {i \in 0..n : i = 0 \/ h[i] = f[i]}
  <2>3. ASSUME NEW i \in 1..n, i - 1 \in G PROVE i \in G
    <3>1. CASE i = 1
      BY <1>1, <1>2, <2>1, <2>2, <3>1
    <3>2. CASE i # 1
      <4>1. i \in 2..n /\ i \in 2..(n + 1) /\ i - 1 # 0
        BY <1>1, <3>2
      <4>2. h[i - 1] = f[i - 1]
        BY <2>3, <4>1
      <4>3. h[i] = h[i - 1] \o tt[i] /\ tt[i] = ss[i]
        BY <1>1, <1>2, <4>1
      <4>4. f[i] = f[i - 1] \o ss[i]
        BY <2>1, <4>1
      <4>5. h[i] = f[i] /\ i \in 0..n
        BY <1>1, <4>2, <4>3, <4>4
      <4> QED
        BY <4>5
    <3> QED
      BY <3>1, <3>2
  <2>4. \A i \in 0..n : i \in G
    <3>1. 0 \in G
      BY <1>1
    <3> HIDE DEF G
    <3> QED
      BY <1>1, <2>3, <3>1, UpTo
  <2>5. h[n] = f[n]
    BY <1>1, <2>2, <2>4
  <2>6. h[n + 1] = h[n] \o x /\ n \in 1..n
    <3>1. n + 1 \in 2..(n + 1) /\ (n + 1) - 1 = n /\ n \in 1..n
      BY <1>1, <2>2
    <3>2. h[n + 1] = h[(n + 1) - 1] \o tt[n + 1]
      BY <1>2, <3>1
    <3>3. tt[n + 1] = x
      BY <1>1
    <3> QED
      BY <3>1, <3>2, <3>3
  <2>7. FlattenSeq(ss) \in Seq(S)
    BY <2>1, <2>6 DEF W
  <2>8. FlattenSeq(tt) = FlattenSeq(ss) \o x
    BY <1>2, <2>1, <2>5, <2>6
  <2>9. FlattenSeq(<<x>>) = x
    <3>1. <<x>> \in Seq(Seq(S)) /\ <<x>> # <<>> /\ Len(<<x>>) = 1 /\ <<x>>[1] = x
      OBVIOUS
    <3>2. PICK g \in [1..Len(<<x>>) -> Seq(S)] :
            /\ g[1] = <<x>>[1] /\ FlattenSeq(<<x>>) = g[Len(<<x>>)]
            /\ \A i \in 2..Len(<<x>>) : g[i] = g[i - 1] \o <<x>>[i]
      BY <3>1, FlattenIs
    <3> QED
      BY <3>1, <3>2
  <2> QED
    BY <1>0, <2>7, <2>8, <2>9 DEF tt
<1> QED
  BY <1>3, <1>4

(* Lists of lists are flattened end to end.                                   *)
LEMMA FlattenBoth ==
    ASSUME NEW S, NEW a \in Seq(Seq(S)), NEW b \in Seq(Seq(S))
    PROVE  /\ FlattenSeq(a \o b) = FlattenSeq(a) \o FlattenSeq(b)
           /\ FlattenSeq(a) \in Seq(S) /\ FlattenSeq(b) \in Seq(S)
           /\ FlattenSeq(<<>>) = <<>>
<1> DEFINE W == Seq(S)
           n == Len(b)
           pre(i) == SubSeq(b, 1, i)
           G == {i \in 0..n : FlattenSeq(a \o pre(i)) = FlattenSeq(a) \o FlattenSeq(pre(i))}
<1>0. \A s \in Seq(W) : FlattenSeq(s) \in W
  <2>1. <<>> \in W
    OBVIOUS
  <2> QED
    BY <2>1, FlattenMore
<1>1. n \in Nat /\ pre(0) = <<>> /\ pre(n) = b
      /\ \A i \in 1..n : pre(i - 1) \in Seq(W) /\ pre(i) = Append(pre(i - 1), b[i])
                         /\ b[i] \in W
  <2>1. n \in Nat /\ \A i \in 1..n : b[i] \in W
    OBVIOUS
  <2>2. /\ pre(0) = <<>> /\ pre(n) = b
        /\ \A i \in 1..n : pre(i - 1) \in Seq(W) /\ pre(i) = Append(pre(i - 1), b[i])
    <3> HIDE DEF W
    <3>1. b \in Seq(W)
      BY DEF W
    <3> QED
      BY <3>1, BuiltUp
  <2> HIDE DEF W, n, pre
  <2> QED
    BY <2>1, <2>2
<1>2. FlattenSeq(<<>>) = <<>>
  BY DEF FlattenSeq
<1> HIDE DEF pre, n
<1>3. 0 \in G
  <2>1. a \o <<>> = a
    OBVIOUS
  <2>2. FlattenSeq(a) \in W
    BY <1>0
  <2>3. FlattenSeq(a) \o <<>> = FlattenSeq(a)
    BY <2>2
  <2>4. pre(0) = <<>> /\ 0 \in 0..n
    BY <1>1
  <2>5. FlattenSeq(a \o pre(0)) = FlattenSeq(a) \o FlattenSeq(pre(0))
    BY <1>2, <2>1, <2>3, <2>4
  <2> QED
    BY <2>4, <2>5
<1>4. ASSUME NEW i \in 1..n, i - 1 \in G PROVE i \in G
  <2> DEFINE p == pre(i - 1)
             x == b[i]
  <2>1. p \in Seq(W) /\ x \in W /\ pre(i) = Append(p, x)
    BY <1>1
  <2>2. FlattenSeq(a \o p) = FlattenSeq(a) \o FlattenSeq(p)
    BY <1>4
  <2> HIDE DEF p, x
  <2>3. a \o Append(p, x) = Append(a \o p, x) /\ a \o p \in Seq(W)
    <3> HIDE DEF W
    <3>1. a \in Seq(W)
      BY DEF W
    <3> QED
      BY <2>1, <3>1
  <2>4. FlattenSeq(Append(a \o p, x)) = FlattenSeq(a \o p) \o x
    BY <2>1, <2>3, FlattenMore
  <2>5. FlattenSeq(Append(p, x)) = FlattenSeq(p) \o x
    BY <2>1, FlattenMore
  <2>6. (FlattenSeq(a) \o FlattenSeq(p)) \o x = FlattenSeq(a) \o (FlattenSeq(p) \o x)
    <3>1. FlattenSeq(a) \in W /\ FlattenSeq(p) \in W
      BY <1>0, <2>1
    <3> QED
      BY <2>1, <3>1, JoinedIs
  <2>7. FlattenSeq(a \o pre(i)) = FlattenSeq(a) \o FlattenSeq(pre(i))
    BY <2>1, <2>2, <2>3, <2>4, <2>5, <2>6
  <2>8. i \in 0..n
    BY <1>1
  <2> QED
    BY <2>7, <2>8
<1>5. \A i \in 0..n : i \in G
  <2> HIDE DEF G
  <2> QED
    BY <1>1, <1>3, <1>4, UpTo
<1>6. n \in 0..n
  BY <1>1
<1>7. FlattenSeq(a \o b) = FlattenSeq(a) \o FlattenSeq(b)
  <2>1. FlattenSeq(a \o pre(n)) = FlattenSeq(a) \o FlattenSeq(pre(n))
    BY <1>5, <1>6
  <2>2. pre(n) = b
    BY <1>1
  <2> QED
    BY <2>1, <2>2
<1>8. FlattenSeq(a) \in W /\ FlattenSeq(b) \in W
  BY <1>0
<1> QED
  BY <1>2, <1>7, <1>8

(* A list for each member of a list, end to end.                              *)
FlatBy(m, cs) == FlattenSeq([i \in DOMAIN cs |-> m[cs[i]]])

(* Two lists end to end are the one, then the other.                          *)
LEMMA EndToEnd ==
    ASSUME NEW S, NEW a \in Seq(S), NEW b \in Seq(S)
    PROVE  /\ a \o b \in Seq(S) /\ Len(a \o b) = Len(a) + Len(b)
           /\ Len(a) \in Nat /\ Len(b) \in Nat
           /\ \A i \in 1..Len(a) : (a \o b)[i] = a[i]
           /\ \A i \in 1..Len(b) : (a \o b)[Len(a) + i] = b[i]
  OBVIOUS

(* The lists of two lists' members are those of the first, then the second's. *)
EndToEndBy(C, S, m, a, b) ==
    /\ FlatBy(m, a \o b) = FlatBy(m, a) \o FlatBy(m, b)
    /\ FlatBy(m, a) \in Seq(S) /\ FlatBy(m, <<>>) = <<>>

(* They are.                                                                  *)
LEMMA FlatByIs ==
    ASSUME NEW C, NEW S, NEW m \in [C -> Seq(S)], NEW a \in Seq(C), NEW b \in Seq(C)
    PROVE  EndToEndBy(C, S, m, a, b)
<1> DEFINE W == Seq(S)
           M(s) == [i \in DOMAIN s |-> m[s[i]]]
<1>1. ASSUME NEW s \in Seq(C)
      PROVE  M(s) \in Seq(W) /\ Len(M(s)) = Len(s) /\ \A i \in 1..Len(s) : M(s)[i] = m[s[i]]
  <2>1. DOMAIN s = 1..Len(s) /\ Len(s) \in Nat /\ \A i \in 1..Len(s) : s[i] \in C
    BY <1>1
  <2> DEFINE t == M(s)
             n == Len(s)
  <2>2. t = [i \in 1..n |-> m[s[i]]]
    BY <2>1
  <2>3. \A i \in 1..n : m[s[i]] \in W
    BY <2>1
  <2> HIDE DEF t, W, n
  <2>4. n \in Nat
    BY <2>1 DEF n
  <2>5. t \in Seq(W) /\ Len(t) = n /\ \A i \in 1..n : t[i] = m[s[i]]
    BY <2>2, <2>3, <2>4
  <2> QED
    BY <2>5 DEF t, n
<1> HIDE DEF M, W
<1>2. M(a \o b) = M(a) \o M(b)
  <2> DEFINE ab == a \o b
             x == M(ab)
             ma == M(a)
             mb == M(b)
             y == ma \o mb
  <2>1. ab \in Seq(C) /\ Len(ab) = Len(a) + Len(b) /\ Len(a) \in Nat /\ Len(b) \in Nat
        /\ (\A i \in 1..Len(a) : ab[i] = a[i])
        /\ \A i \in 1..Len(b) : ab[Len(a) + i] = b[i]
    BY EndToEnd
  <2>2. x \in Seq(W) /\ Len(x) = Len(ab) /\ \A i \in 1..Len(ab) : x[i] = m[ab[i]]
    <3> HIDE DEF ab
    <3> QED
      BY <1>1, <2>1
  <2>3. ma \in Seq(W) /\ Len(ma) = Len(a) /\ \A i \in 1..Len(a) : ma[i] = m[a[i]]
    BY <1>1
  <2>4. mb \in Seq(W) /\ Len(mb) = Len(b) /\ \A i \in 1..Len(b) : mb[i] = m[b[i]]
    BY <1>1
  <2> HIDE DEF x, ab, ma, mb, W, M
  <2>5. y = ma \o mb
    OBVIOUS
  <2> HIDE DEF y
  <2>6. y \in Seq(W) /\ Len(y) = Len(a) + Len(b)
        /\ (\A i \in 1..Len(a) : y[i] = ma[i])
        /\ \A i \in 1..Len(b) : y[Len(a) + i] = mb[i]
    <3>0. ma \in Seq(W) /\ mb \in Seq(W)
      BY <2>3, <2>4
    <3>1. ma \o mb \in Seq(W) /\ Len(ma \o mb) = Len(ma) + Len(mb)
      BY <3>0, EndToEnd
    <3>2. \A i \in 1..Len(ma) : (ma \o mb)[i] = ma[i]
      BY <3>0, EndToEnd
    <3>3. \A i \in 1..Len(mb) : (ma \o mb)[Len(ma) + i] = mb[i]
      BY <3>0, EndToEnd
    <3> QED
      BY <2>3, <2>4, <2>5, <3>1, <3>2, <3>3
  <2>7. ASSUME NEW i \in 1..Len(ab) PROVE x[i] = y[i]
    <3>1. CASE i <= Len(a)
      <4>1. i \in 1..Len(a)
        BY <2>1, <3>1
      <4> QED
        BY <2>1, <2>2, <2>3, <2>6, <4>1
    <3>2. CASE ~(i <= Len(a))
      <4>1. PICK k \in 1..Len(b) : i = Len(a) + k
        <5>1. i - Len(a) \in 1..Len(b) /\ i = Len(a) + (i - Len(a))
          BY <2>1, <3>2
        <5> QED
          BY <5>1
      <4>2. ab[i] = b[k] /\ y[i] = mb[k]
        BY <2>1, <2>6, <4>1
      <4> QED
        BY <2>2, <2>4, <4>1, <4>2
    <3> QED
      BY <3>1, <3>2
  <2>8. x = y
    BY <2>1, <2>2, <2>6, <2>7
  <2> QED
    BY <2>8 DEF x, y, ab, ma, mb
<1>3. M(a) \in Seq(W) /\ M(b) \in Seq(W)
  BY <1>1
<1> DEFINE ma == M(a)
           mb == M(b)
<1>4. FlattenSeq(ma \o mb) = FlattenSeq(ma) \o FlattenSeq(mb) /\ FlattenSeq(ma) \in Seq(S)
      /\ FlattenSeq(<<>>) = <<>>
  <2> HIDE DEF ma, mb
  <2>1. ma \in Seq(Seq(S)) /\ mb \in Seq(Seq(S))
    BY <1>3 DEF ma, mb, W
  <2> QED
    BY <2>1, FlattenBoth
<1>5. M(<<>>) = <<>>
  BY DEF M
<1>6. FlatBy(m, a \o b) = FlattenSeq(M(a \o b)) /\ FlatBy(m, a) = FlattenSeq(ma)
      /\ FlatBy(m, b) = FlattenSeq(mb) /\ FlatBy(m, <<>>) = FlattenSeq(M(<<>>))
  BY DEF FlatBy, M
<1> QED
  BY <1>2, <1>4, <1>5, <1>6 DEF ma, mb, EndToEndBy

(* A list of one has the list of that one.                                    *)
LEMMA FlatByOne ==
    ASSUME NEW C, NEW S, NEW m \in [C -> Seq(S)], NEW c \in C
    PROVE  FlatBy(m, <<c>>) = m[c]
<1> DEFINE x == m[c]
<1>1. [i \in DOMAIN <<c>> |-> m[<<c>>[i]]] = <<x>>
  OBVIOUS
<1>2. x \in Seq(S)
  OBVIOUS
<1> HIDE DEF x
<1>3. FlattenSeq(<<x>>) = x
  <2>1. <<>> \in Seq(Seq(S))
    OBVIOUS
  <2> QED
    BY <1>2, <2>1, FlattenMore
<1> QED
  BY <1>1, <1>3 DEF FlatBy, x

(* What is left of a list after its first, and its first.                     *)
LEMMA FirstAndRest ==
    ASSUME NEW C, NEW s \in Seq(C), s # <<>>
    PROVE  /\ Head(s) \in C /\ Tail(s) \in Seq(C) /\ s = <<Head(s)>> \o Tail(s)
           /\ Len(Tail(s)) = Len(s) - 1 /\ Len(s) \in Nat \ {0}
           /\ \A i \in 1..(Len(s) - 1) : Tail(s)[i] = s[i + 1]
<1>1. Head(s) \in C /\ Tail(s) \in Seq(C) /\ Len(Tail(s)) = Len(s) - 1 /\ Len(s) \in Nat \ {0}
      /\ Head(s) = s[1] /\ \A i \in 1..(Len(s) - 1) : Tail(s)[i] = s[i + 1]
  OBVIOUS
<1> DEFINE h == Head(s)
           t == Tail(s)
           y == <<h>> \o t
<1> HIDE DEF h, t
<1>2. y \in Seq(C) /\ Len(y) = 1 + Len(t) /\ y[1] = h
      /\ \A i \in 1..Len(t) : y[1 + i] = t[i]
  BY <1>1 DEF h, t
<1> HIDE DEF y
<1>3. ASSUME NEW i \in 1..Len(s) PROVE y[i] = s[i]
  <2>1. i = 1 \/ (i - 1 \in 1..(Len(s) - 1) /\ 1 + (i - 1) = i /\ (i - 1) + 1 = i)
    BY <1>1
  <2>2. CASE i = 1
    BY <1>1, <1>2, <2>2 DEF h
  <2>3. CASE i - 1 \in 1..(Len(s) - 1) /\ 1 + (i - 1) = i /\ (i - 1) + 1 = i
    <3>1. y[1 + (i - 1)] = t[i - 1]
      BY <1>1, <1>2, <2>3 DEF t
    <3>2. t[i - 1] = s[(i - 1) + 1]
      BY <1>1, <2>3 DEF t
    <3> QED
      BY <2>3, <3>1, <3>2
  <2> QED
    BY <2>1, <2>2, <2>3
<1>4. Len(y) = Len(s)
  BY <1>1, <1>2 DEF t
<1>5. y = s
  BY <1>2, <1>3, <1>4
<1> QED
  BY <1>1, <1>5 DEF y, h, t

(* The fields of some sections, in order.                                     *)
FieldsOf(secs) == FlattenSeq([s \in DOMAIN secs |-> secs[s].fields])

(* The fields of two lists of sections are the one's, then the other's.       *)
LEMMA FieldsOfBoth ==
    ASSUME NEW a \in Sections, NEW b \in Sections
    PROVE  /\ FieldsOf(a \o b) = FieldsOf(a) \o FieldsOf(b) /\ a \o b \in Sections
           /\ FieldsOf(a) \in Seq(Found) /\ FieldsOf(<<>>) = <<>>
<1> DEFINE m == [x \in Section |-> x.fields]
           R == Section
<1>1. m \in [R -> Seq(Found)]
  BY DEF Section
<1>2. a \in Seq(R) /\ b \in Seq(R)
  BY DEF Sections
<1>3. ASSUME NEW s \in Seq(R) PROVE FieldsOf(s) = FlatBy(m, s)
  <2>1. \A i \in DOMAIN s : m[s[i]] = s[i].fields
    <3>1. \A i \in DOMAIN s : s[i] \in R
      <4> HIDE DEF R
      <4> QED
        BY <1>3
    <3> QED
      BY <3>1
  <2>2. [i \in DOMAIN s |-> m[s[i]]] = [i \in DOMAIN s |-> s[i].fields]
    <3> HIDE DEF m
    <3> QED
      BY <2>1
  <2> HIDE DEF m
  <2> QED
    BY <2>2 DEF FlatBy, FieldsOf
<1> HIDE DEF m, R
<1>4. a \o b \in Seq(R) /\ <<>> \in Seq(R)
  BY <1>2
<1>5. FlatBy(m, a \o b) = FlatBy(m, a) \o FlatBy(m, b) /\ FlatBy(m, a) \in Seq(Found)
      /\ FlatBy(m, <<>>) = <<>>
  <2>1. EndToEndBy(R, Found, m, a, b)
    BY <1>1, <1>2, FlatByIs
  <2> QED
    BY <2>1 DEF EndToEndBy
<1>6. FieldsOf(a \o b) = FlatBy(m, a \o b) /\ FieldsOf(a) = FlatBy(m, a)
      /\ FieldsOf(b) = FlatBy(m, b) /\ FieldsOf(<<>>) = FlatBy(m, <<>>)
  BY <1>2, <1>3, <1>4
<1> QED
  BY <1>4, <1>5, <1>6 DEF R, Sections

(* One section has its own fields.                                            *)
LEMMA FieldsOfOne ==
    ASSUME NEW s \in Section
    PROVE  FieldsOf(<<s>>) = s.fields /\ <<s>> \in Sections
<1>1. <<s>> \in Sections
  <2> DEFINE R == Section
  <2>1. s \in R
    OBVIOUS
  <2> HIDE DEF R
  <2>2. <<s>> \in Seq(R)
    BY <2>1
  <2> QED
    BY <2>2 DEF R, Sections
<1> DEFINE x == s.fields
<1>2. x \in Seq(Found)
  BY DEF Section
<1>3. [i \in DOMAIN <<s>> |-> <<s>>[i].fields] = <<x>>
  OBVIOUS
<1> HIDE DEF x
<1>4. FlattenSeq(<<x>>) = x
  <2>1. <<>> \in Seq(Seq(Found))
    OBVIOUS
  <2> QED
    BY <1>2, <2>1, FlattenMore
<1> QED
  BY <1>1, <1>3, <1>4 DEF FieldsOf, x

(* A list with its last changed is what came before it, and the change.       *)
LEMMA LastChanged ==
    ASSUME NEW R, NEW s \in Seq(R), s # <<>>, NEW x \in R
    PROVE  /\ SubSeq(s, 1, Len(s) - 1) \in Seq(R) /\ s[Len(s)] \in R
           /\ s = SubSeq(s, 1, Len(s) - 1) \o <<s[Len(s)]>>
           /\ [s EXCEPT ![Len(s)] = x] = SubSeq(s, 1, Len(s) - 1) \o <<x>>
<1> DEFINE n == Len(s)
           p == SubSeq(s, 1, n - 1)
<1>1. n \in Nat \ {0} /\ n \in 1..n /\ s[n] \in R
  OBVIOUS
<1>2. p \in Seq(R) /\ Len(p) = n - 1 /\ \A i \in 1..(n - 1) : p[i] = s[i]
  <2> DEFINE h == n - 1
             q == SubSeq(s, 1, h)
  <2>1. h \in Nat /\ h <= Len(s)
    BY <1>1
  <2> HIDE DEF h
  <2>2. q \in Seq(R) /\ Len(q) = h /\ \A i \in 1..h : q[i] = s[i]
    BY <2>1
  <2> QED
    BY <2>2 DEF h
<1> HIDE DEF p
<1>3. ASSUME NEW z \in R
      PROVE  /\ p \o <<z>> \in Seq(R) /\ Len(p \o <<z>>) = n /\ (p \o <<z>>)[n] = z
             /\ \A i \in 1..(n - 1) : (p \o <<z>>)[i] = s[i]
  <2> DEFINE y == p \o <<z>>
  <2>1. <<z>> \in Seq(R) /\ Len(<<z>>) = 1 /\ <<z>>[1] = z
    OBVIOUS
  <2>2. y \in Seq(R) /\ Len(y) = Len(p) + 1
    BY <1>2, <2>1
  <2>3. \A i \in 1..Len(p) : y[i] = p[i]
    BY <1>2, <2>1
  <2>4. y[Len(p) + 1] = z
    BY <1>2, <2>1
  <2> HIDE DEF y
  <2> QED
    BY <1>1, <1>2, <2>2, <2>3, <2>4 DEF y
<1> DEFINE e == [s EXCEPT ![n] = x]
<1>4. e \in Seq(R) /\ Len(e) = n /\ e[n] = x /\ \A i \in 1..(n - 1) : e[i] = s[i]
  BY <1>1
<1> HIDE DEF e
<1>5. \A i \in 1..n : i = n \/ i \in 1..(n - 1)
  BY <1>1
<1> DEFINE v == p \o <<x>>
           w == p \o <<s[n]>>
<1>6. v \in Seq(R) /\ Len(v) = n /\ v[n] = x /\ \A i \in 1..(n - 1) : v[i] = s[i]
  BY <1>3
<1>7. w \in Seq(R) /\ Len(w) = n /\ w[n] = s[n] /\ \A i \in 1..(n - 1) : w[i] = s[i]
  BY <1>1, <1>3
<1> HIDE DEF v, w
<1>8. \A i \in 1..n : e[i] = v[i]
  BY <1>4, <1>5, <1>6
<1>9. \A i \in 1..n : s[i] = w[i]
  BY <1>5, <1>7
<1>10. e = v /\ s = w
  BY <1>4, <1>6, <1>7, <1>8, <1>9
<1> QED
  BY <1>1, <1>2, <1>10 DEF e, v, w, p

(* Joining a section adds its fields after the others.                        *)
LEMMA JoinKeeps ==
    ASSUME NEW secs \in Sections, NEW s \in Section
    PROVE  FieldsOf(Join(secs, s)) = FieldsOf(secs) \o s.fields
<1> DEFINE R == Section
           n == Len(secs)
           last == secs[n]
<1>1. secs \in Seq(R) /\ s \in R
  BY DEF Sections
<1>2. <<s>> \in Sections /\ FieldsOf(<<s>>) = s.fields
  BY FieldsOfOne
<1>3. CASE secs # <<>> /\ last.title = s.title
  <2> DEFINE p == SubSeq(secs, 1, n - 1)
             F == Seq(Found)
             old == last.fields
             more == s.fields
             x == [last EXCEPT !.fields = old \o more]
  <2>1. last \in R
    <3> HIDE DEF R
    <3> QED
      BY <1>1, <1>3
  <2>2. old \in F /\ more \in F
    BY <2>1 DEF Section
  <2>3. old \o more \in F
    BY <2>2
  <2>4. x \in R /\ x.fields = old \o more
    <3> DEFINE both == old \o more
    <3> HIDE DEF last, both
    <3>1. both \in F
      BY <2>3 DEF both
    <3>2. [last EXCEPT !.fields = both] \in R /\ [last EXCEPT !.fields = both].fields = both
      <4> HIDE DEF F
      <4>1. last \in [title : {line.head : line \in DocLines} \cup {""}, fields : F]
        BY <2>1 DEF Section, F
      <4> QED
        BY <3>1, <4>1 DEF Section, F
    <3> QED
      BY <3>2 DEF both
  <2>5. Join(secs, s) = [secs EXCEPT ![n] = x]
    BY <1>3 DEF Join
  <2> HIDE DEF x, R, last, old, more
  <2>6. p \in Seq(R) /\ secs = p \o <<last>> /\ [secs EXCEPT ![n] = x] = p \o <<x>>
    BY <1>1, <1>3, <2>4, LastChanged DEF last
  <2> HIDE DEF p, n
  <2>7. p \in Sections /\ last \in Section /\ x \in Section
    BY <2>1, <2>4, <2>6 DEF R, Sections
  <2>8. /\ <<last>> \in Sections /\ FieldsOf(<<last>>) = old
        /\ <<x>> \in Sections /\ FieldsOf(<<x>>) = old \o more
    BY <2>4, <2>7, FieldsOfOne DEF old
  <2>9. FieldsOf(secs) = FieldsOf(p) \o old
    BY <2>6, <2>7, <2>8, FieldsOfBoth
  <2>10. FieldsOf(Join(secs, s)) = FieldsOf(p) \o (old \o more)
    <3>1. FieldsOf(p \o <<x>>) = FieldsOf(p) \o FieldsOf(<<x>>)
      BY <2>7, <2>8, FieldsOfBoth
    <3> QED
      BY <2>5, <2>6, <2>8, <3>1
  <2>11. FieldsOf(p) \in Seq(Found)
    BY <2>7, FieldsOfBoth
  <2>12. (FieldsOf(p) \o old) \o more = FieldsOf(p) \o (old \o more)
    BY <2>2, <2>11, JoinedIs
  <2> QED
    BY <2>9, <2>10, <2>12 DEF more
<1>4. CASE ~(secs # <<>> /\ last.title = s.title)
  <2>1. Join(secs, s) = Append(secs, s)
    BY <1>4 DEF Join
  <2>2. Append(secs, s) = secs \o <<s>>
    <3> HIDE DEF R
    <3> QED
      BY <1>1
  <2>3. FieldsOf(secs \o <<s>>) = FieldsOf(secs) \o FieldsOf(<<s>>)
    BY <1>2, FieldsOfBoth
  <2> QED
    BY <1>2, <2>1, <2>2, <2>3
<1> QED
  BY <1>3, <1>4

(* Merging two chunks' sections keeps every field, in order.                  *)
LEMMA MergeKeeps ==
    ASSUME NEW a \in Sections, NEW b \in Sections
    PROVE  FieldsOf(_merge_generic(a, b)) = FieldsOf(a) \o FieldsOf(b)
<1> DEFINE R == Section
           secs == a \o b
           n == Len(secs)
           pre(i) == SubSeq(secs, 1, i)
<1>1. secs \in Seq(R) /\ secs \in Sections /\ n \in Nat /\ FieldsOf(<<>>) = <<>>
      /\ FieldsOf(secs) = FieldsOf(a) \o FieldsOf(b)
  <2>1. secs \in Sections /\ FieldsOf(secs) = FieldsOf(a) \o FieldsOf(b) /\ FieldsOf(<<>>) = <<>>
    BY FieldsOfBoth
  <2> HIDE DEF secs
  <2>2. secs \in Seq(R)
    BY <2>1 DEF Sections
  <2> HIDE DEF R
  <2> QED
    BY <2>1, <2>2
<1>2. PICK u \in [0..n -> Sections] :
            /\ u[0] = <<>> /\ _merge_generic(a, b) = u[n]
            /\ \A i \in 1..n : u[i] = Join(u[i - 1], secs[i])
  BY MergedIs
<1> HIDE DEF secs
<1>3. /\ pre(0) = <<>> /\ pre(n) = secs
      /\ \A i \in 1..n : /\ pre(i - 1) \in Seq(R) /\ pre(i) = Append(pre(i - 1), secs[i])
                         /\ secs[i] \in R
  <2> HIDE DEF R
  <2>1. \A i \in 1..n : secs[i] \in R
    BY <1>1
  <2> QED
    BY <1>1, <2>1, BuiltUp
<1> HIDE DEF n, pre
<1> DEFINE G == {i \in 0..n : FieldsOf(u[i]) = FieldsOf(pre(i))}
<1>4. 0 \in G
  BY <1>1, <1>2, <1>3
<1>5. ASSUME NEW i \in 1..n, i - 1 \in G PROVE i \in G
  <2> DEFINE p == pre(i - 1)
             s == secs[i]
             v == u[i - 1]
  <2>1. p \in Seq(R) /\ s \in R /\ pre(i) = Append(p, s)
    BY <1>3
  <2>2. v \in Sections /\ u[i] = Join(v, s)
    BY <1>1, <1>2
  <2>3. FieldsOf(v) = FieldsOf(p)
    BY <1>5
  <2> HIDE DEF p, s, v
  <2>4. Append(p, s) = p \o <<s>>
    <3> HIDE DEF R
    <3> QED
      BY <2>1
  <2>5. p \in Sections /\ s \in Section
    BY <2>1 DEF Sections
  <2>6. <<s>> \in Sections /\ FieldsOf(<<s>>) = s.fields
    BY <2>5, FieldsOfOne
  <2>7. FieldsOf(p \o <<s>>) = FieldsOf(p) \o s.fields
    <3>1. FieldsOf(p \o <<s>>) = FieldsOf(p) \o FieldsOf(<<s>>)
      BY <2>5, <2>6, FieldsOfBoth
    <3> QED
      BY <2>6, <3>1
  <2>8. FieldsOf(Join(v, s)) = FieldsOf(v) \o s.fields
    BY <2>2, <2>5, JoinKeeps
  <2>10. FieldsOf(u[i]) = FieldsOf(pre(i))
    BY <2>1, <2>2, <2>3, <2>4, <2>7, <2>8
  <2>9. FieldsOf(u[i]) = FieldsOf(pre(i)) /\ i \in 0..n
    BY <1>1, <2>10
  <2> QED
    BY <2>9
<1>6. \A i \in 0..n : i \in G
  <2> HIDE DEF G
  <2> QED
    BY <1>1, <1>4, <1>5, UpTo
<1>7. FieldsOf(u[n]) = FieldsOf(pre(n))
  <2>1. n \in 0..n
    BY <1>1
  <2> QED
    BY <1>6, <2>1
<1> QED
  BY <1>1, <1>2, <1>3, <1>7

-----------------------------------------------------------------------------
(* What was read of a text.                                                   *)

(* The fields of some answers, in order.                                      *)
GotOf(rs) == FlattenSeq([i \in DOMAIN rs |-> FieldsOf(rs[i].secs)])

(* Lists given one by one are lists given by a function.                      *)
LEMMA SameLists ==
    ASSUME NEW C, NEW m, NEW s \in Seq(C), NEW g, g = [i \in DOMAIN s |-> g[i]],
           \A i \in DOMAIN s : s[i] \in C => g[i] = m[s[i]]
    PROVE  FlattenSeq(g) = FlatBy(m, s)
<1>1. \A i \in DOMAIN s : s[i] \in C
  OBVIOUS
<1>2. g = [i \in DOMAIN s |-> m[s[i]]]
  BY <1>1
<1> QED
  BY <1>2 DEF FlatBy

(* The fields of two lists of answers are the one's, then the other's.        *)
LEMMA GotOfBoth ==
    ASSUME NEW a \in Seq(Reads), NEW b \in Seq(Reads)
    PROVE  /\ GotOf(a \o b) = GotOf(a) \o GotOf(b) /\ a \o b \in Seq(Reads)
           /\ GotOf(a) \in Seq(Found) /\ GotOf(<<>>) = <<>>
<1> DEFINE C == Reads
           m == [x \in C |-> FieldsOf(x.secs)]
<1>1. m \in [C -> Seq(Found)]
  <2> SUFFICES ASSUME NEW x \in C PROVE FieldsOf(x.secs) \in Seq(Found)
    OBVIOUS
  <2>1. x.secs \in Sections
    BY DEF Reads
  <2> QED
    BY <2>1, FieldsOfBoth
<1>2. ASSUME NEW s \in Seq(C) PROVE GotOf(s) = FlatBy(m, s)
  <2> DEFINE g == [i \in DOMAIN s |-> FieldsOf(s[i].secs)]
  <2>1. \A i \in DOMAIN s : s[i] \in C => g[i] = m[s[i]]
    OBVIOUS
  <2>2. g = [i \in DOMAIN s |-> g[i]]
    OBVIOUS
  <2> HIDE DEF g, m, C
  <2>3. FlattenSeq(g) = FlatBy(m, s)
    BY <1>2, <2>1, <2>2, SameLists
  <2> QED
    BY <2>3 DEF GotOf, g
<1> HIDE DEF m
<1>3. a \in Seq(C) /\ b \in Seq(C)
  OBVIOUS
<1> HIDE DEF C
<1>4. a \o b \in Seq(C) /\ <<>> \in Seq(C)
  BY <1>3
<1>5. EndToEndBy(C, Found, m, a, b)
  BY <1>1, <1>3, FlatByIs
<1>6. GotOf(a \o b) = FlatBy(m, a \o b) /\ GotOf(a) = FlatBy(m, a)
      /\ GotOf(b) = FlatBy(m, b) /\ GotOf(<<>>) = FlatBy(m, <<>>)
  BY <1>2, <1>3, <1>4
<1> QED
  BY <1>4, <1>5, <1>6 DEF EndToEndBy, C

(* A list of one list, flattened, is that list.                               *)
LEMMA OneList ==
    ASSUME NEW S, NEW x \in Seq(S)
    PROVE  FlattenSeq(<<x>>) = x
<1>1. <<>> \in Seq(Seq(S))
  OBVIOUS
<1> QED
  BY <1>1, FlattenMore

(* One answer has its own fields.                                             *)
LEMMA OneHasItsOwn ==
    ASSUME NEW c \in Reads
    PROVE  GotOf(<<c>>) = FieldsOf(c.secs)
<1> DEFINE x == FieldsOf(c.secs)
<1>1. [i \in DOMAIN <<c>> |-> FieldsOf(<<c>>[i].secs)] = <<x>>
  OBVIOUS
<1>2. x \in Seq(Found)
  <2>1. c.secs \in Sections
    BY DEF Reads
  <2> QED
    BY <2>1, FieldsOfBoth
<1> HIDE DEF x
<1>3. FlattenSeq(<<x>>) = x
  BY <1>2, OneList
<1> QED
  BY <1>1, <1>3 DEF GotOf, x

(* What was got is the fields of the answers.                                 *)
LEMMA GotIsGotOf == Got = GotOf(read)
  BY DEF Got, GotOf, FieldsOf

(* A chunk costs as many calls as it and its halves may take.                 *)
Cost(d) == IF d = 0 THEN 7 ELSE IF d = 1 THEN 3 ELSE 1
CostAt(cs, i) == IF i <= Len(cs) THEN Cost(cs[i].depth) ELSE 0
InBudget(n, cs) ==
    /\ n \in 0..7 /\ Len(cs) <= 3 /\ (Len(cs) = 3 => cs[1].depth = 2)
    /\ n + CostAt(cs, 1) + CostAt(cs, 2) + CostAt(cs, 3) <= 7

(* Chunks of a text, each joined to the next.                                 *)
Joined(t, cs) ==
    /\ \A i \in DOMAIN cs : cs[i].from < cs[i].to
    /\ \A i \in 1..(Len(cs) - 1) : Joint(t, cs[i].to, cs[i + 1].from)

(* What was read is the text up to where the next chunk begins, and what is   *)
(* still to be read is the rest of what was sent.                             *)
Before(t, rs, next) ==
    /\ rs # <<>> => rs[1].from = 0 /\ Joint(t, rs[Len(rs)].to, next)
    /\ rs = <<>> => next = 0
    /\ Joined(t, rs)
Remains(t, cs) ==
    /\ cs # <<>> /\ cs[Len(cs)].to = _clean(t) /\ Joined(t, cs)
    /\ \A i \in DOMAIN cs : cs[i].to <= _clean(t)

(* What was read, and what is still to be read.                               *)
ReadInv ==
    /\ InBudget(calls, todo)
    /\ Len(read) <= calls
    /\ FieldsOf(free) = GotOf(read)
    /\ pc = "generic" => Before(text, read, todo[1].from) /\ Remains(text, todo)
    /\ (pc \in {"align", "records", "targeted", "expiry", "chunk"} \/ (Done /\ ~result.error)) =>
            Tiles(text, read)

(* A call on the first chunk leaves less to spend, whether it is split or not. *)
LEMMA SplitCosts ==
    ASSUME NEW n, NEW cs \in Seq(Chunks), cs # <<>>, InBudget(n, cs), NEW ds \in Seq(Chunks),
           cs[1].depth < 2, Len(ds) = Len(cs) + 1,
           ds[1].depth = cs[1].depth + 1, ds[2].depth = cs[1].depth + 1,
           \A i \in 2..Len(cs) : ds[i + 1] = cs[i]
    PROVE  InBudget(n + 1, ds)
<1> DEFINE d == cs[1].depth
<1>1. d \in {0, 1} /\ n \in 0..7 /\ Len(cs) \in {1, 2}
  <2>1. cs[1] \in Chunks /\ Len(cs) \in Nat \ {0}
    BY FirstAndRest, SeqIsList
  <2>2. d \in 0..1
    <3>1. d \in 0..2
      BY <2>1 DEF Chunks, SPLIT_MAX_DEPTH
    <3>2. d < 2
      OBVIOUS
    <3> HIDE DEF d
    <3> QED
      BY <3>1, <3>2
  <2>3. Len(cs) \in 1..3 /\ Len(cs) # 3 /\ n \in 0..7
    <3>1. Len(cs) <= 3 /\ (Len(cs) = 3 => d = 2) /\ n \in 0..7
      BY DEF InBudget
    <3>2. d # 2
      BY <2>2
    <3> DEFINE m == Len(cs)
    <3>3. m \in Nat \ {0} /\ m <= 3 /\ m # 3
      BY <2>1, <3>1, <3>2
    <3> HIDE DEF d, m
    <3>4. m \in 1..3 /\ m # 3
      BY <3>3
    <3> QED
      BY <3>1, <3>4 DEF m
  <2> QED
    BY <2>2, <2>3
<1>2. n + CostAt(cs, 1) + CostAt(cs, 2) + CostAt(cs, 3) <= 7
  BY DEF InBudget
<1>3. CostAt(cs, 1) = (IF d = 0 THEN 7 ELSE 3) /\ CostAt(cs, 3) = 0
  BY <1>1 DEF CostAt, Cost
<1>4. CASE Len(cs) = 1
  <2>1. CostAt(cs, 2) = 0 /\ CostAt(ds, 3) = 0
    BY <1>4 DEF CostAt
  <2>2. CostAt(ds, 1) = (IF d = 0 THEN 3 ELSE 1) /\ CostAt(ds, 2) = CostAt(ds, 1)
    BY <1>1, <1>4 DEF CostAt, Cost
  <2> QED
    BY <1>1, <1>2, <1>3, <1>4, <2>1, <2>2 DEF InBudget
<1>5. CASE Len(cs) = 2
  <2>1. CostAt(cs, 2) = Cost(cs[2].depth) /\ CostAt(ds, 3) = Cost(cs[2].depth)
    <3>1. ds[2 + 1] = cs[2]
      BY <1>5
    <3> QED
      BY <1>5, <3>1 DEF CostAt
  <2>2. Cost(cs[2].depth) \in {1, 3, 7}
    BY DEF Cost
  <2>3. d = 1
    BY <1>1, <1>2, <1>3, <2>1, <2>2
  <2>4. CostAt(ds, 1) = 1 /\ CostAt(ds, 2) = 1 /\ ds[1].depth = 2
    BY <1>5, <2>3 DEF CostAt, Cost
  <2> QED
    BY <1>1, <1>2, <1>3, <1>5, <2>1, <2>2, <2>3, <2>4 DEF InBudget
<1> QED
  BY <1>1, <1>4, <1>5

(* Keeping an answer is one call, and its chunk is done.                      *)
LEMMA KeptCosts ==
    ASSUME NEW n, NEW cs \in Seq(Chunks), cs # <<>>, InBudget(n, cs)
    PROVE  /\ InBudget(n + 1, Tail(cs))
           /\ cs[1].depth = 0 => n = 0
<1> DEFINE ds == Tail(cs)
<1>1. /\ Len(ds) = Len(cs) - 1 /\ Len(cs) \in 1..3 /\ n \in 0..7
      /\ \A i \in 1..(Len(cs) - 1) : ds[i] = cs[i + 1]
  <2>1. Len(ds) = Len(cs) - 1 /\ Len(cs) \in Nat \ {0}
        /\ \A i \in 1..(Len(cs) - 1) : ds[i] = cs[i + 1]
    BY FirstAndRest
  <2>2. Len(cs) <= 3 /\ n \in 0..7
    BY DEF InBudget
  <2> HIDE DEF ds
  <2> QED
    BY <2>1, <2>2
<1> HIDE DEF ds
<1>2. n + CostAt(cs, 1) + CostAt(cs, 2) + CostAt(cs, 3) <= 7
  BY DEF InBudget
<1>3. \A i \in 1..3 : CostAt(cs, i) \in {0, 1, 3, 7}
  BY DEF CostAt, Cost
<1>4. CostAt(cs, 1) = Cost(cs[1].depth) /\ Cost(cs[1].depth) \in {1, 3, 7}
  BY <1>1 DEF CostAt, Cost
<1>5. CostAt(ds, 1) = CostAt(cs, 2) /\ CostAt(ds, 2) = CostAt(cs, 3) /\ CostAt(ds, 3) = 0
  <2>1. Len(cs) >= 2 => ds[1] = cs[2]
    BY <1>1
  <2>2. Len(cs) >= 3 => ds[2] = cs[3]
    BY <1>1
  <2> QED
    BY <1>1, <2>1, <2>2 DEF CostAt
<1>6. n + 1 + CostAt(ds, 1) + CostAt(ds, 2) + CostAt(ds, 3) <= 7
  BY <1>1, <1>2, <1>3, <1>4, <1>5
<1>7. n + 1 \in 0..7
  BY <1>1, <1>2, <1>3, <1>4
<1>8. InBudget(n + 1, ds)
  BY <1>1, <1>6, <1>7 DEF InBudget
<1>9. cs[1].depth = 0 => n = 0
  BY <1>1, <1>2, <1>3, <1>4 DEF Cost
<1> QED
  BY <1>8, <1>9 DEF ds

(* Nothing read and nothing to read costs nothing.                            *)
LEMMA NothingCosts ==
    /\ InBudget(0, <<>>)
    /\ \A whole : whole.depth = 0 => InBudget(0, <<whole>>)
<1>1. InBudget(0, <<>>)
  BY DEF InBudget, CostAt
<1>2. ASSUME NEW whole, whole.depth = 0 PROVE InBudget(0, <<whole>>)
  <2> DEFINE cs == <<whole>>
  <2>1. Len(cs) = 1 /\ cs[1].depth = 0
    BY <1>2
  <2> HIDE DEF cs
  <2>2. CostAt(cs, 1) = 7 /\ CostAt(cs, 2) = 0 /\ CostAt(cs, 3) = 0
    BY <2>1 DEF CostAt, Cost
  <2>3. InBudget(0, cs)
    BY <2>1, <2>2 DEF InBudget
  <2> QED
    BY <2>3 DEF cs
<1> QED
  BY <1>1, <1>2

(* Before anything is read the whole of what is sent remains.                 *)
LEMMA WholeRemains ==
    ASSUME NEW t, NEW x, x.from = 0, x.to = _clean(t), _clean(t) \in Nat \ {0}
    PROVE  Remains(t, <<x>>) /\ Before(t, <<>>, 0)
<1> DEFINE cs == <<x>>
           none == <<>>
<1>1. Len(cs) = 1 /\ cs[1] = x /\ DOMAIN cs = {1} /\ cs # <<>>
  OBVIOUS
<1>2. DOMAIN none = {} /\ Len(none) = 0 /\ none = <<>>
  OBVIOUS
<1> HIDE DEF cs, none
<1>3. 1..(1 - 1) = {} /\ 1..(0 - 1) = {}
  OBVIOUS
<1>4. Joined(t, cs)
  BY <1>1, <1>3 DEF Joined
<1>5. Joined(t, none)
  BY <1>2, <1>3 DEF Joined
<1>6. Remains(t, cs)
  BY <1>1, <1>4 DEF Remains
<1>7. Before(t, none, 0)
  BY <1>2, <1>5 DEF Before
<1> QED
  BY <1>6, <1>7 DEF cs, none

(* Reading the first chunk in halves leaves the same to be read.              *)
LEMMA SplitKeeps ==
    ASSUME NEW cs \in Seq(Chunks), cs # <<>>, NEW n, InBudget(n, cs),
           NEW w \in DOMAIN DOCS, Remains(w, cs), MaySplit(w, Head(cs))
    PROVE  /\ Remains(w, Halves(w, Head(cs)) \o Tail(cs))
           /\ (Halves(w, Head(cs)) \o Tail(cs))[1].from = cs[1].from
           /\ InBudget(n + 1, Halves(w, Head(cs)) \o Tail(cs))
<1> DEFINE t == Tail(cs)
           c == Head(cs)
           h == Halves(w, c)
           ds == h \o t
<1>1. /\ c \in Chunks /\ t \in Seq(Chunks) /\ Len(t) = Len(cs) - 1
      /\ Len(cs) \in Nat \ {0} /\ \A i \in 1..(Len(cs) - 1) : t[i] = cs[i + 1]
      /\ cs[1] = c
  BY FirstAndRest
<1> HIDE DEF t, c
<1>2. MaySplit(w, c)
  BY DEF c
<1>3. PICK x \in Chunks, y \in Chunks :
            /\ h = <<x, y>> /\ x.depth = c.depth + 1 /\ y.depth = c.depth + 1
            /\ x.from = c.from /\ y.to = c.to /\ x.from < x.to /\ y.from < y.to
            /\ c.to <= Total(w) => Joint(w, x.to, y.from)
  BY <1>1, <1>2, SplitIs
<1> HIDE DEF h
<1>4. h \in Seq(Chunks) /\ Len(h) = 2 /\ h[1] = x /\ h[2] = y
  BY <1>3
<1>5. /\ ds \in Seq(Chunks) /\ Len(ds) = 2 + Len(t)
      /\ \A i \in 1..2 : ds[i] = h[i]
      /\ \A i \in 1..Len(t) : ds[2 + i] = t[i]
  <2>0. t \in Seq(Chunks) /\ h \in Seq(Chunks)
    BY <1>1, <1>4
  <2>1. (h \o t) \in Seq(Chunks) /\ Len(h \o t) = Len(h) + Len(t)
    BY ONLY <2>0, EndToEnd
  <2>2. \A i \in 1..Len(h) : (h \o t)[i] = h[i]
    BY ONLY <2>0, EndToEnd
  <2>3. \A i \in 1..Len(t) : (h \o t)[Len(h) + i] = t[i]
    BY ONLY <2>0, EndToEnd
  <2>4. ds = h \o t
    OBVIOUS
  <2> HIDE DEF ds
  <2> QED
    BY <1>4, <2>1, <2>2, <2>3, <2>4
<1> HIDE DEF ds
<1>6. /\ Len(ds) = Len(cs) + 1 /\ ds[1] = x /\ ds[2] = y
      /\ \A i \in 2..Len(cs) : ds[i + 1] = cs[i]
  <2>1. Len(ds) = Len(cs) + 1 /\ ds[1] = x /\ ds[2] = y
    BY <1>1, <1>4, <1>5
  <2>2. ASSUME NEW i \in 2..Len(cs) PROVE ds[i + 1] = cs[i]
    <3> DEFINE k == i - 1
    <3>1. k \in 1..Len(t) /\ i = k + 1 /\ i + 1 = 2 + k
      BY <1>1
    <3> HIDE DEF k
    <3>2. ds[2 + k] = t[k] /\ t[k] = cs[k + 1]
      BY <1>1, <1>5, <3>1
    <3> QED
      BY <3>1, <3>2
  <2> QED
    BY <2>1, <2>2
<1>7. cs[1].depth < 2 /\ ds[1].depth = cs[1].depth + 1 /\ ds[2].depth = cs[1].depth + 1
  <2>1. c.depth < SPLIT_MAX_DEPTH
    BY <1>2 DEF MaySplit
  <2> QED
    BY <1>1, <1>3, <1>6, <2>1 DEF SPLIT_MAX_DEPTH
<1>8. InBudget(n + 1, ds)
  BY <1>5, <1>6, <1>7, SplitCosts
<1> DEFINE m == Len(cs)
<1>9. m \in Nat \ {0} /\ DOMAIN cs = 1..m /\ Len(ds) = m + 1 /\ DOMAIN ds = 1..(m + 1)
  BY <1>1, <1>5, <1>6
<1>10. /\ \A i \in 1..m : cs[i].from < cs[i].to /\ cs[i].to <= _clean(w)
       /\ \A i \in 1..(m - 1) : Joint(w, cs[i].to, cs[i + 1].from)
       /\ cs[m].to = _clean(w)
  BY <1>9 DEF Remains, Joined
<1> HIDE DEF m
<1>11. x.to \in Nat /\ y.from \in Nat /\ y.to \in Nat /\ c.to \in Nat
  BY <1>1, <1>3 DEF Chunks
<1>12. c.to <= _clean(w) /\ _clean(w) <= Total(w) /\ _clean(w) \in Nat /\ Total(w) \in Nat
  <2>1. 1 \in 1..m
    BY <1>9
  <2> QED
    BY <1>1, <1>10, <2>1, CleanIs
<1>13. Joint(w, x.to, y.from) /\ y.to <= _clean(w) /\ x.to <= y.from
  <2>1. c.to <= Total(w)
    BY <1>11, <1>12
  <2>2. Joint(w, x.to, y.from)
    BY <1>3, <2>1
  <2>3. x.to <= y.from
    BY <1>11, <2>2 DEF Joint
  <2> QED
    BY <1>3, <1>12, <2>2, <2>3
<1>14. x.to <= _clean(w)
  BY <1>3, <1>11, <1>12, <1>13
<1>15. \A i \in 1..(m + 1) : i = 1 \/ i = 2 \/ (i - 1 \in 2..m /\ ds[i] = cs[i - 1])
  <2> SUFFICES ASSUME NEW i \in 1..(m + 1), i # 1, i # 2
               PROVE  i - 1 \in 2..m /\ ds[i] = cs[i - 1]
    OBVIOUS
  <2> DEFINE k == i - 1
  <2>1. k \in 2..m /\ i = k + 1
    BY <1>9
  <2> HIDE DEF k
  <2>2. ds[k + 1] = cs[k]
    BY <1>6, <2>1 DEF m
  <2> QED
    BY <2>1, <2>2 DEF k
<1>16. \A i \in 1..(m + 1) : ds[i].from < ds[i].to /\ ds[i].to <= _clean(w)
  <2> SUFFICES ASSUME NEW i \in 1..(m + 1) PROVE ds[i].from < ds[i].to /\ ds[i].to <= _clean(w)
    OBVIOUS
  <2>1. CASE i = 1 \/ i = 2
    BY <1>3, <1>6, <1>13, <1>14, <2>1
  <2>2. CASE i # 1 /\ i # 2
    <3>1. i - 1 \in 1..m /\ ds[i] = cs[i - 1]
      BY <1>9, <1>15, <2>2
    <3> QED
      BY <1>10, <3>1
  <2> QED
    BY <2>1, <2>2
<1>17. ASSUME NEW i \in 1..m PROVE Joint(w, ds[i].to, ds[i + 1].from)
  <2>1. CASE i = 1
    <3>1. i + 1 = 2
      BY <2>1
    <3> QED
      BY <1>6, <1>13, <2>1, <3>1
  <2>2. CASE i = 2
    <3>1. 1 \in 1..(m - 1) /\ 2 \in 2..Len(cs)
      BY <1>9, <2>2 DEF m
    <3>2. ds[2 + 1] = cs[2] /\ Joint(w, cs[1].to, cs[1 + 1].from)
      BY <1>6, <1>10, <3>1
    <3>3. cs[1].to = y.to
      BY <1>1, <1>3
    <3>4. i + 1 = 2 + 1 /\ 1 + 1 = 2
      BY <2>2
    <3> QED
      BY <1>6, <2>2, <3>2, <3>3, <3>4
  <2>3. CASE i # 1 /\ i # 2
    <3> DEFINE k == i - 1
    <3>1. k \in 2..m /\ k \in 1..(m - 1) /\ k + 1 \in 2..m /\ i = k + 1
      BY <1>9, <2>3
    <3> HIDE DEF k
    <3>2. ds[k + 1] = cs[k] /\ ds[k + 1 + 1] = cs[k + 1] /\ Joint(w, cs[k].to, cs[k + 1].from)
      BY <1>6, <1>10, <3>1 DEF m
    <3> QED
      BY <3>1, <3>2
  <2> QED
    BY <2>1, <2>2, <2>3
<1>18. ds[m + 1].to = _clean(w)
  <2>1. CASE m = 1
    BY <1>1, <1>3, <1>6, <1>10, <2>1
  <2>2. CASE m # 1
    <3>1. m \in 2..Len(cs)
      BY <1>9, <2>2 DEF m
    <3> QED
      BY <1>6, <1>10, <3>1
  <2> QED
    BY <2>1, <2>2
<1>19. Remains(w, ds)
  <2>1. Len(ds) = m + 1 /\ DOMAIN ds = 1..(m + 1) /\ (m + 1) - 1 = m /\ ds # <<>>
    BY <1>9
  <2> QED
    BY <1>16, <1>17, <1>18, <2>1 DEF Remains, Joined
<1>20. ds[1].from = cs[1].from
  BY <1>1, <1>3, <1>6
<1> QED
  BY <1>8, <1>19, <1>20 DEF ds, h, t, c

(* An answer kept moves its chunk to what was read, and adds its fields.      *)
KeptAnswer(w, cs, n, rs, fs, new) ==
    /\ Tail(cs) # <<>> => Before(w, Append(rs, new), Tail(cs)[1].from) /\ Remains(w, Tail(cs))
    /\ InBudget(n + 1, Tail(cs)) /\ Len(Append(rs, new)) <= n + 1
    /\ Tail(cs) = <<>> => Tiles(w, Append(rs, new))
    /\ FieldsOf(IF Head(cs).depth = 0 THEN new.secs ELSE _merge_generic(fs, new.secs))
            = GotOf(Append(rs, new))

(* It does.                                                                   *)
LEMMA KeepKeeps ==
    ASSUME NEW cs \in Seq(Chunks), cs # <<>>, NEW n, InBudget(n, cs),
           NEW rs \in Seq(Reads), Len(rs) <= n, NEW fs \in Sections, FieldsOf(fs) = GotOf(rs),
           NEW w, Before(w, rs, cs[1].from), Remains(w, cs),
           NEW new \in Reads, new.from = Head(cs).from, new.to = Head(cs).to
    PROVE  KeptAnswer(w, cs, n, rs, fs, new)
<1> DEFINE t == Tail(cs)
           c == Head(cs)
           more == Append(rs, new)
           m == Len(cs)
           k == Len(rs)
<1>1. /\ c \in Chunks /\ t \in Seq(Chunks) /\ cs[1] = c /\ Len(t) = m - 1 /\ m \in Nat \ {0}
      /\ DOMAIN cs = 1..m /\ DOMAIN t = 1..(m - 1)
      /\ \A i \in 1..(m - 1) : t[i] = cs[i + 1]
  <2>1. /\ c \in Chunks /\ t \in Seq(Chunks) /\ cs[1] = c /\ Len(t) = m - 1 /\ m \in Nat \ {0}
        /\ \A i \in 1..(m - 1) : t[i] = cs[i + 1]
    BY FirstAndRest
  <2> HIDE DEF t, m, c
  <2>2. DOMAIN t = 1..(m - 1)
    BY <2>1
  <2> QED
    BY <2>1, <2>2 DEF m
<1>2. new.secs \in Sections
  BY DEF Reads
<1>3. /\ more = rs \o <<new>> /\ <<new>> \in Seq(Reads) /\ k \in Nat
      /\ Len(more) = k + 1 /\ DOMAIN more = 1..(k + 1) /\ DOMAIN rs = 1..k
      /\ more[k + 1] = new /\ \A i \in 1..k : more[i] = rs[i]
      /\ rs = <<>> <=> k = 0
  OBVIOUS
<1>4. GotOf(<<new>>) = FieldsOf(new.secs)
  BY OneHasItsOwn
<1>5. new.from = c.from /\ new.to = c.to
  OBVIOUS
<1> HIDE DEF t, c, more, m, k
<1>6. /\ \A i \in 1..k : rs[i].from < rs[i].to
      /\ \A i \in 1..(k - 1) : Joint(w, rs[i].to, rs[i + 1].from)
      /\ k # 0 => rs[1].from = 0 /\ Joint(w, rs[k].to, c.from)
      /\ k = 0 => c.from = 0
  BY <1>1, <1>3 DEF Before, Joined, k
<1>7. /\ \A i \in 1..m : cs[i].from < cs[i].to /\ cs[i].to <= _clean(w)
      /\ \A i \in 1..(m - 1) : Joint(w, cs[i].to, cs[i + 1].from)
      /\ cs[m].to = _clean(w)
  BY <1>1 DEF Remains, Joined, m
<1>8. Joined(w, more)
  <2>1. ASSUME NEW i \in 1..(k + 1) PROVE more[i].from < more[i].to
    <3>1. CASE i = k + 1
      <4>1. 1 \in 1..m
        BY <1>1
      <4> QED
        BY <1>1, <1>3, <1>5, <1>7, <3>1, <4>1
    <3>2. CASE i # k + 1
      <4>1. i \in 1..k
        BY <1>3, <3>2
      <4> QED
        BY <1>3, <1>6, <4>1
    <3> QED
      BY <3>1, <3>2
  <2>2. ASSUME NEW i \in 1..k PROVE Joint(w, more[i].to, more[i + 1].from)
    <3>1. CASE i = k
      <4>1. k # 0
        BY <1>3
      <4> QED
        BY <1>3, <1>5, <1>6, <3>1, <4>1
    <3>2. CASE i # k
      <4>1. i \in 1..(k - 1) /\ i + 1 \in 1..k
        BY <1>3, <3>2
      <4> QED
        BY <1>3, <1>6, <4>1
    <3> QED
      BY <3>1, <3>2
  <2>3. (k + 1) - 1 = k
    BY <1>3
  <2> QED
    BY <1>3, <2>1, <2>2, <2>3 DEF Joined
<1>9. more # <<>> /\ more[1].from = 0
  <2>1. CASE k = 0
    BY <1>3, <1>5, <1>6, <2>1
  <2>2. CASE k # 0
    <3>1. 1 \in 1..k
      BY <1>3, <2>2
    <3> QED
      BY <1>3, <1>6, <2>2, <3>1
  <2>3. more # <<>>
    BY <1>3
  <2> QED
    BY <2>1, <2>2, <2>3
<1>10. ASSUME t # <<>> PROVE Before(w, more, t[1].from) /\ Remains(w, t)
  <2>1. m - 1 \in Nat \ {0}
    BY <1>1, <1>10
  <2>2. 1 \in 1..(m - 1) /\ t[1] = cs[1 + 1] /\ Joint(w, cs[1].to, cs[1 + 1].from)
    BY <1>1, <1>7, <2>1
  <2>3. Before(w, more, t[1].from)
    BY <1>1, <1>3, <1>5, <1>8, <1>9, <2>2 DEF Before
  <2>4. \A i \in 1..(m - 1) : t[i].from < t[i].to /\ t[i].to <= _clean(w)
    <3> SUFFICES ASSUME NEW i \in 1..(m - 1) PROVE t[i].from < t[i].to /\ t[i].to <= _clean(w)
      OBVIOUS
    <3>1. i + 1 \in 1..m /\ t[i] = cs[i + 1]
      BY <1>1
    <3> QED
      BY <1>7, <3>1
  <2>5. \A i \in 1..((m - 1) - 1) : Joint(w, t[i].to, t[i + 1].from)
    <3> SUFFICES ASSUME NEW i \in 1..((m - 1) - 1) PROVE Joint(w, t[i].to, t[i + 1].from)
      OBVIOUS
    <3>1. i \in 1..(m - 1) /\ i + 1 \in 1..(m - 1)
      BY <1>1
    <3>2. t[i] = cs[i + 1] /\ t[i + 1] = cs[i + 1 + 1] /\ Joint(w, cs[i + 1].to, cs[i + 1 + 1].from)
      BY <1>1, <1>7, <3>1
    <3> QED
      BY <3>2
  <2>6. t[m - 1].to = _clean(w)
    <3>1. m - 1 \in 1..(m - 1) /\ (m - 1) + 1 = m
      BY <1>1, <2>1
    <3>2. t[m - 1] = cs[(m - 1) + 1]
      BY <1>1, <3>1
    <3> QED
      BY <1>7, <3>1, <3>2
  <2>7. Len(t) = m - 1 /\ DOMAIN t = 1..(m - 1)
    BY <1>1
  <2>8. Remains(w, t)
    BY <1>10, <2>4, <2>5, <2>6, <2>7 DEF Remains, Joined
  <2> QED
    BY <2>3, <2>8
<1>11. ASSUME t = <<>> PROVE Tiles(w, more)
  <2>1. m = 1
    <3>1. Len(t) = 0
      BY <1>11
    <3> QED
      BY <1>1, <3>1
  <2>2. more[Len(more)].to = _clean(w)
    BY <1>1, <1>3, <1>5, <1>7, <2>1
  <2> QED
    BY <1>8, <1>9, <2>2 DEF Tiles, Joined
<1>12. InBudget(n + 1, t) /\ (c.depth = 0 => n = 0)
  BY <1>1, KeptCosts DEF t
<1>13. n \in 0..7
  BY DEF InBudget
<1>14. GotOf(more) = GotOf(rs) \o FieldsOf(new.secs) /\ FieldsOf(new.secs) \in Seq(Found)
  <2>1. GotOf(rs \o <<new>>) = GotOf(rs) \o GotOf(<<new>>)
    BY <1>3, GotOfBoth
  <2>2. FieldsOf(new.secs) \in Seq(Found)
    BY <1>2, FieldsOfBoth
  <2> QED
    BY <1>3, <1>4, <2>1, <2>2
<1>15. FieldsOf(IF c.depth = 0 THEN new.secs ELSE _merge_generic(fs, new.secs)) = GotOf(more)
  <2>1. CASE c.depth = 0
    <3>1. rs = <<>>
      BY <1>3, <1>12, <1>13, <2>1 DEF k
    <3>2. GotOf(<<>>) = <<>>
      BY GotOfBoth
    <3>3. <<>> \o FieldsOf(new.secs) = FieldsOf(new.secs)
      BY <1>14, JoinedIs
    <3> QED
      BY <1>14, <2>1, <3>1, <3>2, <3>3
  <2>2. CASE c.depth # 0
    <3>1. FieldsOf(_merge_generic(fs, new.secs)) = FieldsOf(fs) \o FieldsOf(new.secs)
      BY <1>2, MergeKeeps
    <3> QED
      BY <1>14, <2>2, <3>1
  <2> QED
    BY <2>1, <2>2
<1>16. Len(more) <= n + 1
  BY <1>3, <1>13 DEF k
<1> QED
  BY <1>10, <1>11, <1>12, <1>15, <1>16 DEF t, c, more, KeptAnswer

(* Nothing is read of nothing.                                                *)
LEMMA NothingOfNothing ==
    GotOf(<<>>) = <<>> /\ FieldsOf(<<>>) = <<>> /\ Len(<<>>) <= 0
<1>1. <<>> \in Seq(Reads) /\ <<>> \in Sections
  BY DEF Sections
<1>2. GotOf(<<>>) = <<>>
  BY <1>1, GotOfBoth
<1>3. FieldsOf(<<>>) = <<>>
  BY <1>1, FieldsOfBoth
<1>4. Len(<<>>) <= 0
  OBVIOUS
<1> QED
  BY <1>2, <1>3, <1>4

(* The request has read its text.                                             *)
After == pc \in {"align", "records", "targeted", "expiry", "chunk"} \/ (Done /\ ~result.error)

(* It holds at the start.                                                     *)
LEMMA ReadInit == Init => ReadInv
<1> SUFFICES ASSUME Init PROVE ReadInv
  OBVIOUS
<1>1. /\ pc = "idle" /\ result = None /\ todo = <<>> /\ read = <<>> /\ calls = 0
      /\ free = <<>>
  BY DEF Init
<1>2. Len(read) <= calls /\ FieldsOf(free) = GotOf(read)
  BY <1>1, NothingOfNothing
<1>3. InBudget(calls, todo)
  BY <1>1, NothingCosts
<1> QED
  BY <1>1, <1>2, <1>3 DEF ReadInv, Done

(* A call reads on, and what was read and what is left stay the text.         *)
LEMMA ReadReads ==
    ASSUME NEW slip \in SLIPS, NEW hit \in BOOLEAN, ReadChunk(slip, hit), DataInv, ReadInv
    PROVE  ReadInv'
<1> DEFINE c == Head(todo)
           lines == ChunkLines(text, c)
           secs == IF hit THEN _loads_lenient(lines, slip) ELSE Reading(lines, slip)
           new == [from |-> c.from, to |-> c.to, hit |-> hit, slip |-> slip, secs |-> secs]
<1>1. /\ todo \in Seq(Chunks) /\ todo # <<>> /\ read \in Seq(Reads) /\ free \in Sections
      /\ pc = "generic" /\ text \in DOMAIN DOCS
  BY DEF DataInv, ReadChunk
<1>2. /\ InBudget(calls, todo) /\ Len(read) <= calls /\ FieldsOf(free) = GotOf(read)
      /\ Before(text, read, todo[1].from) /\ Remains(text, todo)
  BY <1>1 DEF ReadInv
<1>3. c \in Chunks
  BY <1>1
<1>4. /\ \/ /\ todo' = Halves(text, c) \o Tail(todo) /\ UNCHANGED <<read, free>>
            /\ MaySplit(text, c)
         \/ /\ todo' = Tail(todo) /\ read' = Append(read, new)
            /\ free' = IF c.depth = 0 THEN secs ELSE _merge_generic(free, secs)
      /\ calls' = calls + 1 /\ text' = text
      /\ pc' = IF todo' = <<>> THEN "align" ELSE "generic"
  BY DEF ReadChunk
<1> HIDE DEF c, lines
<1>5. new \in Reads /\ new.from = c.from /\ new.to = c.to /\ new.secs = secs
  <2>1. secs \in Sections
    <3>1. lines \in Seq(DocLines)
      BY <1>1, <1>3, ChunkLinesAre DEF lines
    <3> QED
      BY <3>1, ReadIsSections
  <2>2. c.from \in Nat /\ c.to \in Nat
    BY <1>3 DEF Chunks
  <2> HIDE DEF secs
  <2> QED
    BY <2>1, <2>2 DEF Reads
<1> HIDE DEF new, secs
<1>6. CASE /\ todo' = Halves(text, c) \o Tail(todo) /\ UNCHANGED <<read, free>>
           /\ MaySplit(text, c)
  <2> DEFINE ds == Halves(text, Head(todo)) \o Tail(todo)
  <2>1. Remains(text, ds) /\ ds[1].from = todo[1].from /\ InBudget(calls + 1, ds)
    <3>1. MaySplit(text, Head(todo))
      BY <1>6 DEF c
    <3> QED
      BY <1>1, <1>2, <3>1, SplitKeeps
  <2> HIDE DEF ds
  <2>2. todo' = ds /\ read' = read /\ free' = free
    BY <1>6 DEF ds, c
  <2>3. calls \in 0..7 /\ Len(read) \in Nat
    BY <1>1, <1>2 DEF InBudget
  <2>4. InBudget(calls', todo') /\ Len(read') <= calls'
    BY <1>2, <1>4, <2>1, <2>2, <2>3
  <2>5. Before(text', read', todo'[1].from) /\ Remains(text', todo')
    BY <1>2, <1>4, <2>1, <2>2
  <2>6. FieldsOf(free') = GotOf(read')
    BY <1>2, <2>2
  <2>7. pc' = "generic"
    BY <1>4, <2>1, <2>2 DEF Remains
  <2> QED
    BY <2>4, <2>5, <2>6, <2>7 DEF ReadInv, Done
<1>7. CASE /\ todo' = Tail(todo) /\ read' = Append(read, new)
           /\ free' = IF c.depth = 0 THEN secs ELSE _merge_generic(free, secs)
  <2> DEFINE t == Tail(todo)
             more == Append(read, new)
  <2>1. /\ t # <<>> => Before(text, more, t[1].from) /\ Remains(text, t)
        /\ InBudget(calls + 1, t) /\ Len(more) <= calls + 1
        /\ t = <<>> => Tiles(text, more)
        /\ FieldsOf(IF c.depth = 0 THEN new.secs ELSE _merge_generic(free, new.secs))
                = GotOf(more)
    <3>1. new.from = Head(todo).from /\ new.to = Head(todo).to
      BY <1>5 DEF c
    <3>2. KeptAnswer(text, todo, calls, read, free, new)
      BY <1>1, <1>2, <1>5, <3>1, KeepKeeps
    <3> QED
      BY <3>2 DEF KeptAnswer, c
  <2> HIDE DEF t, more
  <2>2. todo' = t /\ read' = more /\ calls' = calls + 1 /\ text' = text
    BY <1>4, <1>7 DEF t, more
  <2>3. InBudget(calls', todo') /\ Len(read') <= calls'
    BY <2>1, <2>2
  <2>4. FieldsOf(free') = GotOf(read')
    BY <1>5, <1>7, <2>1, <2>2
  <2>5. todo' # <<>> => Before(text', read', todo'[1].from) /\ Remains(text', todo')
    BY <2>1, <2>2
  <2>6. todo' = <<>> => Tiles(text', read')
    BY <2>1, <2>2
  <2>7. pc' = (IF todo' = <<>> THEN "align" ELSE "generic")
    BY <1>4
  <2> QED
    BY <2>3, <2>4, <2>5, <2>6, <2>7 DEF ReadInv, Done
<1> QED
  BY <1>4, <1>6, <1>7

(* Every step keeps what was read, and what is left to read, the text.        *)
LEMMA ReadNext == DataInv /\ ReadInv /\ [Next]_vars => ReadInv'
<1> SUFFICES ASSUME DataInv, ReadInv, [Next]_vars PROVE ReadInv'
  OBVIOUS
<1>A. ASSUME UNCHANGED <<text, todo, read, calls, free>>, pc' # "generic",
             After' => After
      PROVE  ReadInv'
  <2>1. /\ InBudget(calls, todo) /\ Len(read) <= calls /\ FieldsOf(free) = GotOf(read)
        /\ After => Tiles(text, read)
    BY DEF ReadInv, After
  <2>2. InBudget(calls', todo') /\ Len(read') <= calls' /\ FieldsOf(free') = GotOf(read')
        /\ (After' => Tiles(text', read'))
    BY <1>A, <2>1
  <2> QED
    BY <1>A, <2>2 DEF ReadInv, After
<1>1. ASSUME NEW t \in DOMAIN DOCS, NEW id \in Ids(reg) \cup {"", "retired"}, Request(t, id)
      PROVE  ReadInv'
  <2> DEFINE whole == [from |-> 0, to |-> _clean(t), depth |-> 0]
             clean == _clean(t)
  <2>1. read' = <<>> /\ calls' = 0 /\ free' = <<>> /\ text' = t
    BY <1>1 DEF Request
  <2>2. FieldsOf(free') = GotOf(read') /\ Len(read') <= calls'
    <3>1. FieldsOf(free') = GotOf(read')
      BY <2>1, NothingOfNothing
    <3>2. Len(read') <= calls'
      BY <2>1, NothingOfNothing, Zenon
    <3> QED
      BY <3>1, <3>2
  <2>3. CASE clean = 0
    <3>1. pc' = "idle" /\ todo' = <<>>
      BY <1>1, <2>3 DEF Request
    <3>2. InBudget(calls', todo')
      BY <2>1, <3>1, NothingCosts
    <3>3. Tiles(text', read')
      BY <2>1, <2>3 DEF Tiles
    <3> QED
      BY <2>2, <3>1, <3>2, <3>3 DEF ReadInv, Done
  <2>4. CASE clean # 0
    <3>1. pc' = "generic" /\ todo' = <<whole>>
      BY <1>1, <2>4 DEF Request
    <3>2. whole.depth = 0 /\ whole.from = 0 /\ whole.to = clean /\ clean \in Nat
      BY CleanIs
    <3> HIDE DEF whole, clean
    <3>3. InBudget(0, <<whole>>)
      BY <3>2, NothingCosts
    <3>4. Remains(t, <<whole>>) /\ Before(t, <<>>, 0)
      <4>1. clean \in Nat \ {0}
        BY <2>4, <3>2
      <4> QED
        BY <3>2, <4>1, WholeRemains DEF clean
    <3>5. todo'[1].from = 0
      BY <3>1, <3>2
    <3>6. Before(text', read', todo'[1].from) /\ Remains(text', todo')
      BY <2>1, <3>1, <3>4, <3>5
    <3> QED
      BY <2>1, <2>2, <3>1, <3>3, <3>6 DEF ReadInv, Done
  <2> QED
    BY <2>3, <2>4
<1>2. ASSUME NEW slip \in SLIPS, NEW hit \in BOOLEAN, ReadChunk(slip, hit) PROVE ReadInv'
  BY <1>2, ReadReads
<1>3. CASE GenericRaises
  <2>1. /\ UNCHANGED <<text, read, calls, free>> /\ pc = "generic" /\ pc' = "idle"
        /\ result' = Nothing(TRUE, FALSE) /\ todo' = <<>>
    BY <1>3 DEF GenericRaises
  <2>2. Nothing(TRUE, FALSE).error = TRUE
    BY DEF Nothing
  <2>3. Len(read) <= calls /\ FieldsOf(free) = GotOf(read) /\ InBudget(calls, todo)
    BY DEF ReadInv
  <2>4. InBudget(calls, <<>>)
    <3>1. calls \in 0..7
      BY <2>3 DEF InBudget
    <3> QED
      BY <3>1 DEF InBudget, CostAt
  <2> QED
    BY <2>1, <2>2, <2>3, <2>4 DEF ReadInv, Done
<1>4. CASE Align
  <2>1. UNCHANGED <<text, todo, read, calls, free>> /\ pc = "align"
        /\ pc' \in {"expiry", "records"}
    BY <1>4 DEF Align, Answer
  <2> QED
    BY <1>A, <2>1 DEF After
<1>5. CASE Respond
  <2>1. read' = <<>> /\ calls' = 0 /\ free' = <<>> /\ todo' = <<>> /\ pc' = "idle"
        /\ result' = None
    BY <1>5 DEF Respond
  <2>2. FieldsOf(free') = GotOf(read') /\ Len(read') <= calls'
    BY <2>1, NothingOfNothing
  <2>3. InBudget(calls', todo')
    BY <2>1, NothingCosts
  <2> QED
    BY <2>1, <2>2, <2>3 DEF ReadInv, Done
<1>6. ASSUME NEW rows, RecordPass(rows) PROVE ReadInv'
  BY <1>6, <1>A DEF RecordPass, After
<1>7. CASE RecordsDone
  BY <1>7, <1>A DEF RecordsDone, After
<1>8. ASSUME NEW got, TargetedPass(got) PROVE ReadInv'
  BY <1>8, <1>A DEF TargetedPass, After
<1>9. CASE TargetedDone
  <2>1. UNCHANGED <<text, todo, read, calls, free>> /\ pc = "targeted" /\ pc' = "expiry"
    BY <1>9 DEF TargetedDone, Answer
  <2> QED
    BY <1>A, <2>1 DEF After
<1>10. CASE Expires
  <2>1. UNCHANGED <<text, todo, read, calls, free>> /\ pc = "expiry"
        /\ pc' \in {"chunk", "idle"}
    BY <1>10 DEF Expires
  <2> QED
    BY <1>A, <2>1 DEF After
<1>11. ASSUME NEW date, ChunkAnswer(date) PROVE ReadInv'
  <2>1. UNCHANGED <<text, todo, read, calls, free>> /\ pc = "chunk"
        /\ pc' \in {"chunk", "idle"}
    BY <1>11 DEF ChunkAnswer
  <2> QED
    BY <1>A, <2>1 DEF After
<1>12. CASE ChunkRaises
  <2>1. UNCHANGED <<text, todo, read, calls, free>> /\ pc = "chunk" /\ pc' = "idle"
    BY <1>12 DEF ChunkRaises
  <2> QED
    BY <1>A, <2>1 DEF After
<1>13. CASE UNCHANGED vars
  <2>1. UNCHANGED <<pc, text, todo, read, calls, free, result>>
    BY <1>13 DEF vars
  <2> QED
    BY <2>1 DEF ReadInv, Done
<1> QED
  BY <1>1, <1>2, <1>3, <1>4, <1>5, <1>6, <1>7, <1>8, <1>9, <1>10, <1>11, <1>12, <1>13 DEF Next

(* What is read, and what is left to read, is the text throughout.            *)
LEMMA ReadAlways == Spec => []ReadInv
<1>1. Init => ReadInv
  BY ReadInit
<1>2. DataInv /\ ReadInv /\ [Next]_vars => ReadInv'
  BY ReadNext
<1>3. FactsInv => DataInv
  BY DEF FactsInv
<1> QED
  BY <1>1, <1>2, <1>3, FactsAlways, PTL DEF Spec

(* The chunks whose answers were kept are the text that was sent, in order,   *)
(* and reading it took no more than seven calls (structure.py,                *)
(* _SPLIT_MAX_DEPTH).                                                         *)
LEMMA EveryLineRead == ReadInv => EveryLineIsRead
<1> SUFFICES ASSUME ReadInv PROVE EveryLineIsRead
  OBVIOUS
<1>1. calls <= 7
  BY DEF ReadInv, InBudget
<1>2. (pc = "align" \/ (Done /\ ~result.error)) => Tiles(text, read)
  BY DEF ReadInv
<1> QED
  BY <1>1, <1>2 DEF EveryLineIsRead

-----------------------------------------------------------------------------
(* How often a value is said.                                                 *)

(* What is matched one by one with some of another set is no more than it.    *)
Matched(A, B, R) ==
    /\ \A a \in A : \E b \in B : <<a, b>> \in R
    /\ \A a1 \in A, a2 \in A, b \in B : <<a1, b>> \in R /\ <<a2, b>> \in R => a1 = a2

(* It is.                                                                     *)
LEMMA MatchedIs ==
    ASSUME NEW A, NEW B, NEW R, Matched(A, B, R), IsFiniteSet(B)
    PROVE  IsFiniteSet(A) /\ Cardinality(A) <= Cardinality(B)
<1> DEFINE g(a) == CHOOSE b \in B : <<a, b>> \in R
           f == [a \in A |-> g(a)]
<1>0. \A a \in A : g(a) \in B /\ <<a, g(a)>> \in R
  BY DEF Matched
<1> HIDE DEF g
<1>1. \A a \in A : f[a] \in B /\ <<a, f[a]>> \in R
  BY <1>0
<1>2. f \in [A -> B]
  BY <1>0
<1> HIDE DEF f
<1>3. \A a1 \in A, a2 \in A : f[a1] = f[a2] => a1 = a2
  BY <1>1 DEF Matched
<1>4. f \in Injection(A, B)
  BY <1>2, <1>3 DEF Injection, IsInjective
<1> QED
  BY <1>4, FS_Injection

(* How many items of a list say a value.                                      *)
HowOften(s, v) == Cardinality(Times(s, v))

(* A number of them.                                                          *)
LEMMA CountIs ==
    ASSUME NEW s, IsList(s), NEW v
    PROVE  IsFiniteSet(Times(s, v)) /\ HowOften(s, v) \in Nat
<1>1. DOMAIN s = 1..Len(s) /\ Len(s) \in Nat
  BY ListIsFinite
<1> DEFINE n == Len(s)
<1>2. Times(s, v) \in SUBSET (1..n)
  BY <1>1 DEF Times
<1>3. n \in Int /\ 1 \in Int
  BY <1>1
<1> HIDE DEF n
<1>4. IsFiniteSet(1..n)
  BY <1>3, FS_Interval
<1>5. IsFiniteSet(Times(s, v))
  BY <1>2, <1>4, FS_Subset
<1> QED
  BY <1>5, FS_CardinalityType DEF HowOften

(* Two lists say a value as often as the one and the other.                   *)
LEMMA CountBoth ==
    ASSUME NEW S, NEW a \in Seq(S), NEW b \in Seq(S), NEW v
    PROVE  HowOften(a \o b, v) = HowOften(a, v) + HowOften(b, v)
<1> DEFINE ab == a \o b
           n == Len(a)
           m == Len(b)
           A == Times(a, v)
           B == Times(b, v)
           C == {n + i : i \in B}
           f == [i \in B |-> n + i]
<1>1. n \in Nat /\ m \in Nat /\ DOMAIN a = 1..n /\ DOMAIN b = 1..m /\ DOMAIN ab = 1..(n + m)
      /\ (\A i \in 1..n : ab[i] = a[i]) /\ \A i \in 1..m : ab[n + i] = b[i]
  <2>1. ab \in Seq(S) /\ Len(ab) = n + m /\ n \in Nat /\ m \in Nat
    BY EndToEnd
  <2>2. \A i \in 1..n : ab[i] = a[i]
    BY EndToEnd
  <2>3. \A i \in 1..m : ab[n + i] = b[i]
    BY EndToEnd
  <2>4. DOMAIN a = 1..n /\ DOMAIN b = 1..m
    OBVIOUS
  <2> HIDE DEF ab, n, m
  <2>5. DOMAIN ab = 1..(n + m)
    BY <2>1
  <2> QED
    BY <2>1, <2>2, <2>3, <2>4, <2>5
<1> HIDE DEF ab, n, m
<1>2. \A i : i \in A <=> i \in 1..n /\ Said(a[i].value) = v
  BY <1>1 DEF Times
<1>3. \A i : i \in B <=> i \in 1..m /\ Said(b[i].value) = v
  BY <1>1 DEF Times
<1>4. \A i : i \in Times(ab, v) <=> i \in 1..(n + m) /\ Said(ab[i].value) = v
  BY <1>1 DEF Times
<1> HIDE DEF A, B
<1>5. \A i : i \in C <=> i \in (n + 1)..(n + m) /\ Said(ab[i].value) = v
  <2>1. ASSUME NEW i \in C PROVE i \in (n + 1)..(n + m) /\ Said(ab[i].value) = v
    <3>1. PICK j \in B : i = n + j
      OBVIOUS
    <3>2. j \in 1..m /\ Said(b[j].value) = v /\ ab[n + j] = b[j]
      BY <1>1, <1>3
    <3> QED
      BY <1>1, <3>1, <3>2
  <2>2. ASSUME NEW i \in (n + 1)..(n + m), Said(ab[i].value) = v PROVE i \in C
    <3> DEFINE j == i - n
    <3>1. j \in 1..m /\ i = n + j
      BY <1>1
    <3> HIDE DEF j
    <3>2. j \in B
      BY <1>1, <1>3, <2>2, <3>1
    <3> QED
      BY <3>1, <3>2
  <2> HIDE DEF C
  <2> QED
    BY <2>1, <2>2
<1>6. A \cap C = {} /\ Times(ab, v) = A \cup C
  <2> HIDE DEF C
  <2>1. A \cap C = {}
    BY <1>1, <1>2, <1>5
  <2>2. \A i : i \in 1..(n + m) <=> i \in 1..n \/ i \in (n + 1)..(n + m)
    BY <1>1
  <2>3. \A i : i \in Times(ab, v) <=> i \in A \/ i \in C
    BY <1>1, <1>2, <1>4, <1>5, <2>2
  <2> QED
    BY <2>1, <2>3
<1>7. IsFiniteSet(A) /\ IsFiniteSet(B) /\ Cardinality(A) \in Nat /\ Cardinality(B) \in Nat
  <2>1. IsList(a) /\ IsList(b)
    BY SeqIsList
  <2> QED
    BY <2>1, CountIs DEF HowOften, A, B
<1>8. f \in Bijection(B, C)
  <2>1. f \in [B -> C]
    OBVIOUS
  <2>2. \A i \in B, j \in B : f[i] = f[j] => i = j
    BY <1>1, <1>3
  <2>3. \A y \in C : \E i \in B : f[i] = y
    OBVIOUS
  <2> HIDE DEF f, C
  <2> QED
    BY <2>1, <2>2, <2>3 DEF Bijection, Injection, Surjection, IsInjective
<1>9. IsFiniteSet(C) /\ Cardinality(C) = Cardinality(B)
  <2> HIDE DEF f, C
  <2>1. ExistsBijection(B, C)
    BY <1>8 DEF ExistsBijection
  <2> QED
    BY <1>7, <2>1, FS_Bijection
<1>10. Cardinality(A \cup C) = Cardinality(A) + Cardinality(B)
  <2> HIDE DEF C
  <2>1. Cardinality(A \cup C) = Cardinality(A) + Cardinality(C) - Cardinality(A \cap C)
    BY <1>7, <1>9, FS_Union
  <2>2. Cardinality(A \cap C) = 0
    BY <1>6, FS_EmptySet
  <2> QED
    BY <1>7, <1>9, <2>1, <2>2
<1> HIDE DEF C
<1> QED
  BY <1>6, <1>10 DEF HowOften, A, B, ab

(* Lists that say a value no more often do not say it more often end to end.  *)
LEMMA CountFlat ==
    ASSUME NEW C, NEW A, NEW B, NEW m1 \in [C -> Seq(A)], NEW m2 \in [C -> Seq(B)], NEW v,
           \A c \in C : HowOften(m1[c], v) <= HowOften(m2[c], v), NEW s \in Seq(C)
    PROVE  HowOften(FlatBy(m1, s), v) <= HowOften(FlatBy(m2, s), v)
<1> DEFINE n == Len(s)
           pre(i) == SubSeq(s, 1, i)
           G == {i \in 0..n : HowOften(FlatBy(m1, pre(i)), v) <= HowOften(FlatBy(m2, pre(i)), v)}
<1>1. n \in Nat /\ pre(0) = <<>> /\ pre(n) = s /\ <<>> \in Seq(C)
      /\ \A i \in 1..n : pre(i - 1) \in Seq(C) /\ pre(i) = Append(pre(i - 1), s[i]) /\ s[i] \in C
  <2>1. n \in Nat /\ (\A i \in 1..n : s[i] \in C) /\ <<>> \in Seq(C)
    OBVIOUS
  <2>2. /\ pre(0) = <<>> /\ pre(n) = s
        /\ \A i \in 1..n : pre(i - 1) \in Seq(C) /\ pre(i) = Append(pre(i - 1), s[i])
    BY BuiltUp
  <2> HIDE DEF n, pre
  <2> QED
    BY <2>1, <2>2
<1>2. FlatBy(m1, <<>>) = <<>> /\ FlatBy(m2, <<>>) = <<>>
  <2>1. EndToEndBy(C, A, m1, <<>>, <<>>) /\ EndToEndBy(C, B, m2, <<>>, <<>>)
    BY <1>1, FlatByIs
  <2> QED
    BY <2>1 DEF EndToEndBy
<1>3. HowOften(<<>>, v) = 0
  <2>1. Times(<<>>, v) = {}
    BY DEF Times
  <2> QED
    BY <2>1, FS_EmptySet DEF HowOften
<1> HIDE DEF pre, n
<1>4. 0 \in G
  BY <1>1, <1>2, <1>3
<1>5. ASSUME NEW i \in 1..n, i - 1 \in G PROVE i \in G
  <2> DEFINE p == pre(i - 1)
             x == s[i]
  <2>1. p \in Seq(C) /\ x \in C /\ pre(i) = Append(p, x)
    BY <1>1
  <2>2. HowOften(FlatBy(m1, p), v) <= HowOften(FlatBy(m2, p), v)
    BY <1>5
  <2> HIDE DEF p, x
  <2>3. Append(p, x) = p \o <<x>> /\ <<x>> \in Seq(C)
    BY <2>1
  <2>4. FlatBy(m1, p \o <<x>>) = FlatBy(m1, p) \o m1[x] /\ FlatBy(m1, p) \in Seq(A)
    <3>1. EndToEndBy(C, A, m1, p, <<x>>)
      BY <2>1, <2>3, FlatByIs
    <3>2. FlatBy(m1, <<x>>) = m1[x]
      BY <2>1, FlatByOne
    <3> QED
      BY <3>1, <3>2 DEF EndToEndBy
  <2>5. FlatBy(m2, p \o <<x>>) = FlatBy(m2, p) \o m2[x] /\ FlatBy(m2, p) \in Seq(B)
    <3>1. EndToEndBy(C, B, m2, p, <<x>>)
      BY <2>1, <2>3, FlatByIs
    <3>2. FlatBy(m2, <<x>>) = m2[x]
      BY <2>1, FlatByOne
    <3> QED
      BY <3>1, <3>2 DEF EndToEndBy
  <2> DEFINE a == FlatBy(m1, p)
             b == FlatBy(m2, p)
             c == m1[x]
             d == m2[x]
  <2>6. c \in Seq(A) /\ d \in Seq(B) /\ HowOften(c, v) <= HowOften(d, v)
    BY <2>1
  <2> HIDE DEF a, b, c, d
  <2>7. HowOften(a \o c, v) = HowOften(a, v) + HowOften(c, v)
    BY <2>4, <2>6, CountBoth DEF a
  <2>8. HowOften(b \o d, v) = HowOften(b, v) + HowOften(d, v)
    BY <2>5, <2>6, CountBoth DEF b
  <2>9. /\ HowOften(a, v) \in Nat /\ HowOften(b, v) \in Nat /\ HowOften(c, v) \in Nat
        /\ HowOften(d, v) \in Nat
    <3>1. IsList(a) /\ IsList(b) /\ IsList(c) /\ IsList(d)
      BY <2>4, <2>5, <2>6, SeqIsList DEF a, b
    <3> QED
      BY <3>1, CountIs
  <2>10. HowOften(a, v) <= HowOften(b, v)
    BY <2>2 DEF a, b
  <2>11. HowOften(a \o c, v) <= HowOften(b \o d, v)
    BY <2>6, <2>7, <2>8, <2>9, <2>10
  <2>12. HowOften(FlatBy(m1, pre(i)), v) <= HowOften(FlatBy(m2, pre(i)), v)
    BY <2>1, <2>3, <2>4, <2>5, <2>11 DEF a, b, c, d
  <2>13. i \in 0..n
    BY <1>1
  <2> QED
    BY <2>12, <2>13
<1>6. \A i \in 0..n : i \in G
  <2> HIDE DEF G
  <2> QED
    BY <1>1, <1>4, <1>5, UpTo
<1>7. n \in 0..n
  BY <1>1
<1>8. HowOften(FlatBy(m1, pre(n)), v) <= HowOften(FlatBy(m2, pre(n)), v)
  BY <1>6, <1>7
<1> QED
  BY <1>1, <1>8

(* A value restored says the same words.                                      *)
LEMMA SaidKept ==
    ASSUME NEW T, NEW value, IsList(value)
    PROVE  Said(restore(T, value)) = Said(value)
<1> DEFINE r == restore(T, value)
<1>1. DOMAIN r = DOMAIN value /\ \A i \in DOMAIN value : r[i].w = value[i].w
  BY RestoredIs
<1> HIDE DEF r
<1>2. [i \in DOMAIN r |-> r[i].w] = [i \in DOMAIN value |-> value[i].w]
  BY <1>1
<1> QED
  BY <1>2 DEF Said, r

(* What is said is something only of a value that is not empty.               *)
LEMMA SaidIs ==
    ASSUME NEW value, IsValue(value)
    PROVE  Said(value) = <<>> <=> value = Empty
<1>1. IsList(value) /\ DOMAIN value = 1..Len(value) /\ Len(value) \in Nat
  BY ListIsFinite DEF IsValue
<1> DEFINE s == Said(value)
<1>2. s = [i \in DOMAIN value |-> value[i].w]
  BY DEF Said
<1> HIDE DEF s
<1>3. IsList(s) /\ Len(s) = Len(value)
  <2>1. s = [i \in DOMAIN value |-> s[i]]
    BY <1>2
  <2> QED
    BY <1>1, <2>1, MapIsList
<1>4. (s = <<>> <=> Len(s) = 0) /\ (value = <<>> <=> Len(value) = 0)
  <2> DEFINE A == Range(s)
             B == Range(value)
  <2>1. s \in Seq(A) /\ value \in Seq(B)
    BY <1>1, <1>3 DEF IsList
  <2> HIDE DEF A, B
  <2> QED
    BY <2>1
<1> QED
  BY <1>3, <1>4 DEF s, Empty

(* Of a value that is said, alignment has as many as the section has.         *)
LEMMA TargetsCount ==
    ASSUME NEW section \in Section, NEW v, v # <<>>
    PROVE  HowOften(section.fields, v) <= HowOften(Targets(section), v)
<1> DEFINE fields == section.fields
           I == {i \in DOMAIN fields : fields[i].value # Empty}
           n == Cardinality(I)
           at == Ascending(I)
           items == Kepts(section)
           ts == Targets(section)
           A == Times(fields, v)
           B == Times(ts, v)
           R == {<<at[p], p>> : p \in 1..n}
<1>1. IsList(fields) /\ Range(fields) \subseteq Found
  <2>1. fields \in Seq(Found)
    BY DEF Section
  <2> HIDE DEF fields
  <2> QED
    BY <2>1, SeqIsList
<1>2. IsList(ts) /\ DOMAIN ts = DOMAIN items
      /\ \A i \in DOMAIN items : ts[i].value = items[i].value
  <2>1. ts \in Seq(Aligned)
    BY TargetsAre
  <2>2. DOMAIN ts = DOMAIN items
    BY TargetsAre
  <2>3. \A i \in DOMAIN items : ts[i].value = items[i].value
    BY TargetsAre
  <2> HIDE DEF ts, items
  <2> QED
    BY <2>1, <2>2, <2>3, SeqIsList
<1>3. items = Kept(fields, I)
  BY DEF Kepts
<1>4. I \in SUBSET DOMAIN fields /\ \A i \in DOMAIN fields : i \in I <=> fields[i].value # Empty
  OBVIOUS
<1> HIDE DEF I, fields, items, ts
<1>5. /\ DOMAIN items = 1..n /\ IsFiniteSet(I) /\ n \in Nat
      /\ \A p \in 1..n : at[p] \in I /\ items[p] = fields[at[p]]
  BY <1>1, <1>3, <1>4, KeptIs
<1>6. \A x \in I : \E p \in 1..n : at[p] = x
  <2>1. I \in SUBSET Nat
    <3>1. DOMAIN fields = 1..Len(fields)
      BY <1>1, ListIsFinite
    <3>2. 1..Len(fields) \subseteq Nat
      OBVIOUS
    <3> QED
      BY <1>4, <3>1, <3>2
  <2> QED
    BY <1>5, <2>1, AscendingIs
<1> HIDE DEF at, n
<1>7. \A p \in 1..n : ts[p].value = fields[at[p]].value
  BY <1>2, <1>5
<1>8. ASSUME NEW a \in A PROVE \E b \in B : <<a, b>> \in R
  <2>1. a \in DOMAIN fields /\ Said(fields[a].value) = v
    BY DEF Times
  <2>2. fields[a] \in Found
    BY <1>1, <2>1 DEF Range
  <2>3. IsValue(fields[a].value)
    BY <2>2, FoundIs
  <2>4. fields[a].value # Empty
    BY <2>1, <2>3, SaidIs
  <2>5. PICK p \in 1..n : at[p] = a
    BY <1>4, <1>6, <2>1, <2>4
  <2>6. p \in B
    BY <1>2, <1>5, <1>7, <2>1, <2>5 DEF Times
  <2> QED
    BY <2>5, <2>6
<1>9. \A a1 \in A, a2 \in A, b \in B : <<a1, b>> \in R /\ <<a2, b>> \in R => a1 = a2
  OBVIOUS
<1>10. IsFiniteSet(B)
  BY <1>2, CountIs
<1> HIDE DEF A, B, R
<1>11. Matched(A, B, R)
  BY <1>8, <1>9 DEF Matched
<1>12. Cardinality(A) <= Cardinality(B)
  BY <1>10, <1>11, MatchedIs
<1> QED
  BY <1>12 DEF HowOften, A, B, fields, ts

(* Of a value that is said, alignment has to place as many as were got.       *)
LEMMA ItemsCount ==
    ASSUME NEW secs \in Sections, NEW v, v # <<>>
    PROVE  HowOften(FieldsOf(secs), v) <= HowOften(ItemsOf(secs), v)
<1> DEFINE C == Section
           m1 == [x \in C |-> x.fields]
           m2 == [x \in C |-> Targets(x)]
<1>1. m1 \in [C -> Seq(Found)]
  BY DEF Section
<1>2. m2 \in [C -> Seq(Aligned)]
  <2>1. \A x \in C : Targets(x) \in Seq(Aligned)
    BY TargetsAre
  <2> HIDE DEF C
  <2> QED
    BY <2>1
<1>3. \A x \in C : HowOften(m1[x], v) <= HowOften(m2[x], v)
  <2>1. \A x \in C : HowOften(x.fields, v) <= HowOften(Targets(x), v)
    BY TargetsCount
  <2> HIDE DEF C
  <2> QED
    BY <2>1
<1>4. secs \in Seq(C)
  BY DEF Sections
<1>5. FieldsOf(secs) = FlatBy(m1, secs)
  <2> DEFINE g == [i \in DOMAIN secs |-> secs[i].fields]
  <2>1. \A i \in DOMAIN secs : secs[i] \in C => g[i] = m1[secs[i]]
    OBVIOUS
  <2>2. g = [i \in DOMAIN secs |-> g[i]]
    OBVIOUS
  <2> HIDE DEF g, m1, C
  <2>3. FlattenSeq(g) = FlatBy(m1, secs)
    BY <1>4, <2>1, <2>2, SameLists
  <2> QED
    BY <2>3 DEF FieldsOf, g
<1>6. ItemsOf(secs) = FlatBy(m2, secs)
  <2> DEFINE g == [i \in DOMAIN secs |-> Targets(secs[i])]
  <2>1. \A i \in DOMAIN secs : secs[i] \in C => g[i] = m2[secs[i]]
    OBVIOUS
  <2>2. g = [i \in DOMAIN secs |-> g[i]]
    OBVIOUS
  <2> HIDE DEF g, m2, C
  <2>3. FlattenSeq(g) = FlatBy(m2, secs)
    BY <1>4, <2>1, <2>2, SameLists
  <2> QED
    BY <2>3 DEF ItemsOf, g
<1> HIDE DEF m1, m2, C
<1>7. HowOften(FlatBy(m1, secs), v) <= HowOften(FlatBy(m2, secs), v)
  BY <1>1, <1>2, <1>3, <1>4, CountFlat
<1> QED
  BY <1>5, <1>6, <1>7

(* A list with one more item says its value once more.                        *)
LEMMA CountMore ==
    ASSUME NEW S, NEW s \in Seq(S), NEW x \in S, NEW v
    PROVE  HowOften(Append(s, x), v) = HowOften(s, v) + (IF Said(x.value) = v THEN 1 ELSE 0)
<1>1. Append(s, x) = s \o <<x>> /\ <<x>> \in Seq(S)
  OBVIOUS
<1>2. HowOften(s \o <<x>>, v) = HowOften(s, v) + HowOften(<<x>>, v)
  BY <1>1, CountBoth
<1>3. Times(<<x>>, v) = IF Said(x.value) = v THEN {1} ELSE {}
  <2> DEFINE t == <<x>>
  <2>1. DOMAIN t = {1} /\ t[1] = x
    OBVIOUS
  <2> HIDE DEF t
  <2>2. Times(t, v) = IF Said(x.value) = v THEN {1} ELSE {}
    BY <2>1 DEF Times
  <2> QED
    BY <2>2 DEF t
<1>4. Cardinality({1}) = 1 /\ Cardinality({}) = 0
  BY FS_Singleton, FS_EmptySet
<1>5. HowOften(<<x>>, v) = IF Said(x.value) = v THEN 1 ELSE 0
  BY <1>3, <1>4 DEF HowOften
<1> QED
  BY <1>1, <1>2, <1>5

-----------------------------------------------------------------------------
(* The places of a placement that say a value: fields, cells of rows, and the *)
(* rest.                                                                      *)
Place(kind, g, n, k) == [kind |-> kind, g |-> g, n |-> n, k |-> k]

InField(p, v, x) ==
    \E f \in Range(Fields) :
        /\ ~f.repeatable /\ f.key \in DOMAIN p.values /\ Said(p.values[f.key]) = v
        /\ x = Place("field", "", 0, f.key)
InRow(p, v, x) ==
    \E f \in Range(Fields) : \E n \in DOMAIN p.rows[f.section] :
        /\ f.repeatable /\ f.key \in DOMAIN p.rows[f.section][n]
        /\ Said(p.rows[f.section][n][f.key]) = v
        /\ x = Place("row", f.section, n, f.key)
InRest(p, v, x) ==
    \E i \in DOMAIN p.extras : Said(p.extras[i].value) = v /\ x = Place("rest", "", i, "")
IsPlace(p, v, x) == InField(p, v, x) \/ InRow(p, v, x) \/ InRest(p, v, x)

(* A placement has all places another has, and one more, that says w.         *)
Grows(p, q, w) ==
    /\ \A v, x : IsPlace(p, v, x) => IsPlace(q, v, x)
    /\ \E y : IsPlace(q, w, y) /\ \A v : ~IsPlace(p, v, y)

(* One more under "other information".                                        *)
LEMMA RestGrows ==
    ASSUME NEW p, NEW q, NEW S, p.extras \in Seq(S), NEW x \in S,
           q.values = p.values, q.rows = p.rows, q.extras = Append(p.extras, x)
    PROVE  Grows(p, q, Said(x.value))
<1> DEFINE a == p.extras
           b == q.extras
           n == Len(a)
           y == Place("rest", "", n + 1, "")
<1>1. /\ DOMAIN a = 1..n /\ n \in Nat /\ DOMAIN b = 1..(n + 1) /\ b[n + 1] = x
      /\ \A i \in 1..n : b[i] = a[i]
  <2>1. a \in Seq(S) /\ b = Append(a, x)
    OBVIOUS
  <2> HIDE DEF a, b
  <2> QED
    BY <2>1
<1> HIDE DEF a, b, n
<1>0. \A i \in 1..n : i # n + 1
  BY <1>1
<1>2. ASSUME NEW v, NEW z, IsPlace(p, v, z) PROVE IsPlace(q, v, z)
  <2>1. InField(p, v, z) => InField(q, v, z)
    BY DEF InField
  <2>2. InRow(p, v, z) => InRow(q, v, z)
    BY DEF InRow
  <2>3. InRest(p, v, z) => InRest(q, v, z)
    <3>1. ASSUME NEW i \in DOMAIN a, Said(a[i].value) = v, z = Place("rest", "", i, "")
          PROVE  InRest(q, v, z)
      <4>1. i \in DOMAIN b /\ b[i] = a[i]
        BY <1>1
      <4> QED
        BY <3>1, <4>1 DEF InRest, b
    <3> QED
      BY <3>1 DEF InRest, a
  <2> QED
    BY <1>2, <2>1, <2>2, <2>3 DEF IsPlace
<1>3. IsPlace(q, Said(x.value), y)
  <2>1. n + 1 \in DOMAIN b /\ b[n + 1] = x
    BY <1>1
  <2> QED
    BY <2>1 DEF IsPlace, InRest, b
<1>4. ASSUME NEW v PROVE ~IsPlace(p, v, y)
  <2>1. y.kind = "rest" /\ y.n = n + 1
    BY DEF Place
  <2> HIDE DEF y
  <2>2. ~InField(p, v, y)
    <3> SUFFICES ASSUME NEW h, y = Place("field", "", 0, h.key) PROVE FALSE
      BY DEF InField
    <3>1. y.kind = "field"
      BY DEF Place
    <3> QED
      BY <2>1, <3>1
  <2>3. ~InRow(p, v, y)
    BY <2>1 DEF InRow, Place
  <2>4. ~InRest(p, v, y)
    <3> SUFFICES ASSUME NEW i \in DOMAIN a, y = Place("rest", "", i, "") PROVE FALSE
      BY DEF InRest, a
    <3>1. i = n + 1
      BY <2>1 DEF Place
    <3>2. i \in 1..n
      BY <1>1
    <3>3. i # n + 1
      BY <1>0, <3>2
    <3> QED
      BY <3>1, <3>3
  <2> QED
    BY <2>2, <2>3, <2>4 DEF IsPlace
<1> HIDE DEF y
<1> QED
  BY <1>2, <1>3, <1>4 DEF Grows

(* A field that had no value.                                                 *)
LEMMA FieldGrows ==
    ASSUME NEW p, NEW q, NEW f \in Range(Fields), NEW w, ~f.repeatable,
           f.key \notin DOMAIN p.values, q.values = With(p.values, f.key, w),
           q.rows = p.rows, q.extras = p.extras
    PROVE  Grows(p, q, Said(w))
<1> DEFINE a == p.values
           b == q.values
           y == Place("field", "", 0, f.key)
<1>1. /\ DOMAIN b = DOMAIN a \cup {f.key} /\ b[f.key] = w
      /\ \A k \in DOMAIN a : b[k] = a[k]
  <2>1. b = [x \in DOMAIN a \cup {f.key} |-> IF x = f.key THEN w ELSE a[x]]
    BY DEF With
  <2>2. f.key \notin DOMAIN a
    OBVIOUS
  <2> HIDE DEF a, b
  <2> QED
    BY <2>1, <2>2
<1> HIDE DEF a, b
<1>2. ASSUME NEW v, NEW z, IsPlace(p, v, z) PROVE IsPlace(q, v, z)
  <2>1. InField(p, v, z) => InField(q, v, z)
    <3>1. ASSUME NEW h \in Range(Fields), ~h.repeatable, h.key \in DOMAIN a,
                 Said(a[h.key]) = v, z = Place("field", "", 0, h.key)
          PROVE  InField(q, v, z)
      <4>1. h.key \in DOMAIN b /\ b[h.key] = a[h.key]
        BY <1>1, <3>1
      <4> QED
        BY <3>1, <4>1 DEF InField, b
    <3> QED
      BY <3>1 DEF InField, a
  <2>2. InRow(p, v, z) => InRow(q, v, z)
    BY DEF InRow
  <2>3. InRest(p, v, z) => InRest(q, v, z)
    BY DEF InRest
  <2> QED
    BY <1>2, <2>1, <2>2, <2>3 DEF IsPlace
<1>3. IsPlace(q, Said(w), y)
  <2>1. f.key \in DOMAIN b /\ b[f.key] = w
    BY <1>1
  <2> QED
    BY <2>1 DEF IsPlace, InField, b
<1>4. ASSUME NEW v PROVE ~IsPlace(p, v, y)
  <2>1. y.kind = "field" /\ y.k = f.key
    BY DEF Place
  <2> HIDE DEF y
  <2>2. ~InRest(p, v, y)
    <3> SUFFICES ASSUME NEW i, y = Place("rest", "", i, "") PROVE FALSE
      BY DEF InRest
    <3>1. y.kind = "rest"
      BY DEF Place
    <3> QED
      BY <2>1, <3>1
  <2>3. ~InRow(p, v, y)
    BY <2>1 DEF InRow, Place
  <2>4. ~InField(p, v, y)
    <3> SUFFICES ASSUME NEW h \in Range(Fields), h.key \in DOMAIN p.values,
                        y = Place("field", "", 0, h.key)
                 PROVE  FALSE
      BY DEF InField
    <3>1. h.key = f.key
      BY <2>1 DEF Place
    <3> QED
      BY <3>1
  <2> QED
    BY <2>2, <2>3, <2>4 DEF IsPlace
<1> HIDE DEF y
<1> QED
  BY <1>2, <1>3, <1>4 DEF Grows

(* Rows with all that other rows have, and one more cell.                     *)
MoreRows(a, b, k, w) ==
    /\ \A n \in DOMAIN a : /\ n \in DOMAIN b
                           /\ \A x \in DOMAIN a[n] : x \in DOMAIN b[n] /\ b[n][x] = a[n][x]
    /\ \E n \in DOMAIN b : /\ k \in DOMAIN b[n] /\ b[n][k] = w
                           /\ ~(n \in DOMAIN a /\ k \in DOMAIN a[n])

(* A cell of a table.                                                         *)
LEMMA RowGrows ==
    ASSUME NEW p, NEW q, NEW f \in Range(Fields), NEW w, f.repeatable,
           q.values = p.values, q.extras = p.extras,
           \A g \in Groups : g # f.section => q.rows[g] = p.rows[g],
           MoreRows(p.rows[f.section], q.rows[f.section], f.key, w)
    PROVE  Grows(p, q, Said(w))
<1> DEFINE a == p.rows[f.section]
           b == q.rows[f.section]
<1>1. PICK m \in DOMAIN b : /\ f.key \in DOMAIN b[m] /\ b[m][f.key] = w
                            /\ ~(m \in DOMAIN a /\ f.key \in DOMAIN a[m])
  BY DEF MoreRows
<1>2. \A n \in DOMAIN a : /\ n \in DOMAIN b
                          /\ \A x \in DOMAIN a[n] : x \in DOMAIN b[n] /\ b[n][x] = a[n][x]
  BY DEF MoreRows
<1> DEFINE y == Place("row", f.section, m, f.key)
<1> HIDE DEF a, b
<1>3. ASSUME NEW v, NEW z, IsPlace(p, v, z) PROVE IsPlace(q, v, z)
  <2>1. InField(p, v, z) => InField(q, v, z)
    BY DEF InField
  <2>2. InRow(p, v, z) => InRow(q, v, z)
    <3>1. ASSUME NEW h \in Range(Fields), NEW n \in DOMAIN p.rows[h.section], h.repeatable,
                 h.key \in DOMAIN p.rows[h.section][n],
                 Said(p.rows[h.section][n][h.key]) = v,
                 z = Place("row", h.section, n, h.key)
          PROVE  InRow(q, v, z)
      <4>1. h.section \in Groups
        BY <3>1 DEF Groups
      <4>2. n \in DOMAIN q.rows[h.section] /\ h.key \in DOMAIN q.rows[h.section][n]
            /\ q.rows[h.section][n][h.key] = p.rows[h.section][n][h.key]
        <5>1. CASE h.section = f.section
          BY <1>2, <3>1, <5>1 DEF a, b
        <5>2. CASE h.section # f.section
          BY <3>1, <4>1, <5>2
        <5> QED
          BY <5>1, <5>2
      <4>3. Said(q.rows[h.section][n][h.key]) = v
        BY <3>1, <4>2
      <4> QED
        BY <3>1, <4>2, <4>3 DEF InRow
    <3> QED
      BY <3>1 DEF InRow
  <2>3. InRest(p, v, z) => InRest(q, v, z)
    BY DEF InRest
  <2> QED
    BY <1>3, <2>1, <2>2, <2>3 DEF IsPlace
<1>4. IsPlace(q, Said(w), y)
  <2>1. InRow(q, Said(w), y)
    BY <1>1 DEF InRow, b
  <2> QED
    BY <2>1 DEF IsPlace
<1>5. ASSUME NEW v PROVE ~IsPlace(p, v, y)
  <2>1. y.kind = "row" /\ y.g = f.section /\ y.n = m /\ y.k = f.key
    BY DEF Place
  <2> HIDE DEF y
  <2>2. ~InRest(p, v, y)
    <3> SUFFICES ASSUME NEW i, y = Place("rest", "", i, "") PROVE FALSE
      BY DEF InRest
    <3>1. y.kind = "rest"
      BY DEF Place
    <3> QED
      BY <2>1, <3>1
  <2>3. ~InField(p, v, y)
    <3> SUFFICES ASSUME NEW h, y = Place("field", "", 0, h.key) PROVE FALSE
      BY DEF InField
    <3>1. y.kind = "field"
      BY DEF Place
    <3> QED
      BY <2>1, <3>1
  <2>4. ~InRow(p, v, y)
    <3> SUFFICES ASSUME NEW h \in Range(Fields), NEW n \in DOMAIN p.rows[h.section],
                        h.key \in DOMAIN p.rows[h.section][n],
                        y = Place("row", h.section, n, h.key)
                 PROVE  FALSE
      BY DEF InRow
    <3>1. h.section = f.section /\ n = m /\ h.key = f.key
      BY <2>1 DEF Place
    <3> QED
      BY <1>1, <3>1 DEF a
  <2> QED
    BY <2>2, <2>3, <2>4 DEF IsPlace
<1> HIDE DEF y
<1> QED
  BY <1>3, <1>4, <1>5 DEF Grows

(* A row is opened, or the open one is continued.                             *)
LEMMA RowOpened ==
    ASSUME NEW S, NEW rows \in Seq(S), NEW k, NEW w, With(<<>>, k, w) \in S
    PROVE  MoreRows(rows, Append(rows, With(<<>>, k, w)), k, w)
<1> DEFINE r == With(<<>>, k, w)
           b == Append(rows, r)
           n == Len(rows)
<1>1. k \in DOMAIN r /\ r[k] = w
  <2>1. r = [x \in DOMAIN <<>> \cup {k} |-> IF x = k THEN w ELSE <<>>[x]]
    BY DEF With
  <2> HIDE DEF r
  <2> QED
    BY <2>1
<1> HIDE DEF r
<1>2. /\ DOMAIN rows = 1..n /\ n \in Nat /\ DOMAIN b = 1..(n + 1) /\ b[n + 1] = r
      /\ \A i \in 1..n : b[i] = rows[i]
  OBVIOUS
<1> HIDE DEF b, n
<1>3. n + 1 \in DOMAIN b /\ n + 1 \notin DOMAIN rows
  BY <1>2
<1>4. \A i \in DOMAIN rows : i \in DOMAIN b /\ b[i] = rows[i]
  BY <1>2
<1>5. MoreRows(rows, b, k, w)
  BY <1>1, <1>2, <1>3, <1>4 DEF MoreRows
<1> QED
  BY <1>5 DEF b, r

(* It is.                                                                     *)
LEMMA RowLonger ==
    ASSUME NEW S, NEW rows \in Seq(S), rows # <<>>, NEW k, NEW w,
           k \notin DOMAIN rows[Len(rows)]
    PROVE  MoreRows(rows, [rows EXCEPT ![Len(rows)] = With(rows[Len(rows)], k, w)], k, w)
<1> DEFINE n == Len(rows)
           last == rows[n]
           r == With(last, k, w)
           b == [rows EXCEPT ![n] = r]
<1>1. DOMAIN r = DOMAIN last \cup {k} /\ r[k] = w
      /\ \A x \in DOMAIN last : x # k => r[x] = last[x]
  <2>1. r = [x \in DOMAIN last \cup {k} |-> IF x = k THEN w ELSE last[x]]
    BY DEF With
  <2> HIDE DEF r, last
  <2> QED
    BY <2>1
<1>2. k \notin DOMAIN last
  OBVIOUS
<1> HIDE DEF r
<1>3. n \in DOMAIN rows /\ DOMAIN b = DOMAIN rows /\ b[n] = r
      /\ \A i \in DOMAIN rows : i # n => b[i] = rows[i]
  OBVIOUS
<1>4. rows[n] = last
  OBVIOUS
<1> HIDE DEF b, n, last
<1>5. ASSUME NEW i \in DOMAIN rows
      PROVE  i \in DOMAIN b /\ \A x \in DOMAIN rows[i] : x \in DOMAIN b[i] /\ b[i][x] = rows[i][x]
  <2>1. CASE i = n
    BY <1>1, <1>2, <1>3, <1>4, <2>1
  <2>2. CASE i # n
    BY <1>3, <2>2
  <2> QED
    BY <2>1, <2>2
<1>6. n \in DOMAIN b /\ k \in DOMAIN b[n] /\ b[n][k] = w
      /\ ~(n \in DOMAIN rows /\ k \in DOMAIN rows[n])
  BY <1>1, <1>2, <1>3, <1>4
<1>7. MoreRows(rows, b, k, w)
  BY <1>5, <1>6 DEF MoreRows
<1> QED
  BY <1>7 DEF b, r, n, last

(* An item placed is one place more, that says its value.                     *)
LEMMA ItemGrows ==
    ASSUME NEW p \in Placements, NEW it \in Aligned
    PROVE  Grows(p, PlaceItem(p, it), Said(it.value))
<1> DEFINE x == [label |-> it.label, value |-> it.value]
           f == it.target
           v == it.value
           q == PlaceItem(p, it)
           pv == p.values
           pr == p.rows
           pe == p.extras
<1>1. x \in Found /\ v \in Vals /\ f \in Range(Fields) \cup {None} /\ x.value = v
  <2>1. PICK y \in Found, t \in Range(Fields) \cup {None} :
            y.value # Empty /\ it = [label |-> y.label, value |-> y.value, target |-> t]
    BY DEF Aligned
  <2>2. y = [label |-> y.label, value |-> y.value]
    BY FoundIs
  <2> QED
    BY <2>1, <2>2 DEF Vals
<1>2. pv \in RowSet /\ pr \in [Groups -> Seq(RowSet)] /\ pe \in Seq(Found)
      /\ p = [values |-> pv, rows |-> pr, extras |-> pe]
  BY DEF Placements
<1>3. ASSUME q = [p EXCEPT !.extras = Append(@, x)] PROVE Grows(p, q, Said(v))
  <2> DEFINE e == Append(pe, x)
  <2>1. q = [p EXCEPT !.extras = e]
    BY <1>3
  <2> HIDE DEF q, e, pv, pr, pe
  <2>2. q = [values |-> pv, rows |-> pr, extras |-> e]
    BY <1>2, <2>1, PartIs
  <2>3. q.values = p.values /\ q.rows = p.rows /\ q.extras = e
    BY <2>2 DEF pv, pr
  <2> HIDE DEF x, v
  <2>4. q.extras = Append(p.extras, x) /\ p.extras \in Seq(Found)
    BY <1>2, <2>3 DEF e, pe
  <2>5. Grows(p, q, Said(x.value))
    BY <1>1, <2>3, <2>4, RestGrows
  <2> QED
    BY <1>1, <2>5
<1>4. ASSUME f # None, ~f.repeatable, f.key \notin DOMAIN pv,
             q = [p EXCEPT !.values = With(@, f.key, v)]
      PROVE  Grows(p, q, Said(v))
  <2> DEFINE d == With(pv, f.key, v)
  <2>1. q = [p EXCEPT !.values = d]
    BY <1>4
  <2>0. f \in Range(Fields)
    BY <1>1, <1>4
  <2> HIDE DEF q, d, pv, pr, pe, f, v
  <2>2. q = [values |-> d, rows |-> pr, extras |-> pe]
    BY <1>2, <2>1, PartIs
  <2>3. q.values = d /\ q.rows = p.rows /\ q.extras = p.extras
    BY <2>2 DEF pr, pe
  <2>4. q.values = With(p.values, f.key, v) /\ f.key \notin DOMAIN p.values
    BY <1>4, <2>3 DEF d, pv
  <2> QED
    BY <1>4, <2>0, <2>3, <2>4, FieldGrows
<1>5. ASSUME f # None, f.repeatable, q = PlaceInRow(p, f, v) PROVE Grows(p, q, Said(v))
  <2> DEFINE g == f.section
             rows == pr[g]
             n == Len(rows)
             new == With(<<>>, f.key, v)
             more == With(rows[n], f.key, v)
             R1 == [pr EXCEPT ![g] = Append(rows, new)]
             R2 == [pr EXCEPT ![g] = [rows EXCEPT ![n] = more]]
  <2>1. f \in Range(Fields) /\ g \in Groups
    BY <1>1, <1>5 DEF Groups
  <2>2. rows \in Seq(RowSet)
    BY <1>2, <2>1
  <2>3. new \in RowSet
    BY <1>1, <1>2, <2>1, WithIs
  <2>4. \/ q = [p EXCEPT !.rows = R1]
        \/ q = [p EXCEPT !.rows = R2] /\ rows # <<>> /\ f.key \notin DOMAIN rows[n]
    <3>1. [p EXCEPT !.rows[g] = Append(@, new)] = [p EXCEPT !.rows = R1]
      OBVIOUS
    <3>2. [p EXCEPT !.rows[g][n] = With(@, f.key, v)] = [p EXCEPT !.rows = R2]
      <4>1. [pr EXCEPT ![g][n] = With(@, f.key, v)] = R2
        BY <1>2, <2>1
      <4>2. [p EXCEPT !.rows[g][n] = With(@, f.key, v)]
                = [p EXCEPT !.rows = [pr EXCEPT ![g][n] = With(@, f.key, v)]]
        OBVIOUS
      <4> QED
        BY <4>1, <4>2
    <3>3. PlaceInRow(p, f, v) =
            IF rows = <<>> \/ f.key \in DOMAIN rows[n]
            THEN [p EXCEPT !.rows[g] = Append(@, new)]
            ELSE [p EXCEPT !.rows[g][n] = With(@, f.key, v)]
      BY DEF PlaceInRow
    <3> HIDE DEF R1, R2
    <3> QED
      BY <1>5, <3>1, <3>2, <3>3
  <2> HIDE DEF q, f, v
  <2>5. ASSUME NEW R, q = [p EXCEPT !.rows = R], \A h \in Groups : h # g => R[h] = pr[h],
               MoreRows(rows, R[g], f.key, v)
        PROVE  Grows(p, q, Said(v))
    <3> HIDE DEF pv, pr, pe
    <3>1. q = [values |-> pv, rows |-> R, extras |-> pe]
      BY <1>2, <2>5, PartIs
    <3>2. q.values = p.values /\ q.rows = R /\ q.extras = p.extras
      BY <3>1 DEF pv, pe
    <3>3. \A h \in Groups : h # f.section => q.rows[h] = p.rows[h]
      BY <2>5, <3>2 DEF pr
    <3>4. MoreRows(p.rows[f.section], q.rows[f.section], f.key, v)
      BY <2>5, <3>2 DEF pr
    <3> QED
      BY <1>5, <2>1, <3>2, <3>3, <3>4, RowGrows
  <2>6. CASE q = [p EXCEPT !.rows = R1]
    <3>1. R1[g] = Append(rows, new) /\ \A h \in Groups : h # g => R1[h] = pr[h]
      BY <1>2, <2>1
    <3>2. MoreRows(rows, Append(rows, new), f.key, v)
      BY <2>2, <2>3, RowOpened
    <3> HIDE DEF R1, new, rows
    <3> QED
      BY <2>5, <2>6, <3>1, <3>2
  <2>7. CASE q = [p EXCEPT !.rows = R2] /\ rows # <<>> /\ f.key \notin DOMAIN rows[n]
    <3>1. R2[g] = [rows EXCEPT ![n] = more] /\ \A h \in Groups : h # g => R2[h] = pr[h]
      BY <1>2, <2>1
    <3>2. MoreRows(rows, [rows EXCEPT ![n] = more], f.key, v)
      BY <2>2, <2>7, RowLonger
    <3> HIDE DEF R2, more, rows
    <3> QED
      BY <2>5, <2>7, <3>1, <3>2
  <2> QED
    BY <2>4, <2>6, <2>7
<1>6. \/ q = [p EXCEPT !.extras = Append(@, x)]
      \/ f # None /\ f.repeatable /\ q = PlaceInRow(p, f, v)
      \/ /\ f # None /\ ~f.repeatable /\ f.key \notin DOMAIN pv
         /\ q = [p EXCEPT !.values = With(@, f.key, v)]
  BY DEF PlaceItem
<1> QED
  BY <1>3, <1>4, <1>5, <1>6

(* Some places of a placement, as many as a number, say a value.              *)
Holds(p, v, c) ==
    \E F : IsFiniteSet(F) /\ Cardinality(F) = c /\ \A x \in F : IsPlace(p, v, x)

(* A placement that says one value more holds it once more, and the others.   *)
LEMMA HoldsMore ==
    ASSUME NEW p, NEW q, NEW w, NEW v, NEW c \in Nat, Grows(p, q, w), Holds(p, v, c)
    PROVE  Holds(q, v, c + (IF w = v THEN 1 ELSE 0))
<1>1. PICK F : IsFiniteSet(F) /\ Cardinality(F) = c /\ \A x \in F : IsPlace(p, v, x)
  BY DEF Holds
<1>2. \A x \in F : IsPlace(q, v, x)
  BY <1>1 DEF Grows
<1>3. CASE w # v
  <2>1. Holds(q, v, c)
    BY <1>1, <1>2 DEF Holds
  <2>2. c + (IF w = v THEN 1 ELSE 0) = c
    BY <1>3
  <2> QED
    BY <2>1, <2>2
<1>4. CASE w = v
  <2>1. PICK y : IsPlace(q, w, y) /\ ~IsPlace(p, v, y)
    BY DEF Grows
  <2>2. y \notin F
    BY <1>1, <2>1
  <2> DEFINE E == F \cup {y}
  <2>3. IsFiniteSet(E) /\ Cardinality(E) = c + 1
    BY <1>1, <2>2, FS_AddElement
  <2>4. \A x \in E : IsPlace(q, v, x)
    BY <1>2, <1>4, <2>1
  <2> HIDE DEF E
  <2>5. Holds(q, v, c + 1)
    BY <2>3, <2>4 DEF Holds
  <2>6. c + (IF w = v THEN 1 ELSE 0) = c + 1
    BY <1>4
  <2> QED
    BY <2>5, <2>6
<1> QED
  BY <1>3, <1>4

(* Nothing is held of nothing.                                                *)
LEMMA HoldsNone ==
    ASSUME NEW p, NEW v PROVE Holds(p, v, 0)
<1>1. IsFiniteSet({}) /\ Cardinality({}) = 0
  BY FS_EmptySet
<1>2. \A x \in {} : IsPlace(p, v, x)
  OBVIOUS
<1> QED
  BY <1>1, <1>2 DEF Holds

(* Alignment has a place for every value it was given, as often as it was.    *)
LEMMA AlignHolds ==
    ASSUME NEW secs \in Sections, NEW v
    PROVE  Holds(_align(secs), v, HowOften(ItemsOf(secs), v))
<1> DEFINE items == ItemsOf(secs)
           n == Len(items)
           pre(i) == SubSeq(items, 1, i)
           c(i) == HowOften(pre(i), v)
<1>1. items \in Seq(Aligned)
  BY ItemsAre
<1>2. PICK u \in [0..n -> Placements] :
            /\ u[0] = Blank /\ _align(secs) = u[n]
            /\ \A i \in 1..n : u[i] = PlaceItem(u[i - 1], items[i])
  BY AlignIs
<1> DEFINE G == {i \in 0..n : Holds(u[i], v, c(i))}
<1> HIDE DEF items
<1>3. n \in Nat /\ pre(0) = <<>> /\ pre(n) = items
      /\ \A i \in 1..n : /\ pre(i - 1) \in Seq(Aligned) /\ pre(i) = Append(pre(i - 1), items[i])
                         /\ items[i] \in Aligned
  <2>1. n \in Nat /\ \A i \in 1..n : items[i] \in Aligned
    BY <1>1
  <2>2. /\ pre(0) = <<>> /\ pre(n) = items
        /\ \A i \in 1..n : pre(i - 1) \in Seq(Aligned) /\ pre(i) = Append(pre(i - 1), items[i])
    BY <1>1, BuiltUp
  <2> HIDE DEF n, pre
  <2> QED
    BY <2>1, <2>2
<1> HIDE DEF n, pre
<1>4. 0 \in G
  <2>1. Times(<<>>, v) = {}
    BY DEF Times
  <2>2. c(0) = 0
    BY <1>3, <2>1, FS_EmptySet DEF HowOften
  <2>3. Holds(u[0], v, c(0))
    BY <2>2, HoldsNone
  <2> QED
    BY <1>3, <2>3
<1>5. ASSUME NEW i \in 1..n, i - 1 \in G PROVE i \in G
  <2> DEFINE s == pre(i - 1)
             x == items[i]
             p == u[i - 1]
             q == u[i]
             w == Said(x.value)
  <2>1. s \in Seq(Aligned) /\ x \in Aligned /\ pre(i) = Append(s, x)
    BY <1>3
  <2>2. i - 1 \in 0..n /\ i \in 0..n /\ Holds(p, v, HowOften(s, v))
    BY <1>3, <1>5
  <2>3. p \in Placements /\ q = PlaceItem(p, x)
    BY <1>2, <2>2
  <2> HIDE DEF p, q, s, x
  <2>4. Grows(p, PlaceItem(p, x), w)
    BY <2>1, <2>3, ItemGrows
  <2>5. HowOften(s, v) \in Nat
    BY <2>1, SeqIsList, CountIs
  <2>6. Grows(p, q, w)
    BY <2>3, <2>4
  <2> DEFINE m == HowOften(s, v)
  <2>7. Holds(q, v, m + (IF w = v THEN 1 ELSE 0))
    <3> HIDE DEF m, w
    <3>1. m \in Nat /\ Holds(p, v, m)
      BY <2>2, <2>5 DEF m
    <3> QED
      BY <2>6, <3>1, HoldsMore
  <2>8. c(i) = m + (IF w = v THEN 1 ELSE 0)
    BY <2>1, CountMore
  <2>9. Holds(q, v, c(i))
    BY <2>7, <2>8
  <2> QED
    BY <2>2, <2>9 DEF q
<1>6. \A i \in 0..n : i \in G
  <2> HIDE DEF G
  <2> QED
    BY <1>3, <1>4, <1>5, UpTo
<1>7. n \in 0..n
  BY <1>3
<1>8. Holds(u[n], v, c(n))
  BY <1>6, <1>7
<1>9. c(n) = HowOften(items, v)
  BY <1>3
<1> QED
  BY <1>2, <1>8, <1>9 DEF items

(* Tables to ask for, each once, that no row was found of.                    *)
StillOpen(gs, p) ==
    /\ IsList(gs)
    /\ \A i \in DOMAIN gs : gs[i] \in DOMAIN p.rows /\ p.rows[gs[i]] = <<>>
    /\ \A i, j \in DOMAIN gs : gs[i] = gs[j] => i = j

(* The head of a list of tables is open, and so is the rest.                  *)
LEMMA OpenRest ==
    ASSUME NEW gs, NEW p, StillOpen(gs, p), gs # <<>>
    PROVE  /\ p.rows[Head(gs)] = <<>> /\ StillOpen(Tail(gs), p)
           /\ \A i \in DOMAIN Tail(gs) : Tail(gs)[i] # Head(gs)
<1> DEFINE C == Range(gs)
           t == Tail(gs)
           n == Len(gs)
<1>1. gs \in Seq(C) /\ DOMAIN gs = 1..n
  BY ListIsFinite DEF StillOpen, IsList
<1> HIDE DEF C
<1>2. t \in Seq(C) /\ Len(t) = n - 1 /\ n \in Nat \ {0} /\ Head(gs) = gs[1]
      /\ \A i \in 1..(n - 1) : t[i] = gs[i + 1]
  <2>1. t \in Seq(C) /\ Len(t) = n - 1 /\ n \in Nat \ {0}
    BY <1>1, FirstAndRest
  <2>2. \A i \in 1..(n - 1) : t[i] = gs[i + 1]
    BY <1>1, FirstAndRest
  <2>3. Head(gs) = gs[1]
    BY <1>1
  <2> QED
    BY <2>1, <2>2, <2>3
<1>3. IsList(t) /\ DOMAIN t = 1..(n - 1)
  <2>1. IsList(t) /\ DOMAIN t = 1..Len(t)
    BY <1>2, SeqIsList
  <2> QED
    BY <1>2, <2>1
<1> HIDE DEF t, n
<1>4. 1 \in 1..n /\ \A i \in 1..(n - 1) : i + 1 \in 1..n /\ i + 1 # 1
  BY <1>2
<1>5. \A i \in DOMAIN gs : gs[i] \in DOMAIN p.rows /\ p.rows[gs[i]] = <<>>
  BY DEF StillOpen
<1>6. \A i, j \in DOMAIN gs : gs[i] = gs[j] => i = j
  BY DEF StillOpen
<1>7. \A i \in DOMAIN t : t[i] \in DOMAIN p.rows /\ p.rows[t[i]] = <<>> /\ t[i] # gs[1]
  BY <1>1, <1>2, <1>3, <1>4, <1>5, <1>6
<1>8. ASSUME NEW i \in DOMAIN t, NEW j \in DOMAIN t, t[i] = t[j] PROVE i = j
  <2>1. i + 1 = j + 1 /\ i \in Int /\ j \in Int
    <3>1. i \in 1..(n - 1) /\ j \in 1..(n - 1)
      BY <1>3
    <3>2. i + 1 \in DOMAIN gs /\ j + 1 \in DOMAIN gs /\ gs[i + 1] = gs[j + 1]
      BY <1>1, <1>2, <1>4, <1>8, <3>1
    <3>3. i + 1 = j + 1
      BY <1>6, <3>2
    <3> QED
      BY <3>1, <3>3
  <2> QED
    BY <2>1
<1>9. StillOpen(t, p)
  BY <1>3, <1>7, <1>8 DEF StillOpen
<1> QED
  BY <1>1, <1>2, <1>4, <1>5, <1>7, <1>9 DEF t

(* The tables that are asked for are open.                                    *)
LEMMA MissingAreOpen ==
    ASSUME IsList(tmpl.fields), NEW p \in Placements
    PROVE  StillOpen(MissingGroups(p), p)
<1> DEFINE fields == tmpl.fields
           need(g) == p.rows[g] = <<>> /\ \E f \in Range(Shape(g)) : f.required
           first(i) == \A j \in 1..(i - 1) : fields[j].repeatable =>
                           fields[j].section # fields[i].section
           at == {i \in DOMAIN fields : fields[i].repeatable /\ first(i)
                                        /\ need(fields[i].section)}
           names == [i \in DOMAIN fields |-> fields[i].section]
           groups == Kept(names, at)
           n == Cardinality(at)
           pos == Ascending(at)
           m == Min({Len(groups), RECORD_MAX_PASSES})
           gs == SubSeq(groups, 1, m)
<1>1. MissingGroups(p) = gs
  BY DEF MissingGroups
<1>2. IsList(names) /\ DOMAIN names = DOMAIN fields /\ DOMAIN fields = 1..Len(fields)
      /\ Len(fields) \in Nat
  <2>1. names = [i \in DOMAIN fields |-> names[i]]
    OBVIOUS
  <2> HIDE DEF names
  <2> QED
    BY <2>1, MapIsList, ListIsFinite
<1>3. at \in SUBSET DOMAIN names /\ at \in SUBSET Nat
  BY <1>2
<1>4. \A i \in at : names[i] \in DOMAIN p.rows /\ p.rows[names[i]] = <<>>
  <2>1. DOMAIN p.rows = Groups
    BY DEF Placements
  <2>2. ASSUME NEW i \in at PROVE names[i] \in Groups
    <3>1. fields[i] \in Range(fields) /\ fields[i].repeatable
      BY <2>2 DEF Range
    <3>2. fields[i] \in Range(Fields)
      BY <3>1, FieldsAre
    <3> QED
      BY <3>1, <3>2 DEF Groups
  <2>3. \A i \in at : p.rows[names[i]] = <<>>
    OBVIOUS
  <2> QED
    BY <2>1, <2>2, <2>3
<1>5. ASSUME NEW i \in at, NEW j \in at, names[i] = names[j] PROVE i = j
  <2>1. i \in 1..Len(fields) /\ j \in 1..Len(fields) /\ fields[i].repeatable
        /\ fields[j].repeatable /\ fields[i].section = fields[j].section
    BY <1>2, <1>5
  <2>2. first(i) /\ first(j)
    OBVIOUS
  <2>3. ~(j \in 1..(i - 1)) /\ ~(i \in 1..(j - 1))
    BY <2>1, <2>2
  <2> QED
    BY <1>2, <2>1, <2>3
<1> HIDE DEF at, names
<1>6. /\ IsFiniteSet(at) /\ n \in Nat /\ IsList(groups) /\ DOMAIN groups = 1..n
      /\ Len(groups) = n
      /\ \A k \in 1..n : pos[k] \in at /\ groups[k] = names[pos[k]]
  BY <1>2, <1>3, KeptIs
<1>7. \A k, l \in 1..n : pos[k] = pos[l] => k = l
  BY <1>3, <1>6, AscendingIs
<1> HIDE DEF groups, n, pos
<1>8. m \in 0..n
  <2>1. RECORD_MAX_PASSES \in Nat
    BY LimitAssumption
  <2>2. m = IF n <= RECORD_MAX_PASSES THEN n ELSE RECORD_MAX_PASSES
    BY <1>6, <2>1, MinOfTwo
  <2> HIDE DEF m
  <2> QED
    BY <1>6, <2>1, <2>2
<1> HIDE DEF m
<1>9. IsList(gs) /\ DOMAIN gs = 1..m /\ \A k \in 1..m : gs[k] = groups[k] /\ k \in 1..n
  <2> DEFINE C == Range(groups)
  <2>1. groups \in Seq(C)
    BY <1>6 DEF IsList
  <2> HIDE DEF C, gs
  <2>2. gs \in Seq(C) /\ Len(gs) = m
    BY <1>6, <1>8, <2>1, CutIs DEF gs
  <2>3. \A k \in 1..m : gs[k] = groups[k]
    BY <1>6, <1>8, <2>1 DEF gs
  <2>4. \A k \in 1..m : k \in 1..n
    BY <1>6, <1>8
  <2>5. IsList(gs) /\ DOMAIN gs = 1..Len(gs)
    BY <2>2, SeqIsList
  <2> QED
    BY <2>2, <2>3, <2>4, <2>5
<1> HIDE DEF gs
<1>10. \A k \in DOMAIN gs : gs[k] \in DOMAIN p.rows /\ p.rows[gs[k]] = <<>>
  BY <1>4, <1>6, <1>9
<1>11. \A k, l \in DOMAIN gs : gs[k] = gs[l] => k = l
  BY <1>5, <1>6, <1>7, <1>9
<1>12. StillOpen(gs, p)
  BY <1>9, <1>10, <1>11 DEF StillOpen
<1> QED
  BY <1>1, <1>12 DEF gs

(* A placement with the rows of one table replaced, and nothing else.         *)
OtherRows(p, q, g) ==
    /\ q.values = p.values /\ q.extras = p.extras /\ DOMAIN q.rows = DOMAIN p.rows
    /\ \A h \in DOMAIN p.rows : h # g => q.rows[h] = p.rows[h]

(* It is.                                                                     *)
LEMMA RowsReplaced ==
    ASSUME NEW p \in Placements, NEW g, NEW rows
    PROVE  OtherRows(p, [p EXCEPT !.rows[g] = rows], g)
<1> DEFINE q == [p EXCEPT !.rows[g] = rows]
<1>1. q.values = p.values /\ q.extras = p.extras /\ DOMAIN q.rows = DOMAIN p.rows
      /\ \A h \in DOMAIN p.rows : h # g => q.rows[h] = p.rows[h]
  <2> DEFINE pv == p.values
             pr == p.rows
             pe == p.extras
             R == [pr EXCEPT ![g] = rows]
  <2>1. p = [values |-> pv, rows |-> pr, extras |-> pe] /\ pr \in [Groups -> Seq(RowSet)]
    BY DEF Placements
  <2>2. q = [p EXCEPT !.rows = R]
    OBVIOUS
  <2>3. DOMAIN R = DOMAIN pr /\ \A h \in DOMAIN pr : h # g => R[h] = pr[h]
    BY <2>1
  <2> HIDE DEF q, R, pv, pr, pe
  <2>4. q = [values |-> pv, rows |-> R, extras |-> pe]
    BY <2>1, <2>2, PartIs
  <2>5. q.values = pv /\ q.rows = R /\ q.extras = pe
    BY <2>4
  <2> QED
    BY <2>3, <2>5 DEF pv, pr, pe
<1> HIDE DEF q
<1>2. OtherRows(p, q, g)
  BY <1>1 DEF OtherRows
<1> QED
  BY <1>2 DEF q

(* Tables that are open stay open when another gets its rows.                 *)
LEMMA OpenKept ==
    ASSUME NEW p, NEW q, NEW g, OtherRows(p, q, g), NEW gs, StillOpen(gs, p),
           \A i \in DOMAIN gs : gs[i] # g
    PROVE  StillOpen(gs, q)
  BY DEF StillOpen, OtherRows

(* Rows for a table without rows leave every place where it was.              *)
LEMMA PlacesKept ==
    ASSUME NEW p \in Placements, NEW q, NEW g, p.rows[g] = <<>>, OtherRows(p, q, g),
           NEW v, NEW c, Holds(p, v, c)
    PROVE  Holds(q, v, c)
<1>1. q.values = p.values /\ q.extras = p.extras
      /\ \A h \in Groups : h # g => q.rows[h] = p.rows[h]
  BY DEF OtherRows, Placements
<1>2. ASSUME NEW x, IsPlace(p, v, x) PROVE IsPlace(q, v, x)
  <2>1. InField(p, v, x) => InField(q, v, x)
    BY <1>1 DEF InField
  <2>2. InRest(p, v, x) => InRest(q, v, x)
    BY <1>1 DEF InRest
  <2>3. InRow(p, v, x) => InRow(q, v, x)
    <3>1. ASSUME NEW f \in Range(Fields), NEW n \in DOMAIN p.rows[f.section],
                 f.repeatable, f.key \in DOMAIN p.rows[f.section][n],
                 Said(p.rows[f.section][n][f.key]) = v, x = Place("row", f.section, n, f.key)
          PROVE  InRow(q, v, x)
      <4>1. f.section \in Groups
        BY <3>1 DEF Groups
      <4>2. f.section # g
        OBVIOUS
      <4>3. q.rows[f.section] = p.rows[f.section]
        BY <1>1, <4>1, <4>2
      <4> QED
        BY <3>1, <4>3 DEF InRow
    <3> QED
      BY <3>1 DEF InRow
  <2> QED
    BY <1>2, <2>1, <2>2, <2>3 DEF IsPlace
<1>3. PICK F : IsFiniteSet(F) /\ Cardinality(F) = c /\ \A x \in F : IsPlace(p, v, x)
  BY DEF Holds
<1>4. \A x \in F : IsPlace(q, v, x)
  BY <1>2, <1>3
<1> QED
  BY <1>3, <1>4 DEF Holds

(* What a result is made of is finite.                                        *)
IsListed(r) ==
    /\ IsList(r.fields) /\ IsList(r.extras) /\ IsFiniteSet(DOMAIN r.rows)
    /\ \A g \in DOMAIN r.rows : IsList(r.rows[g])
    /\ \A g \in DOMAIN r.rows : \A n \in DOMAIN r.rows[g] : IsList(r.rows[g][n])

(* So finitely many of its places hold a value.                               *)
LEMMA HoldingIsFinite ==
    ASSUME NEW r, IsListed(r), NEW v
    PROVE  IsFiniteSet(Holding(r, v))
<1> DEFINE T == Times(Stated(r), v)
           one == [i \in T |-> <<i>>]
           A == {one[i] : i \in T}
           G == DOMAIN r.rows
           cell(g, n) == [i \in DOMAIN r.rows[g][n] |-> <<g, n, i>>]
           inrow(g, n) == {cell(g, n)[i] : i \in DOMAIN r.rows[g][n]}
           rowsof(g) == [n \in DOMAIN r.rows[g] |-> inrow(g, n)]
           intable(g) == UNION {rowsof(g)[n] : n \in DOMAIN r.rows[g]}
           tables == [g \in G |-> intable(g)]
           B == UNION {tables[g] : g \in G}
<1>1. IsFiniteSet(A)
  <2>1. IsList(r.fields \o r.extras)
    BY BothLists DEF IsListed
  <2>2. IsFiniteSet(T)
    BY <2>1, CountIs DEF Stated
  <2>3. one = [i \in T |-> one[i]]
    OBVIOUS
  <2> HIDE DEF T, one
  <2> QED
    BY <2>2, <2>3, ImageIsFinite
<1>2. ASSUME NEW g \in G, NEW n \in DOMAIN r.rows[g] PROVE IsFiniteSet(inrow(g, n))
  <2> DEFINE D == DOMAIN r.rows[g][n]
             f == cell(g, n)
  <2>1. IsList(r.rows[g][n])
    BY DEF IsListed
  <2>2. IsFiniteSet(D)
    BY <2>1, ListHasFew
  <2>3. f = [i \in D |-> f[i]]
    OBVIOUS
  <2> HIDE DEF D, f
  <2>4. IsFiniteSet({f[i] : i \in D})
    BY <2>2, <2>3, ImageIsFinite
  <2> QED
    BY <2>4 DEF D, f
<1> HIDE DEF cell, inrow
<1>3. ASSUME NEW g \in G PROVE IsFiniteSet(intable(g))
  <2> DEFINE D == DOMAIN r.rows[g]
             f == rowsof(g)
  <2>1. IsList(r.rows[g])
    BY DEF IsListed
  <2>2. IsFiniteSet(D)
    BY <2>1, ListHasFew
  <2>3. f = [n \in D |-> f[n]] /\ \A n \in D : IsFiniteSet(f[n])
    BY <1>2
  <2> HIDE DEF D, f
  <2>4. IsFiniteSet({f[n] : n \in D})
    BY <2>2, <2>3, ImageIsFinite
  <2>5. \A t \in {f[n] : n \in D} : IsFiniteSet(t)
    BY <2>3
  <2>6. IsFiniteSet(UNION {f[n] : n \in D})
    BY <2>4, <2>5, FS_UNION
  <2> QED
    BY <2>6 DEF D, f
<1> HIDE DEF rowsof, intable
<1>4. IsFiniteSet(B)
  <2> DEFINE D == G
             f == tables
  <2>1. IsFiniteSet(D)
    BY DEF IsListed
  <2>3. f = [g \in D |-> f[g]] /\ \A g \in D : IsFiniteSet(f[g])
    BY <1>3
  <2> HIDE DEF D, f, G, tables
  <2>4. IsFiniteSet({f[g] : g \in D})
    BY <2>1, <2>3, ImageIsFinite
  <2>5. \A t \in {f[g] : g \in D} : IsFiniteSet(t)
    BY <2>3
  <2>6. IsFiniteSet(UNION {f[g] : g \in D})
    BY <2>4, <2>5, FS_UNION
  <2> QED
    BY <2>6 DEF D, f
<1>5. CellsOf(r) \subseteq B
  <2> SUFFICES ASSUME NEW x \in CellsOf(r) PROVE x \in B
    OBVIOUS
  <2>1. PICK g \in G : x \in UNION {{<<g, n, i>> : i \in DOMAIN r.rows[g][n]} :
                                        n \in DOMAIN r.rows[g]}
    BY DEF CellsOf
  <2>2. PICK n \in DOMAIN r.rows[g] : x \in {<<g, n, i>> : i \in DOMAIN r.rows[g][n]}
    BY <2>1
  <2>3. x \in inrow(g, n)
    BY <2>2 DEF inrow, cell
  <2>4. x \in intable(g)
    BY <2>3 DEF intable, rowsof
  <2> QED
    BY <2>4
<1>6. Holding(r, v) \subseteq A \cup B
  <2>1. {<<i>> : i \in T} = A
    OBVIOUS
  <2> HIDE DEF A, B, T
  <2>2. Holding(r, v) = {<<i>> : i \in T}
                            \cup {x \in CellsOf(r) : Said(r.rows[x[1]][x[2]][x[3]].value) = v}
    BY DEF Holding, T
  <2> QED
    BY <1>5, <2>1, <2>2
<1> HIDE DEF A, B
<1>7. IsFiniteSet(A \cup B)
  BY <1>1, <1>4, FS_Union
<1>8. Holding(r, v) \in SUBSET (A \cup B)
  BY <1>6
<1> QED
  BY <1>7, <1>8, FS_Subset

(* Where a result has what a place of a placement said.                       *)
Spot(r, x, b) ==
    \/ /\ x.kind = "field" /\ \E i \in DOMAIN r.fields : r.fields[i].key = x.k /\ b = <<i>>
    \/ /\ x.kind = "rest" /\ b = <<Len(r.fields) + x.n>>
    \/ /\ x.kind = "row"
       /\ \E i : r.rows[x.g][x.n][i].key = x.k /\ b = <<x.g, x.n, i>>

(* A spot of a result stands for no more than one place.                      *)
LEMMA SpotsApart ==
    ASSUME NEW p, IsList(p.extras), NEW r, IsList(r.fields), NEW v, NEW x, NEW y, NEW b,
           IsPlace(p, v, x), IsPlace(p, v, y), Spot(r, x, b), Spot(r, y, b)
    PROVE  x = y
<1> DEFINE n == Len(r.fields)
<1>1. n \in Nat /\ DOMAIN r.fields = 1..n
  BY ListIsFinite
<1>2. DOMAIN p.extras \subseteq Nat \ {0}
  <2> DEFINE m == Len(p.extras)
  <2>1. DOMAIN p.extras = 1..m /\ m \in Nat
    BY ListIsFinite
  <2> HIDE DEF m
  <2> QED
    BY <2>1
<1> HIDE DEF n
<1>3. ASSUME NEW z, IsPlace(p, v, z)
      PROVE  \/ z.kind = "field" /\ z = Place("field", "", 0, z.k)
             \/ z.kind = "rest" /\ z = Place("rest", "", z.n, "") /\ z.n \in Nat \ {0}
             \/ z.kind = "row" /\ z = Place("row", z.g, z.n, z.k)
  <2>1. CASE InField(p, v, z)
    <3>1. PICK k : z = Place("field", "", 0, k)
      BY <2>1 DEF InField
    <3>2. z.kind = "field" /\ z.k = k
      BY <3>1 DEF Place
    <3> QED
      BY <3>1, <3>2
  <2>2. CASE InRest(p, v, z)
    <3>1. PICK i \in DOMAIN p.extras : z = Place("rest", "", i, "")
      BY <2>2 DEF InRest
    <3>2. z.kind = "rest" /\ z.n = i
      BY <3>1 DEF Place
    <3> QED
      BY <1>2, <3>1, <3>2
  <2>3. CASE InRow(p, v, z)
    <3>1. PICK g, m, k : z = Place("row", g, m, k)
      BY <2>3 DEF InRow
    <3>2. z.kind = "row" /\ z.g = g /\ z.n = m /\ z.k = k
      BY <3>1 DEF Place
    <3> QED
      BY <3>1, <3>2
  <2> QED
    BY <1>3, <2>1, <2>2, <2>3 DEF IsPlace
<1>4. "field" # "rest" /\ "field" # "row" /\ "rest" # "row"
  OBVIOUS
<1>5. ASSUME NEW z, NEW w, Spot(r, z, b), Spot(r, w, b), z.kind = "row", w.kind # "row"
      PROVE  FALSE
  <2>1. PICK i : b = <<z.g, z.n, i>>
    BY <1>4, <1>5 DEF Spot
  <2>2. \E j : b = <<j>>
    BY <1>5 DEF Spot
  <2>3. PICK j : b = <<j>>
    BY <2>2
  <2>4. Len(b) = 3 /\ Len(b) = 1
    BY <2>1, <2>3
  <2> QED
    BY <2>4
<1>6. CASE x.kind = "row" /\ y.kind = "row"
  <2>1. PICK i : r.rows[x.g][x.n][i].key = x.k /\ b = <<x.g, x.n, i>>
    BY <1>4, <1>6 DEF Spot
  <2>2. PICK j : r.rows[y.g][y.n][j].key = y.k /\ b = <<y.g, y.n, j>>
    BY <1>4, <1>6 DEF Spot
  <2>3. x.g = y.g /\ x.n = y.n /\ i = j
    BY <2>1, <2>2
  <2>4. x.k = y.k
    BY <2>1, <2>2, <2>3
  <2>5. x = Place("row", x.g, x.n, x.k) /\ y = Place("row", y.g, y.n, y.k)
    BY <1>3, <1>4, <1>6
  <2> QED
    BY <2>3, <2>4, <2>5
<1>7. CASE x.kind = "row" /\ y.kind # "row"
  BY <1>5, <1>7
<1>8. CASE x.kind # "row" /\ y.kind = "row"
  BY <1>5, <1>8
<1>9. CASE x.kind = "field" /\ y.kind = "field"
  <2>1. PICK i \in DOMAIN r.fields : r.fields[i].key = x.k /\ b = <<i>>
    BY <1>4, <1>9 DEF Spot
  <2>2. PICK j \in DOMAIN r.fields : r.fields[j].key = y.k /\ b = <<j>>
    BY <1>4, <1>9 DEF Spot
  <2>3. i = j
    BY <2>1, <2>2
  <2>4. x.k = y.k
    BY <2>1, <2>2, <2>3
  <2>5. x = Place("field", "", 0, x.k) /\ y = Place("field", "", 0, y.k)
    BY <1>3, <1>4, <1>9
  <2> QED
    BY <2>4, <2>5
<1>10. CASE x.kind = "rest" /\ y.kind = "rest"
  <2>1. b = <<n + x.n>> /\ b = <<n + y.n>>
    BY <1>4, <1>10 DEF Spot, n
  <2>2. n + x.n = n + y.n
    BY <2>1
  <2>3. x = Place("rest", "", x.n, "") /\ x.n \in Nat \ {0}
    BY <1>3, <1>4, <1>10
  <2>4. y = Place("rest", "", y.n, "") /\ y.n \in Nat \ {0}
    BY <1>3, <1>4, <1>10
  <2>5. x.n = y.n
    <3> DEFINE i == x.n
               j == y.n
    <3>1. i \in Nat /\ j \in Nat /\ n + i = n + j
      BY <2>2, <2>3, <2>4
    <3> HIDE DEF i, j
    <3>2. i = j
      BY ONLY <1>1, <3>1
    <3> QED
      BY <3>2 DEF i, j
  <2> QED
    BY <2>3, <2>4, <2>5
<1>11. ASSUME NEW z, NEW w, IsPlace(p, v, w), Spot(r, z, b), Spot(r, w, b),
              z.kind = "field", w.kind = "rest"
       PROVE  FALSE
  <2>1. PICK i \in DOMAIN r.fields : b = <<i>>
    BY <1>4, <1>11 DEF Spot
  <2>2. b = <<n + w.n>>
    BY <1>4, <1>11 DEF Spot, n
  <2>3. i = n + w.n /\ i \in 1..n
    BY <1>1, <2>1, <2>2
  <2>4. w.n \in Nat \ {0}
    BY <1>3, <1>4, <1>11
  <2> QED
    BY <1>1, <2>3, <2>4
<1>12. x.kind \in {"field", "rest", "row"} /\ y.kind \in {"field", "rest", "row"}
  BY <1>3
<1> QED
  BY <1>6, <1>7, <1>8, <1>9, <1>10, <1>11, <1>12

(* Cells one of which has a key and says a value.                             *)
Says(cells, k, v) == \E i \in DOMAIN cells : cells[i].key = k /\ Said(cells[i].value) = v

(* A cell says what it is made of.                                            *)
LEMMA MadeSays ==
    ASSUME NEW f, NEW value, IsValue(value), NEW origin, NEW same
    PROVE  /\ make(f, value, origin, same).key = f.key
           /\ Said(make(f, value, origin, same).value) = Said(value)
<1>1. /\ make(f, value, origin, same).key = f.key
      /\ make(f, value, origin, same).value = restore(fid, value)
  BY DEF make, check
<1>2. Said(restore(fid, value)) = Said(value)
  BY SaidKept DEF IsValue
<1> QED
  BY <1>1, <1>2

(* A scalar field somebody found a value of says it.                          *)
LEMMA ScalarSays ==
    ASSUME Ready, NEW f \in Range(Fields), ~f.repeatable, Value(f.key) # Empty
    PROVE  Says(Scalars, f.key, Said(Value(f.key)))
<1> DEFINE S == {i \in DOMAIN Fields : ~Fields[i].repeatable /\
                    (Fields[i].required \/ Value(Fields[i].key) # Empty)}
           shown == Kept(Fields, S)
           cell(h) == make(h, Value(h.key), Origin(h.key), None)
           s == Scalars
<1>1. s = [i \in DOMAIN shown |-> cell(shown[i])]
  BY DEF Scalars
<1>2. IsList(Fields)
  BY KeysAreOwn, FieldsAre DEF Ready
<1>3. S \in SUBSET DOMAIN Fields
  OBVIOUS
<1>4. Range(shown) = {Fields[i] : i \in S}
  <2> HIDE DEF S
  <2> QED
    BY <1>2, <1>3, KeptIs
<1>5. f \in Range(shown)
  <2>1. PICK i \in DOMAIN Fields : f = Fields[i]
    BY DEF Range
  <2>2. i \in S
    BY <2>1
  <2> HIDE DEF S, shown
  <2> QED
    BY <1>4, <2>1, <2>2
<1> HIDE DEF shown
<1>6. PICK i \in DOMAIN shown : f = shown[i]
  BY <1>5 DEF Range
<1>7. cell(f).key = f.key /\ Said(cell(f).value) = Said(Value(f.key))
  BY ValueIs, MadeSays
<1> HIDE DEF cell, s
<1>8. i \in DOMAIN s /\ s[i] = cell(f)
  BY <1>1, <1>6
<1>9. Says(s, f.key, Said(Value(f.key)))
  BY <1>7, <1>8 DEF Says
<1> QED
  BY <1>9 DEF s

(* A row of the answer says what the row it is made of has under a column.    *)
LEMMA RowSays ==
    ASSUME Ready, NEW g \in Groups, NEW rows, rows = placed.rows[g], NEW n \in DOMAIN rows,
           NEW f \in Range(Columns(g, rows)), f.key \in DOMAIN rows[n], NEW origin, NEW same
    PROVE  Says(make_row(Columns(g, rows), rows[n], origin, same), f.key, Said(rows[n][f.key]))
<1> DEFINE columns == Columns(g, rows)
           row == rows[n]
           value(h) == IF h.key \in DOMAIN row THEN row[h.key] ELSE Empty
           cell(h) == make(h, value(h), origin, same)
           cells == make_row(columns, row, origin, same)
<1>1. cells = [i \in DOMAIN columns |-> cell(columns[i])]
  BY DEF make_row
<1>2. row \in RowSet
  <2>1. rows \in Seq(RowSet)
    BY DEF Ready, Placements
  <2> QED
    BY <2>1
<1>3. value(f) = row[f.key] /\ IsValue(row[f.key])
  <2>1. f.key \in DOMAIN row
    OBVIOUS
  <2> HIDE DEF row
  <2>2. row[f.key] \in Vals
    BY <1>2, <2>1 DEF RowSet
  <2> QED
    BY <2>1, <2>2, ValsAre
<1>4. PICK i \in DOMAIN columns : f = columns[i]
  BY DEF Range
<1> HIDE DEF columns, row
<1>5. cell(f).key = f.key /\ Said(cell(f).value) = Said(row[f.key])
  <2>1. IsValue(value(f))
    BY <1>3
  <2> DEFINE w == value(f)
  <2> HIDE DEF w, value
  <2>2. make(f, w, origin, same).key = f.key /\ Said(make(f, w, origin, same).value) = Said(w)
    BY <2>1, MadeSays DEF w
  <2> QED
    BY <1>3, <2>2 DEF w
<1> HIDE DEF cell, cells, value
<1>6. i \in DOMAIN cells /\ cells[i] = cell(f)
  BY <1>1, <1>4
<1>7. Says(cells, f.key, Said(row[f.key]))
  BY <1>5, <1>6 DEF Says
<1> QED
  BY <1>7 DEF cells, columns, row

(* The rows of a table of the answer are made of those that were found.       *)
MadeOfRows(m, g, rows, origin) ==
    /\ IsList(m) /\ DOMAIN m = DOMAIN rows
    /\ \A n \in DOMAIN rows : \E same :
            m[n] = make_row(Columns(g, rows), rows[n], origin, same)

(* They are.                                                                  *)
LEMMA RowsAreMade ==
    ASSUME Ready, NEW g \in Groups, NEW rows, rows = placed.rows[g], NEW origin
    PROVE  MadeOfRows(MadeRows(g, rows, origin), g, rows, origin)
<1> DEFINE m == MadeRows(g, rows, origin)
           at(row, after) == Anchor_of(row, after)
           u == CHOOSE upto : upto = [n \in 0..Len(rows) |->
                    IF n = 0 THEN None
                    ELSE IF at(rows[n], upto[n - 1]) = None THEN upto[n - 1]
                    ELSE at(rows[n], upto[n - 1])]
           row(n) == make_row(Columns(g, rows), rows[n], origin, at(rows[n], u[n - 1]))
<1>1. m = [n \in DOMAIN rows |-> row(n)]
  BY DEF MadeRows
<1>2. IsList(rows)
  <2>1. rows \in Seq(RowSet)
    BY DEF Ready, Placements
  <2> QED
    BY <2>1, SeqIsList
<1>3. \A n \in DOMAIN rows : \E same : row(n) = make_row(Columns(g, rows), rows[n], origin, same)
  OBVIOUS
<1> HIDE DEF m, row, u, at
<1>4. m = [n \in DOMAIN rows |-> m[n]] /\ \A n \in DOMAIN rows : m[n] = row(n)
  BY <1>1
<1>5. IsList(m) /\ DOMAIN m = DOMAIN rows
  BY <1>2, <1>4, MapIsList
<1>6. MadeOfRows(m, g, rows, origin)
  BY <1>3, <1>4, <1>5 DEF MadeOfRows
<1> QED
  BY <1>6 DEF m

(* There are finitely many tables.                                            *)
LEMMA GroupsAreFinite ==
    ASSUME Ready PROVE IsFiniteSet(Groups)
<1> DEFINE R == Range(Fields)
           s == [f \in R |-> f.section]
<1>1. IsFiniteSet(R)
  <2>1. IsList(Fields)
    BY KeysAreOwn, FieldsAre DEF Ready
  <2> QED
    BY <2>1, ListIsFinite
<1>2. Groups \in SUBSET {s[f] : f \in R}
  BY DEF Groups
<1>3. s = [f \in R |-> s[f]]
  OBVIOUS
<1> HIDE DEF R, s
<1>4. IsFiniteSet({s[f] : f \in R})
  BY <1>1, <1>3, ImageIsFinite
<1> QED
  BY <1>2, <1>4, FS_Subset

(* The answer is finite.                                                      *)
LEMMA AssembledIsFinite ==
    ASSUME Ready PROVE IsListed(Assembled)
<1> DEFINE r == Assembled
           o(g) == IF g \in filled.groups THEN "model" ELSE "aligned"
           ex == placed.extras
<1>1. r.fields = Scalars \o EmptyColumns
  BY AssembledIs
<1>2. IsList(r.fields)
  BY <1>1, ScalarsAre, EmptyColumnsAre, BothLists
<1>3. DOMAIN r.rows = {g \in Groups : placed.rows[g] # <<>>}
  BY AssembledIs
<1>4. \A g \in DOMAIN r.rows : r.rows[g] = MadeRows(g, placed.rows[g], o(g))
  BY AssembledIs
<1>5. r.extras = [i \in DOMAIN ex |-> loose(ex[i])]
  BY AssembledIs
<1> HIDE DEF r, o
<1>6. IsList(r.extras)
  <2>1. IsList(ex)
    <3>1. ex \in Seq(Found)
      BY DEF Ready, Placements
    <3> QED
      BY <3>1, SeqIsList
  <2> DEFINE es == r.extras
  <2>2. es = [i \in DOMAIN ex |-> es[i]]
    BY <1>5
  <2> HIDE DEF es, ex
  <2>3. IsList(es)
    BY <2>1, <2>2, MapIsList
  <2> QED
    BY <2>3 DEF es
<1>7. IsFiniteSet(DOMAIN r.rows)
  <2>1. DOMAIN r.rows \in SUBSET Groups
    BY <1>3
  <2> QED
    BY <2>1, GroupsAreFinite, FS_Subset
<1>8. ASSUME NEW g \in DOMAIN r.rows
      PROVE  IsList(r.rows[g]) /\ \A n \in DOMAIN r.rows[g] : IsList(r.rows[g][n])
  <2> DEFINE rows == placed.rows[g]
             m == r.rows[g]
             a == o(g)
  <2>1. g \in Groups /\ m = MadeRows(g, rows, a)
    BY <1>3, <1>4
  <2>2. MadeOfRows(m, g, rows, a)
    <3> HIDE DEF m, a
    <3>1. MadeOfRows(MadeRows(g, rows, a), g, rows, a)
      BY <2>1, RowsAreMade
    <3> QED
      BY <2>1, <3>1
  <2> DEFINE cs == Columns(g, rows)
  <2>3. IsList(cs)
    BY ColumnsAre
  <2> HIDE DEF m, a, rows
  <2>4. ASSUME NEW n \in DOMAIN m PROVE IsList(m[n])
    <3>1. PICK same : m[n] = make_row(cs, rows[n], a, same)
      BY <2>2, <2>4 DEF MadeOfRows
    <3> DEFINE w == m[n]
    <3> HIDE DEF cs
    <3>2. w = [i \in DOMAIN cs |-> w[i]]
      <4>1. w = make_row(cs, rows[n], a, same)
        BY <3>1
      <4> HIDE DEF w
      <4> QED
        BY <4>1 DEF make_row
    <3> HIDE DEF w
    <3>3. IsList(w)
      BY <2>3, <3>2, MapIsList
    <3> QED
      BY <3>3 DEF w
  <2>5. IsList(m)
    BY <2>2 DEF MadeOfRows
  <2> QED
    BY <2>4, <2>5 DEF m
<1>9. IsListed(r)
  BY <1>2, <1>6, <1>7, <1>8 DEF IsListed
<1> QED
  BY <1>9 DEF r

(* A field, an item of the rest and a cell of a row that say a value hold it. *)
LEMMA FieldIsHeld ==
    ASSUME NEW r, IsList(r.fields), IsList(r.extras), NEW v, NEW i \in DOMAIN r.fields,
           Said(r.fields[i].value) = v
    PROVE  <<i>> \in Holding(r, v)
<1> DEFINE a == r.fields
           b == r.extras
           ab == a \o b
           n == Len(a)
           m == Len(b)
<1>1. DOMAIN a = 1..n /\ n \in Nat /\ m \in Nat
  BY ListIsFinite
<1>2. Len(ab) = n + m
  BY BothLists
<1>3. \A k \in 1..n : ab[k] = a[k]
  BY BothLists
<1>4. IsList(ab)
  BY BothLists
<1>5. DOMAIN ab = 1..Len(ab)
  BY <1>4, ListIsFinite
<1> HIDE DEF a, b, ab, n, m
<1>6. i \in DOMAIN ab /\ ab[i] = a[i]
  BY <1>1, <1>2, <1>3, <1>5 DEF a
<1>7. Said(ab[i].value) = v
  BY <1>6 DEF a
<1>8. i \in Times(ab, v)
  BY <1>6, <1>7 DEF Times
<1>9. Stated(r) = ab
  BY DEF Stated, ab, a, b
<1> QED
  BY <1>8, <1>9 DEF Holding

(* The rest comes after the fields.                                           *)
LEMMA RestIsHeld ==
    ASSUME NEW r, IsList(r.fields), IsList(r.extras), NEW v, NEW i \in DOMAIN r.extras,
           Said(r.extras[i].value) = v
    PROVE  <<Len(r.fields) + i>> \in Holding(r, v)
<1> DEFINE a == r.fields
           b == r.extras
           ab == a \o b
           n == Len(a)
           m == Len(b)
<1>1. DOMAIN b = 1..m /\ n \in Nat /\ m \in Nat
  BY ListIsFinite
<1>2. Len(ab) = n + m
  BY BothLists
<1>0. IsList(a) /\ IsList(b)
  OBVIOUS
<1>3. \A k \in 1..m : ab[n + k] = b[k]
  <2> HIDE DEF a, b
  <2> QED
    BY <1>0, BothLists
<1>4. IsList(ab)
  BY BothLists
<1>5. DOMAIN ab = 1..Len(ab)
  BY <1>4, ListIsFinite
<1> HIDE DEF a, b, ab, n, m
<1>6. i \in 1..m
  BY <1>1 DEF b
<1>7. n + i \in DOMAIN ab /\ ab[n + i] = b[i]
  BY <1>1, <1>2, <1>3, <1>5, <1>6
<1>8. Said(ab[n + i].value) = v
  BY <1>7 DEF b
<1>9. n + i \in Times(ab, v)
  BY <1>7, <1>8 DEF Times
<1>10. Stated(r) = ab
  BY DEF Stated, ab, a, b
<1> QED
  BY <1>9, <1>10 DEF Holding, n, a

(* A cell of a row.                                                           *)
LEMMA CellIsHeld ==
    ASSUME NEW r, NEW v, NEW g \in DOMAIN r.rows, NEW n \in DOMAIN r.rows[g],
           NEW i \in DOMAIN r.rows[g][n], Said(r.rows[g][n][i].value) = v
    PROVE  <<g, n, i>> \in Holding(r, v)
<1> DEFINE x == <<g, n, i>>
<1>1. x \in {<<g, n, j>> : j \in DOMAIN r.rows[g][n]}
  OBVIOUS
<1>2. x \in CellsOf(r)
  BY <1>1 DEF CellsOf
<1>3. x[1] = g /\ x[2] = n /\ x[3] = i
  OBVIOUS
<1> HIDE DEF x
<1>4. x \in Holding(r, v)
  BY <1>2, <1>3 DEF Holding
<1> QED
  BY <1>4 DEF x

(* Every place of what was placed has a spot of the answer.                   *)
LEMMA PlacesHaveSpots ==
    ASSUME Ready, NEW v, v # <<>>, NEW x, IsPlace(placed, v, x)
    PROVE  \E b \in Holding(Assembled, v) : Spot(Assembled, x, b)
<1> DEFINE r == Assembled
           o(g) == IF g \in filled.groups THEN "model" ELSE "aligned"
           ex == placed.extras
<1>1. r.fields = Scalars \o EmptyColumns
  BY AssembledIs
<1>2. IsList(r.fields) /\ IsList(r.extras)
  BY AssembledIsFinite DEF IsListed
<1>3. DOMAIN r.rows = {g \in Groups : placed.rows[g] # <<>>}
  BY AssembledIs
<1>4. \A g \in DOMAIN r.rows : r.rows[g] = MadeRows(g, placed.rows[g], o(g))
  BY AssembledIs
<1>5. r.extras = [i \in DOMAIN ex |-> loose(ex[i])]
  BY AssembledIs
<1>6. placed.values \in RowSet /\ placed.rows \in [Groups -> Seq(RowSet)] /\ ex \in Seq(Found)
  BY DEF Ready, Placements
<1> HIDE DEF r, o, ex
<1>7. CASE InField(placed, v, x)
  <2>1. PICK f \in Range(Fields) :
            /\ ~f.repeatable /\ f.key \in DOMAIN placed.values
            /\ Said(placed.values[f.key]) = v /\ x = Place("field", "", 0, f.key)
    BY <1>7 DEF InField
  <2>2. Value(f.key) = placed.values[f.key]
    BY <2>1 DEF Value
  <2>3. Value(f.key) # Empty
    <3>1. placed.values[f.key] \in Vals
      BY <1>6, <2>1 DEF RowSet
    <3> QED
      BY <2>2, <3>1, ValsAre
  <2>4. Says(Scalars, f.key, v)
    BY <2>1, <2>2, <2>3, ScalarSays
  <2>5. PICK i \in DOMAIN Scalars : Scalars[i].key = f.key /\ Said(Scalars[i].value) = v
    BY <2>4 DEF Says
  <2>6. i \in DOMAIN r.fields /\ r.fields[i] = Scalars[i]
    <3> DEFINE a == Scalars
               b == EmptyColumns
    <3>1. IsList(a) /\ IsList(b)
      BY ScalarsAre, EmptyColumnsAre
    <3>2. i \in DOMAIN a /\ r.fields = a \o b
      BY <1>1
    <3> HIDE DEF a, b
    <3>3. DOMAIN a = 1..Len(a) /\ Len(a) \in Nat /\ Len(b) \in Nat
      BY <3>1, ListIsFinite
    <3>4. Len(a \o b) = Len(a) + Len(b)
      BY <3>1, BothLists
    <3>5. \A k \in 1..Len(a) : (a \o b)[k] = a[k]
      BY <3>1, BothLists
    <3>6. DOMAIN r.fields = 1..Len(r.fields)
      BY <1>2, ListIsFinite
    <3>7. i \in DOMAIN r.fields /\ r.fields[i] = a[i]
      BY <3>2, <3>3, <3>4, <3>5, <3>6
    <3> QED
      BY <3>7 DEF a
  <2>7. Said(r.fields[i].value) = v /\ r.fields[i].key = f.key
    BY <2>5, <2>6
  <2>8. <<i>> \in Holding(r, v)
    BY <1>2, <2>6, <2>7, FieldIsHeld
  <2>9. x.kind = "field" /\ x.k = f.key
    BY <2>1 DEF Place
  <2>10. Spot(r, x, <<i>>)
    BY <2>6, <2>7, <2>9 DEF Spot
  <2> QED
    BY <2>8, <2>10 DEF r
<1>8. CASE InRest(placed, v, x)
  <2>1. PICK i \in DOMAIN ex : Said(ex[i].value) = v /\ x = Place("rest", "", i, "")
    BY <1>8 DEF InRest, ex
  <2>2. ex[i] \in Found
    <3>1. i \in DOMAIN ex /\ Range(ex) \subseteq Found
      BY <1>6, <2>1, SeqIsList
    <3> QED
      BY <3>1 DEF Range
  <2>3. IsList(ex[i].value)
    BY <2>2, FoundIs DEF IsValue
  <2>4. loose(ex[i]).value = restore(fid, ex[i].value)
    BY DEF loose
  <2>5. Said(loose(ex[i]).value) = v
    BY <2>1, <2>3, <2>4, SaidKept
  <2>6. i \in DOMAIN r.extras /\ Said(r.extras[i].value) = v
    BY <1>5, <2>1, <2>5
  <2>7. <<Len(r.fields) + i>> \in Holding(r, v)
    BY <1>2, <2>6, RestIsHeld
  <2>8. x.kind = "rest" /\ x.n = i
    BY <2>1 DEF Place
  <2>9. Spot(r, x, <<Len(r.fields) + i>>)
    BY <2>8 DEF Spot
  <2> QED
    BY <2>7, <2>9 DEF r
<1>9. CASE InRow(placed, v, x)
  <2>1. PICK f \in Range(Fields) : \E n \in DOMAIN placed.rows[f.section] :
            /\ f.repeatable /\ f.key \in DOMAIN placed.rows[f.section][n]
            /\ Said(placed.rows[f.section][n][f.key]) = v
            /\ x = Place("row", f.section, n, f.key)
    BY <1>9 DEF InRow
  <2> DEFINE g == f.section
             rows == placed.rows[g]
             m == r.rows[g]
             a == o(g)
  <2>2. PICK n \in DOMAIN rows :
            /\ f.repeatable /\ f.key \in DOMAIN rows[n]
            /\ Said(rows[n][f.key]) = v /\ x = Place("row", g, n, f.key)
    BY <2>1
  <2>3. g \in Groups
    BY <2>2 DEF Groups
  <2>4. rows # <<>>
    <3>1. DOMAIN <<>> = {}
      OBVIOUS
    <3> QED
      BY <2>2, <3>1
  <2>5. g \in DOMAIN r.rows /\ m = MadeRows(g, rows, a)
    <3>1. g \in DOMAIN r.rows
      BY <1>3, <2>3, <2>4
    <3> QED
      BY <1>4, <3>1
  <2>6. f \in Range(Columns(g, rows))
    BY <2>2, ColumnIsShown
  <2> HIDE DEF m, a
  <2>7. MadeOfRows(m, g, rows, a)
    <3>1. MadeOfRows(MadeRows(g, rows, a), g, rows, a)
      BY <2>3, RowsAreMade
    <3> QED
      BY <2>5, <3>1
  <2> HIDE DEF rows
  <2>8. DOMAIN m = DOMAIN rows
    BY <2>7 DEF MadeOfRows
  <2>9. PICK same : m[n] = make_row(Columns(g, rows), rows[n], a, same)
    BY <2>7 DEF MadeOfRows
  <2>10. Says(m[n], f.key, v)
    <3>1. rows = placed.rows[g] /\ n \in DOMAIN rows
      BY DEF rows
    <3> HIDE DEF g
    <3>2. Says(make_row(Columns(g, rows), rows[n], a, same), f.key, Said(rows[n][f.key]))
      BY <2>2, <2>3, <2>6, <3>1, RowSays
    <3> QED
      BY <2>2, <2>9, <3>2
  <2>11. PICK i \in DOMAIN m[n] : m[n][i].key = f.key /\ Said(m[n][i].value) = v
    BY <2>10 DEF Says
  <2>12. <<g, n, i>> \in Holding(r, v)
    <3>1. n \in DOMAIN r.rows[g] /\ i \in DOMAIN r.rows[g][n]
          /\ Said(r.rows[g][n][i].value) = v
      BY <2>8, <2>11 DEF m
    <3> HIDE DEF g
    <3> QED
      BY <2>5, <3>1, CellIsHeld
  <2>13. x.kind = "row" /\ x.g = g /\ x.n = n /\ x.k = f.key
    BY <2>2 DEF Place
  <2>14. r.rows[x.g][x.n][i].key = x.k /\ <<g, n, i>> = <<x.g, x.n, i>>
    BY <2>11, <2>13 DEF m
  <2>15. Spot(r, x, <<g, n, i>>)
    BY <2>13, <2>14 DEF Spot
  <2> QED
    BY <2>12, <2>15 DEF r
<1> QED
  BY <1>7, <1>8, <1>9 DEF IsPlace

(* So the answer holds a value as often as it was placed.                     *)
LEMMA AssembledHolds ==
    ASSUME Ready, NEW v, v # <<>>, NEW c, Holds(placed, v, c)
    PROVE  c <= Cardinality(Holding(Assembled, v))
<1> DEFINE r == Assembled
           B == Holding(r, v)
<1>1. PICK F : IsFiniteSet(F) /\ Cardinality(F) = c /\ \A x \in F : IsPlace(placed, v, x)
  BY DEF Holds
<1> DEFINE R == {y \in F \X B : Spot(r, y[1], y[2])}
<1>2. IsListed(r)
  BY AssembledIsFinite
<1>3. \A x \in F : \E b \in B : Spot(r, x, b)
  BY <1>1, PlacesHaveSpots
<1>4. IsList(placed.extras)
  <2>1. placed.extras \in Seq(Found)
    BY DEF Ready, Placements
  <2> QED
    BY <2>1, SeqIsList
<1> HIDE DEF r
<1>5. IsFiniteSet(B)
  BY <1>2, HoldingIsFinite
<1>6. ASSUME NEW x \in F, NEW y \in F, NEW b \in B, Spot(r, x, b), Spot(r, y, b)
      PROVE  x = y
  <2>1. IsPlace(placed, v, x) /\ IsPlace(placed, v, y) /\ IsList(r.fields)
    BY <1>1, <1>2 DEF IsListed
  <2> QED
    BY <1>4, <1>6, <2>1, SpotsApart
<1> HIDE DEF B
<1>7. \A x \in F, b \in B : <<x, b>> \in R <=> Spot(r, x, b)
  OBVIOUS
<1> HIDE DEF R
<1>8. Matched(F, B, R)
  <2>1. \A x \in F : \E b \in B : <<x, b>> \in R
    BY <1>3, <1>7
  <2>2. \A x \in F, y \in F, b \in B : <<x, b>> \in R /\ <<y, b>> \in R => x = y
    BY <1>6, <1>7
  <2> QED
    BY <2>1, <2>2 DEF Matched
<1>9. Cardinality(F) <= Cardinality(B)
  BY <1>5, <1>8, MatchedIs
<1> QED
  BY <1>1, <1>9 DEF B, r

(* A result holds a value as often as it is under "other information".        *)
LEMMA RestHolds ==
    ASSUME NEW r, IsListed(r), NEW v
    PROVE  HowOften(r.extras, v) <= Cardinality(Holding(r, v))
<1> DEFINE A == Times(r.extras, v)
           B == Holding(r, v)
           n == Len(r.fields)
           R == {<<i, <<n + i>>>> : i \in A}
<1>1. IsList(r.fields) /\ IsList(r.extras)
  BY DEF IsListed
<1>2. n \in Nat /\ \A i \in A : i \in Nat
  <2>1. n \in Nat
    BY <1>1, ListIsFinite
  <2>2. DOMAIN r.extras = 1..Len(r.extras) /\ Len(r.extras) \in Nat
    BY <1>1, ListIsFinite
  <2>3. A \subseteq DOMAIN r.extras
    BY DEF Times
  <2> HIDE DEF A
  <2> QED
    BY <2>1, <2>2, <2>3
<1>3. ASSUME NEW i \in A PROVE <<n + i>> \in B
  <2>1. i \in DOMAIN r.extras /\ Said(r.extras[i].value) = v
    BY DEF Times
  <2> QED
    BY <1>1, <2>1, RestIsHeld
<1>4. IsFiniteSet(B)
  BY HoldingIsFinite
<1> HIDE DEF A, B, n
<1>5. ASSUME NEW a1 \in A, NEW a2 \in A, NEW b \in B, <<a1, b>> \in R, <<a2, b>> \in R
      PROVE  a1 = a2
  <2>1. b = <<n + a1>> /\ b = <<n + a2>>
    BY <1>5
  <2>2. n + a1 = n + a2
    BY <2>1
  <2> QED
    BY <1>2, <2>2
<1>6. ASSUME NEW a \in A PROVE \E b \in B : <<a, b>> \in R
  BY <1>3
<1> HIDE DEF R
<1>7. Matched(A, B, R)
  BY <1>5, <1>6 DEF Matched
<1>8. Cardinality(A) <= Cardinality(B)
  BY <1>4, <1>7, MatchedIs
<1> QED
  BY <1>8 DEF A, B, HowOften

(* Without a template everything that was got is under "other information".   *)
LEMMA GenericHolds ==
    ASSUME free \in Sections, NEW v
    PROVE  HowOften(FieldsOf(free), v) <= Cardinality(Holding(Generic, v))
<1> DEFINE C == Section
           D == {loose(it) : it \in Found}
           m1 == [x \in C |-> x.fields]
           m2 == [x \in C |-> [i \in DOMAIN x.fields |-> loose(x.fields[i])]]
           es == FlattenSeq([s \in DOMAIN free |->
                        [i \in DOMAIN free[s].fields |-> loose(free[s].fields[i])]])
           r == Generic
<1>1. m1 \in [C -> Seq(Found)]
  BY DEF Section
<1>2. ASSUME NEW x \in C
      PROVE  m2[x] \in Seq(D) /\ HowOften(m1[x], v) <= HowOften(m2[x], v)
  <2> DEFINE a == x.fields
             b == [i \in DOMAIN a |-> loose(a[i])]
  <2>1. a \in Seq(Found) /\ m1[x] = a /\ m2[x] = b
    BY DEF Section
  <2>2. IsList(a) /\ Range(a) \subseteq Found
    BY <2>1, SeqIsList
  <2> HIDE DEF a
  <2>3. \A i \in DOMAIN a : a[i] \in Found
    BY <2>2 DEF Range
  <2>4. DOMAIN b = DOMAIN a /\ \A i \in DOMAIN a : b[i] = loose(a[i]) /\ b[i] \in D
    BY <2>3
  <2>5. b = [i \in DOMAIN a |-> b[i]]
    OBVIOUS
  <2> HIDE DEF b, D
  <2>6. IsList(b)
    BY <2>2, <2>5, MapIsList
  <2>7. Range(b) \subseteq D
    BY <2>4 DEF Range
  <2>8. b \in Seq(D)
    BY <2>6, <2>7, ListInSeq
  <2>9. ASSUME NEW i \in DOMAIN a PROVE Said(b[i].value) = Said(a[i].value)
    <3>1. IsList(a[i].value)
      BY <2>3, <2>9, FoundIs DEF IsValue
    <3>2. b[i].value = restore(fid, a[i].value)
      <4>1. loose(a[i]).value = restore(fid, a[i].value)
        BY DEF loose
      <4>2. b[i] = loose(a[i])
        BY <2>4
      <4> QED
        BY <4>1, <4>2
    <3> QED
      BY <3>1, <3>2, SaidKept
  <2>10. Times(a, v) = Times(b, v)
    BY <2>4, <2>9 DEF Times
  <2>11. HowOften(a, v) = HowOften(b, v) /\ HowOften(a, v) \in Nat
    <3>1. HowOften(a, v) \in Nat
      BY <2>2, CountIs
    <3> QED
      BY <2>10, <3>1 DEF HowOften
  <2>12. HowOften(a, v) <= HowOften(b, v)
    BY <2>11
  <2> QED
    BY <2>1, <2>8, <2>12
<1>3. m2 \in [C -> Seq(D)]
  <2>1. \A x \in C : m2[x] \in Seq(D)
    BY <1>2
  <2>2. m2 = [x \in C |-> m2[x]]
    OBVIOUS
  <2> HIDE DEF C, m2, D
  <2> QED
    BY <2>1, <2>2
<1>4. free \in Seq(C)
  BY DEF Sections
<1>5. FieldsOf(free) = FlatBy(m1, free)
  <2> DEFINE g == [i \in DOMAIN free |-> free[i].fields]
  <2>1. \A i \in DOMAIN free : free[i] \in C => g[i] = m1[free[i]]
    OBVIOUS
  <2>2. g = [i \in DOMAIN free |-> g[i]]
    OBVIOUS
  <2> HIDE DEF g, m1, C
  <2>3. FlattenSeq(g) = FlatBy(m1, free)
    BY <1>4, <2>1, <2>2, SameLists
  <2> QED
    BY <2>3 DEF FieldsOf, g
<1>6. es = FlatBy(m2, free)
  <2> DEFINE g == [s \in DOMAIN free |->
                        [i \in DOMAIN free[s].fields |-> loose(free[s].fields[i])]]
  <2>1. \A i \in DOMAIN free : free[i] \in C => g[i] = m2[free[i]]
    OBVIOUS
  <2>2. g = [i \in DOMAIN free |-> g[i]]
    OBVIOUS
  <2> HIDE DEF g, m2, C
  <2>3. FlattenSeq(g) = FlatBy(m2, free)
    BY <1>4, <2>1, <2>2, SameLists
  <2> QED
    BY <2>3 DEF g
<1>7. \A c \in C : HowOften(m1[c], v) <= HowOften(m2[c], v)
  BY <1>2
<1> HIDE DEF m1, m2, C, D
<1>8. HowOften(FlatBy(m1, free), v) <= HowOften(FlatBy(m2, free), v)
  BY <1>1, <1>3, <1>4, <1>7, CountFlat
<1>9. IsList(es)
  <2>1. EndToEndBy(C, D, m2, free, free)
    BY <1>3, <1>4, FlatByIs
  <2>2. FlatBy(m2, free) \in Seq(D)
    BY <2>1 DEF EndToEndBy
  <2> HIDE DEF es
  <2>3. es \in Seq(D)
    BY <1>6, <2>2
  <2> QED
    BY <2>3, SeqIsList
<1>10. r.fields = <<>> /\ r.rows = <<>> /\ r.extras = es
  <2> DEFINE cut == Truncated(text)
             capped == OutputCapped
  <2>1. r = [error |-> FALSE, fields |-> <<>>, rows |-> <<>>, extras |-> es,
             missing |-> {}, truncated |-> cut, output_capped |-> capped, expiry |-> None]
    BY DEF Generic
  <2> HIDE DEF es, cut, capped, r
  <2> QED
    BY <2>1
<1> HIDE DEF es, r
<1>11. IsListed(r)
  <2>1. IsList(<<>>) /\ DOMAIN <<>> = {}
    BY DEF IsList
  <2>2. IsFiniteSet({})
    BY FS_EmptySet
  <2> QED
    BY <1>9, <1>10, <2>1, <2>2 DEF IsListed
<1>12. HowOften(es, v) <= Cardinality(Holding(r, v))
  BY <1>10, <1>11, RestHolds
<1>13. HowOften(es, v) \in Nat /\ HowOften(FieldsOf(free), v) <= HowOften(es, v)
  <2>1. HowOften(es, v) \in Nat
    BY <1>9, CountIs
  <2> QED
    BY <1>5, <1>6, <1>8, <2>1
<1>14. Cardinality(Holding(r, v)) \in Nat
  BY <1>11, HoldingIsFinite, FS_CardinalityType
<1>15. HowOften(FieldsOf(free), v) \in Nat
  <2>1. EndToEndBy(C, Found, m1, free, free)
    BY <1>1, <1>4, FlatByIs
  <2>2. FlatBy(m1, free) \in Seq(Found)
    BY <2>1 DEF EndToEndBy
  <2>3. IsList(FieldsOf(free))
    BY <1>5, <2>2, SeqIsList
  <2> QED
    BY <2>3, CountIs
<1>16. HowOften(FieldsOf(free), v) <= Cardinality(Holding(r, v))
  BY <1>12, <1>13, <1>14, <1>15
<1> QED
  BY <1>16 DEF r

(* A result with nothing in it is finite.                                     *)
LEMMA NothingIsFinite ==
    ASSUME NEW error, NEW cut PROVE IsListed(Nothing(error, cut))
<1> DEFINE r == Nothing(error, cut)
<1>1. r.fields = <<>> /\ r.rows = <<>> /\ r.extras = <<>>
  BY DEF Nothing
<1> HIDE DEF r
<1>2. IsList(<<>>) /\ DOMAIN <<>> = {}
  BY DEF IsList
<1>3. IsFiniteSet({})
  BY FS_EmptySet
<1>4. IsListed(r)
  BY <1>1, <1>2, <1>3 DEF IsListed
<1> QED
  BY <1>4 DEF r

(* A result holds every value the generic pass returned, as often as it did.  *)
Held(r) ==
    \A v : v # <<>> => HowOften(FieldsOf(free), v) <= Cardinality(Holding(r, v))

(* What was got is placed, and stays placed, until it is answered.            *)
HeldInv ==
    /\ pc = "records" => StillOpen(asked.groups, placed)
    /\ pc \in {"records", "targeted"} => \A v : v # <<>> =>
            \E c \in Nat : HowOften(FieldsOf(free), v) <= c /\ Holds(placed, v, c)
    /\ (pc \in {"expiry", "chunk"} \/ (Done /\ ~result.error)) => Held(result)

(* A number of the values got is a number.                                    *)
LEMMA GotCount ==
    ASSUME NEW secs \in Sections, NEW v
    PROVE  FieldsOf(secs) \in Seq(Found) /\ HowOften(FieldsOf(secs), v) \in Nat
<1>1. FieldsOf(secs) \in Seq(Found)
  BY FieldsOfBoth
<1> QED
  BY <1>1, SeqIsList, CountIs

(* Places are kept while the template and what they say are.                  *)
LEMMA HoldsLast ==
    ASSUME tmpl' = tmpl, NEW v, NEW c, \E p : p = placed' /\ Holds(p, v, c)
    PROVE  Holds(placed, v, c)'
<1>1. PICK p : p = placed' /\ Holds(p, v, c)
  OBVIOUS
<1>2. Fields' = Fields
  BY DEF Fields
<1>3. PICK F : IsFiniteSet(F) /\ Cardinality(F) = c /\ \A x \in F : IsPlace(p, v, x)
  BY <1>1 DEF Holds
<1>4. ASSUME NEW x, IsPlace(p, v, x) PROVE IsPlace(placed, v, x)'
  <2>1. InField(p, v, x) => InField(placed, v, x)'
    BY <1>1, <1>2 DEF InField
  <2>2. InRow(p, v, x) => InRow(placed, v, x)'
    BY <1>1, <1>2 DEF InRow
  <2>3. InRest(p, v, x) => InRest(placed, v, x)'
    BY <1>1 DEF InRest
  <2> QED
    BY <1>4, <2>1, <2>2, <2>3 DEF IsPlace
<1>5. \A x \in F : IsPlace(placed, v, x)'
  BY <1>3, <1>4
<1> QED
  BY <1>3, <1>5 DEF Holds

(* A result is held while nothing of it changes but its expiry.               *)
LEMMA HeldLast ==
    ASSUME free' = free, \E r : r = result' /\ Held(r)
    PROVE  Held(result)'
<1>1. PICK r : r = result' /\ Held(r)
  OBVIOUS
<1>2. ASSUME NEW v PROVE Holding(result, v)' = Holding(r, v)
  BY <1>1 DEF Holding, Stated, CellsOf
<1>3. FieldsOf(free)' = FieldsOf(free)
  OBVIOUS
<1> QED
  BY <1>1, <1>2, <1>3 DEF Held

(* An expiry is added.                                                        *)
LEMMA ExpiryHeld ==
    ASSUME NEW r, IsResult(r), Held(r), NEW e
    PROVE  Held([r EXCEPT !.expiry = e])
<1> DEFINE s == [r EXCEPT !.expiry = e]
<1>1. s.fields = r.fields /\ s.rows = r.rows /\ s.extras = r.extras
  BY ExpiryOnly
<1> HIDE DEF s
<1>2. ASSUME NEW v PROVE Holding(s, v) = Holding(r, v)
  BY <1>1 DEF Holding, Stated, CellsOf
<1>3. Held(s)
  BY <1>2 DEF Held
<1> QED
  BY <1>3 DEF s

(* What was got is answered, with a template.                                 *)
LEMMA AssembledIsHeld ==
    ASSUME Ready, free \in Sections,
           \A v : v # <<>> => \E c \in Nat : HowOften(FieldsOf(free), v) <= c /\ Holds(placed, v, c)
    PROVE  Held(Assembled)
<1> DEFINE r == Assembled
<1>1. IsListed(r)
  BY AssembledIsFinite
<1> SUFFICES ASSUME NEW v, v # <<>>
             PROVE  HowOften(FieldsOf(free), v) <= Cardinality(Holding(r, v))
  BY DEF Held
<1>2. PICK c \in Nat : HowOften(FieldsOf(free), v) <= c /\ Holds(placed, v, c)
  OBVIOUS
<1>3. c <= Cardinality(Holding(r, v))
  BY <1>2, AssembledHolds
<1> HIDE DEF r
<1>4. Cardinality(Holding(r, v)) \in Nat
  BY <1>1, HoldingIsFinite, FS_CardinalityType
<1>5. HowOften(FieldsOf(free), v) \in Nat
  BY GotCount
<1> QED
  BY <1>2, <1>3, <1>4, <1>5

(* It holds at the start.                                                     *)
LEMMA HeldInit == Init => HeldInv
  BY DEF Init, HeldInv, Done

(* Of no answers nothing is got.                                              *)
LEMMA NoneIsGot ==
    ASSUME NEW v PROVE HowOften(FieldsOf(<<>>), v) = 0
<1>1. <<>> \in Sections
  BY DEF Sections
<1>2. FieldsOf(<<>>) = <<>>
  BY <1>1, FieldsOfBoth
<1>3. Times(<<>>, v) = {}
  BY DEF Times
<1> QED
  BY <1>2, <1>3, FS_EmptySet DEF HowOften

(* So every result holds it.                                                  *)
LEMMA NothingIsHeld ==
    ASSUME free' = <<>>, \E r : r = result' /\ IsListed(r)
    PROVE  Held(result)'
<1>1. PICK r : r = result' /\ IsListed(r)
  OBVIOUS
<1>2. ASSUME NEW v PROVE Holding(result, v)' = Holding(r, v)
  BY <1>1 DEF Holding, Stated, CellsOf
<1>3. FieldsOf(free)' = FieldsOf(<<>>)
  OBVIOUS
<1>4. ASSUME NEW v PROVE HowOften(FieldsOf(<<>>), v) <= Cardinality(Holding(r, v))
  <2>1. Cardinality(Holding(r, v)) \in Nat
    BY <1>1, HoldingIsFinite, FS_CardinalityType
  <2>2. HowOften(FieldsOf(<<>>), v) = 0
    BY NoneIsGot
  <2> DEFINE a == HowOften(FieldsOf(<<>>), v)
             b == Cardinality(Holding(r, v))
  <2> HIDE DEF a, b
  <2>3. a = 0 /\ b \in Nat
    BY <2>1, <2>2 DEF a, b
  <2>4. a <= b
    BY ONLY <2>3
  <2> QED
    BY <2>4 DEF a, b
<1> QED
  BY <1>2, <1>3, <1>4 DEF Held

(* Every step keeps it.                                                       *)
LEMMA HeldNext == FactsInv /\ HeldInv /\ [Next]_vars => HeldInv'
<1> SUFFICES ASSUME FactsInv, HeldInv, [Next]_vars PROVE HeldInv'
  OBVIOUS
<1>0. DataInv
  BY DEF FactsInv
<1>A. ASSUME UNCHANGED <<free, result>>, pc' \notin {"records", "targeted"},
             pc' \in {"expiry", "chunk"} \/ (Done' /\ ~result'.error) =>
                pc \in {"expiry", "chunk"} \/ (Done /\ ~result.error)
      PROVE  HeldInv'
  <2>1. CASE pc' \in {"expiry", "chunk"} \/ (Done' /\ ~result'.error)
    <3>1. Held(result) /\ result = result'
      BY <1>A, <2>1 DEF HeldInv
    <3>2. Held(result)'
      BY <1>A, <3>1, HeldLast
    <3> QED
      BY <1>A, <3>2 DEF HeldInv
  <2>2. CASE ~(pc' \in {"expiry", "chunk"} \/ (Done' /\ ~result'.error))
    BY <1>A, <2>2 DEF HeldInv
  <2> QED
    BY <2>1, <2>2
<1>B. ASSUME pc' \notin {"records", "targeted", "expiry", "chunk"},
             pc' # "idle" \/ result' = None \/ result'.error
      PROVE  HeldInv'
  BY <1>B DEF HeldInv, Done
<1>C. ASSUME free' = free, pc' \notin {"records", "targeted"}, NEW r, r = result', Held(r)
      PROVE  HeldInv'
  <2>1. Held(result)'
    BY <1>C, HeldLast
  <2> QED
    BY <1>C, <2>1 DEF HeldInv
<1>D. ASSUME UNCHANGED <<free, tmpl>>, pc' \in {"records", "targeted"}, NEW p, p = placed',
             \A v : v # <<>> =>
                \E c \in Nat : HowOften(FieldsOf(free), v) <= c /\ Holds(p, v, c),
             pc' = "records" => StillOpen(asked.groups', p)
      PROVE  HeldInv'
  <2>1. ASSUME NEW v, v # <<>>
        PROVE  \E c \in Nat : HowOften(FieldsOf(free), v)' <= c /\ Holds(placed, v, c)'
    <3>1. PICK c \in Nat : HowOften(FieldsOf(free), v) <= c /\ Holds(p, v, c)
      BY <1>D, <2>1
    <3>2. Holds(placed, v, c)'
      BY <1>D, <3>1, HoldsLast
    <3>3. HowOften(FieldsOf(free), v)' = HowOften(FieldsOf(free), v)
      BY <1>D
    <3> QED
      BY <3>1, <3>2, <3>3
  <2>2. pc' = "records" => StillOpen(asked.groups, placed)'
    BY <1>D
  <2>3. ~(pc' \in {"expiry", "chunk"} \/ Done')
    BY <1>D DEF Done
  <2>4. (\A v : v # <<>> =>
            \E c \in Nat : HowOften(FieldsOf(free), v) <= c /\ Holds(placed, v, c))'
    BY <2>1
  <2> QED
    BY <2>2, <2>3, <2>4 DEF HeldInv
<1>E. pc \in {"records", "targeted"} => \A v : v # <<>> =>
            \E c \in Nat : HowOften(FieldsOf(free), v) <= c /\ Holds(placed, v, c)
  BY DEF HeldInv
<1>1. ASSUME NEW t \in DOMAIN DOCS, NEW id \in Ids(reg) \cup {"", "retired"}, Request(t, id)
      PROVE  HeldInv'
  <2>1. CASE _clean(t) # 0
    <3>1. pc' = "generic"
      BY <1>1, <2>1 DEF Request
    <3> QED
      BY <1>B, <3>1
  <2>2. CASE _clean(t) = 0
    <3> DEFINE r == Nothing(FALSE, Truncated(t))
    <3>1. pc' = "idle" /\ free' = <<>> /\ result' = r
      BY <1>1, <2>2 DEF Request
    <3>2. IsListed(r)
      BY NothingIsFinite
    <3> HIDE DEF r
    <3>4. Held(result)'
      BY <3>1, <3>2, NothingIsHeld
    <3> QED
      BY <3>1, <3>4 DEF HeldInv
  <2> QED
    BY <2>1, <2>2
<1>2. ASSUME NEW slip \in SLIPS, NEW hit \in BOOLEAN, ReadChunk(slip, hit) PROVE HeldInv'
  <2>1. pc' \in {"generic", "align"}
    BY <1>0, <1>2, ReadKeeps
  <2> QED
    BY <1>B, <2>1
<1>3. CASE GenericRaises
  <2>1. pc' = "idle" /\ result'.error
    BY <1>3 DEF GenericRaises, Nothing
  <2> QED
    BY <1>B, <2>1
<1>4. CASE Align
  <2>1. free \in Sections
    BY <1>0 DEF DataInv
  <2>2. CASE tmpl = None
    <3> DEFINE r == Generic
    <3>1. free' = free /\ pc' = "expiry" /\ result' = r
      BY <1>4, <2>2 DEF Align, Answer
    <3>2. Held(r)
      BY <2>1, GenericHolds DEF Held
    <3> HIDE DEF r
    <3> QED
      BY <1>C, <3>1, <3>2
  <2>3. CASE tmpl # None
    <3> DEFINE p == _align(free)
               gs == MissingGroups(p)
    <3>1. UNCHANGED <<free, tmpl>> /\ pc' = "records" /\ placed' = p
          /\ asked' = [groups |-> MissingGroups(placed'), batches |-> Batches(placed')]
      BY <1>4, <2>3 DEF Align
    <3>2. p \in Placements
      BY <2>1, AlignedIs
    <3>3. StillOpen(gs, p)
      <4>1. IsList(tmpl.fields)
        BY <1>0, <2>3, TemplateIs DEF DataInv
      <4> HIDE DEF p
      <4> QED
        BY <3>2, <4>1, MissingAreOpen
    <3>4. asked.groups' = gs
      <4> DEFINE ms == MissingGroups(placed')
                 bs == Batches(placed')
      <4>1. asked' = [groups |-> ms, batches |-> bs] /\ ms = gs
        BY <3>1
      <4> HIDE DEF ms, bs, gs
      <4> QED
        BY <4>1
    <3>5. ASSUME NEW v, v # <<>>
          PROVE  \E c \in Nat : HowOften(FieldsOf(free), v) <= c /\ Holds(p, v, c)
      <4> DEFINE c == HowOften(ItemsOf(free), v)
      <4>1. ItemsOf(free) \in Seq(Aligned)
        BY <2>1, ItemsAre
      <4>2. c \in Nat
        BY <4>1, SeqIsList, CountIs
      <4>3. HowOften(FieldsOf(free), v) <= c
        BY <2>1, <3>5, ItemsCount
      <4>4. Holds(p, v, c)
        BY <2>1, AlignHolds
      <4> HIDE DEF c, p
      <4> QED
        BY <4>2, <4>3, <4>4
    <3> HIDE DEF p, gs
    <3>6. StillOpen(asked.groups', p)
      BY <3>3, <3>4
    <3> QED
      BY <1>D, <3>1, <3>5, <3>6
  <2> QED
    BY <2>2, <2>3
<1>5. CASE Respond
  BY <1>5, <1>B DEF Respond
<1>6. ASSUME pc = "records", asked.groups # <<>>, NEW rows, RecordPass(rows) PROVE HeldInv'
  <2> DEFINE gs == asked.groups
             g == Head(gs)
             more == Tail(gs)
             q == [placed EXCEPT !.rows[g] = rows]
  <2>1. UNCHANGED <<free, tmpl>> /\ pc' = "records"
    BY <1>6 DEF RecordPass
  <2>2. placed' = placed \/ placed' = q
    BY <1>6 DEF RecordPass
  <2>3. StillOpen(gs, placed) /\ placed \in Placements
    BY <1>0, <1>6 DEF HeldInv, DataInv
  <2>4. asked.groups' = more
    BY <1>6 DEF RecordPass
  <2>5. /\ placed.rows[g] = <<>> /\ StillOpen(more, placed)
        /\ \A i \in DOMAIN more : more[i] # g
    <3> DEFINE p == placed
    <3>1. gs # <<>> /\ StillOpen(gs, p)
      BY <1>6, <2>3
    <3> HIDE DEF p, gs
    <3> QED
      BY <3>1, OpenRest DEF p
  <2> HIDE DEF gs, g, more, q
  <2>6. CASE placed' = placed
    <3>1. StillOpen(asked.groups', placed)
      BY <2>4, <2>5
    <3> QED
      BY <1>6, <1>D, <1>E, <2>1, <2>6, <3>1
  <2>7. CASE placed' = q
    <3>1. OtherRows(placed, q, g)
      BY <2>3, RowsReplaced DEF q
    <3>2. StillOpen(asked.groups', q)
      BY <2>4, <2>5, <3>1, OpenKept
    <3>3. ASSUME NEW v, v # <<>>
          PROVE  \E c \in Nat : HowOften(FieldsOf(free), v) <= c /\ Holds(q, v, c)
      <4>1. PICK c \in Nat : HowOften(FieldsOf(free), v) <= c /\ Holds(placed, v, c)
        BY <1>6, <1>E, <3>3
      <4>2. Holds(q, v, c)
        BY <2>3, <2>5, <3>1, <4>1, PlacesKept
      <4> QED
        BY <4>1, <4>2
    <3> QED
      BY <1>D, <2>1, <2>7, <3>2, <3>3
  <2> QED
    BY <2>2, <2>6, <2>7
<1>7. CASE RecordsDone
  <2>1. UNCHANGED <<free, tmpl, placed>> /\ pc = "records" /\ pc' = "targeted"
    BY <1>7 DEF RecordsDone
  <2> QED
    BY <1>D, <1>E, <2>1
<1>8. ASSUME NEW got, TargetedPass(got) PROVE HeldInv'
  <2>1. UNCHANGED <<free, tmpl, placed>> /\ pc = "targeted" /\ pc' = "targeted"
    BY <1>8 DEF TargetedPass, Fill
  <2> QED
    BY <1>D, <1>E, <2>1
<1>9. CASE TargetedDone
  <2> DEFINE r == Assembled
  <2>1. free' = free /\ result' = r /\ pc = "targeted" /\ pc' = "expiry"
    BY <1>9 DEF TargetedDone, Answer
  <2>2. Ready /\ free \in Sections
    BY <1>0, <2>1 DEF DataInv, Ready
  <2>3. Held(r)
    BY <1>E, <2>1, <2>2, AssembledIsHeld
  <2> HIDE DEF r
  <2> QED
    BY <1>C, <2>1, <2>3
<1>G. ASSUME free' = free, NEW e, result' = [result EXCEPT !.expiry = e],
             pc \in {"expiry", "chunk"}, pc' \notin {"records", "targeted"}
      PROVE  HeldInv'
  <2> DEFINE r == [result EXCEPT !.expiry = e]
  <2>1. Held(result) /\ IsResult(result)
    BY <1>G DEF HeldInv, FactsInv, Claims
  <2>2. Held(r)
    BY <2>1, ExpiryHeld
  <2>3. r = result'
    BY <1>G
  <2> HIDE DEF r
  <2> QED
    BY <1>C, <1>G, <2>2, <2>3
<1>10. CASE Expires
  <2>1. free' = free /\ pc = "expiry" /\ pc' \in {"idle", "chunk"}
        /\ \E e : result' = [result EXCEPT !.expiry = e]
    BY <1>10 DEF Expires
  <2> QED
    BY <1>G, <2>1
<1>11. ASSUME NEW date, ChunkAnswer(date) PROVE HeldInv'
  <2>1. free' = free /\ pc = "chunk" /\ pc' \in {"idle", "chunk"}
    BY <1>11 DEF ChunkAnswer
  <2>2. UNCHANGED result \/ \E e : result' = [result EXCEPT !.expiry = e]
    BY <1>11 DEF ChunkAnswer
  <2> QED
    BY <1>A, <1>G, <2>1, <2>2
<1>12. CASE ChunkRaises
  <2>1. UNCHANGED <<free, result>> /\ pc = "chunk" /\ pc' = "idle"
    BY <1>12 DEF ChunkRaises
  <2> QED
    BY <1>A, <2>1
<1>13. CASE UNCHANGED vars
  <2>1. UNCHANGED <<pc, tmpl, free, placed, asked, result>>
    BY <1>13 DEF vars
  <2>2. CASE pc \in {"records", "targeted"}
    <3>1. pc' = "records" => StillOpen(asked.groups', placed)
      BY <2>1 DEF HeldInv
    <3> QED
      BY <1>D, <1>E, <2>1, <2>2, <3>1
  <2>3. CASE pc \notin {"records", "targeted"}
    <3>1. Done' = Done
      BY <2>1 DEF Done
    <3> QED
      BY <1>A, <2>1, <2>3, <3>1
  <2> QED
    BY <2>2, <2>3
<1> QED
  BY <1>1, <1>2, <1>3, <1>4, <1>5, <1>6, <1>7, <1>8, <1>9, <1>10, <1>11, <1>12, <1>13 DEF Next

(* What was got is placed or answered throughout.                             *)
LEMMA HeldAlways == Spec => []HeldInv
<1>1. Init => HeldInv
  BY HeldInit
<1>2. FactsInv /\ HeldInv /\ [Next]_vars => HeldInv'
  BY HeldNext
<1> QED
  BY <1>1, <1>2, FactsAlways, PTL DEF Spec

(* Every value that was returned and is not empty is in the answer.           *)
LEMMA NothingDropped == FactsInv /\ ReadInv /\ HeldInv => NothingDiscarded
<1> SUFFICES ASSUME FactsInv, ReadInv, HeldInv, Done, ~result.error,
                    NEW i \in DOMAIN Got, Got[i].value # Empty
             PROVE  Cardinality(Times(Got, Said(Got[i].value)))
                        <= Cardinality(Holding(result, Said(Got[i].value)))
  BY DEF NothingDiscarded
<1> DEFINE v == Said(Got[i].value)
<1>1. Got = FieldsOf(free)
  BY GotIsGotOf DEF ReadInv
<1>2. Got \in Seq(Found)
  <2>1. free \in Sections
    BY DEF FactsInv, DataInv
  <2> QED
    BY <1>1, <2>1, GotCount
<1>3. v # <<>>
  <2>1. Range(Got) \subseteq Found
    BY <1>2, SeqIsList
  <2>2. Got[i] \in Found
    BY <2>1 DEF Range
  <2>3. IsValue(Got[i].value)
    BY <2>2, FoundIs
  <2> QED
    BY <2>3, SaidIs
<1>4. Held(result)
  BY DEF HeldInv
<1> HIDE DEF v
<1>5. HowOften(FieldsOf(free), v) <= Cardinality(Holding(result, v))
  BY <1>3, <1>4 DEF Held
<1>6. HowOften(Got, v) <= Cardinality(Holding(result, v))
  BY <1>1, <1>5
<1> QED
  BY <1>6 DEF HowOften, v

(* No line, value or date of a document is lost at a limit or in a table, or  *)
(* the user is told of it, nor at a cut but inside an overlong line           *)
(* (structure.py, _split_lines, _merge_generic, _align; expiry.py, _chunks).  *)
THEOREM NothingLost == Spec => []NothingIsLost
<1>1. FactsInv /\ ReadInv /\ HeldInv => NothingIsLost
  <2> SUFFICES ASSUME FactsInv, ReadInv, HeldInv PROVE NothingIsLost
    OBVIOUS
  <2>1. LimitsAreTold
    <3>1. Done => Claims(result)
      BY DEF FactsInv
    <3>2. Done => Truncated(text) = (_clean(text) < Total(text))
      <4>1. Done => text \in DOMAIN DOCS
        BY DEF FactsInv, DataInv, Done
      <4> QED
        BY <4>1, CleanIs
    <3> QED
      BY <3>1, <3>2 DEF Claims, LimitsAreTold, OutputCapped
  <2> QED
    BY <2>1, EveryLineRead, NothingDropped, WindowsAlways DEF NothingIsLost
<1> QED
  BY <1>1, FactsAlways, ReadAlways, HeldAlways, PTL
=============================================================================
