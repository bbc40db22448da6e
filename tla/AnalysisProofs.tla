---------------------------- MODULE AnalysisProofs ----------------------------
(***************************************************************************)
(* What analyze and insights make of a model's answers, for every taxonomy *)
(* the loader takes, every document, every window and every answer: the    *)
(* priority the rules come to, the letter, the complainant's own words     *)
(* that count, and the requests the record rests on.  Texts are searched,  *)
(* clipped and blanked here as Triage and Taxonomy define it.              *)
(***************************************************************************)
EXTENDS Analysis, FiniteSetTheorems, SequenceTheorems, WellFoundedInduction, TLAPS

Listed(kind) == kind \in Seq(Elements(kind)) /\ _entries(kind)

\* What is left of load_taxonomy's checks in the taxonomy as it is kept.
TaxOK ==
    /\ Listed(tax.priorities) /\ Listed(tax.categories) /\ Listed(tax.signals)
    /\ LoadsPriorities(tax) /\ \A p \in Elements(tax.priorities) : p.rank \in Int
    /\ None \notin Ids(tax.categories)
    /\ \A c, d \in Elements(tax.categories) : c # d => c.subcategories \cap d.subcategories = {}
    /\ \A s \in Elements(tax.signals) : s.floor \in Ids(tax.priorities) \ {tax.priorities[1].id}

\* A verdict is there from step 2 on, and its decisions are the taxonomy's.
ClsOK == cls # Absent =>
    /\ pc \in {"rules", "done"}
    /\ cls.model_priority \in Ids(tax.priorities)
    /\ SubcategoryFits

IInv == TaxOK /\ ClsOK /\ PriorityHonest

-----------------------------------------------------------------------------
(* Lists with an id each, and ranks that fall.                             *)

\* A set of naturals that is not empty has a least element.
LEMMA LeastIndex ==
  ASSUME NEW T \in SUBSET Nat, T # {}
  PROVE  \E x \in T : \A y \in T : x <= y
<1> DEFINE R == OpToRel(<, Nat)
<1>1. IsWellFoundedOn(R, Nat)
  BY NatLessThanWellFounded
<1>2. \A x, y \in T : <<y, x>> \in R <=> y < x
  BY DEF OpToRel
<1> HIDE DEF R
<1>3. PICK x \in T : \A y \in T : ~ (<<y, x>> \in R)
  BY <1>1, WFMin
<1>4. \A y \in T : ~(y < x)
  BY <1>2, <1>3, Zenon
<1>5. QED
  BY <1>4

\* A list has as many ids as entries: an id is one entry's.
LEMMA UniqueIds ==
  ASSUME NEW kind, Listed(kind), NEW i \in DOMAIN kind, NEW j \in DOMAIN kind,
         kind[i].id = kind[j].id
  PROVE  i = j
<1> DEFINE n == Len(kind)
           f == [k \in 1..n |-> kind[k].id]
<1>1. n \in Nat /\ DOMAIN kind = 1..n
  BY DEF Listed
<1>2. IsFiniteSet(1..n) /\ Cardinality(1..n) = n
  <2> HIDE DEF n
  <2>1. 1 \in Int /\ n \in Int /\ (IF 1 > n THEN 0 ELSE n - 1 + 1) = n
    BY <1>1
  <2> QED
    BY <2>1, FS_Interval
<1>3. Cardinality(Ids(kind)) = n
  BY DEF Listed, _entries
<1>4. f \in Surjection(1..n, Ids(kind))
  BY <1>1 DEF Surjection, Ids
<1>5. f \in Injection(1..n, Ids(kind))
  BY <1>2, <1>3, <1>4, FS_SurjSameCardinalityImpliesInj
<1>6. f[i] = f[j]
  BY <1>1
<1> QED
  BY <1>1, <1>5, <1>6 DEF Injection, IsInjective

\* Get finds the entry of an id.
LEMMA GetIs ==
  ASSUME NEW kind, Listed(kind), NEW i \in DOMAIN kind
  PROVE  Get(kind, kind[i].id) = kind[i]
<1> DEFINE k == CHOOSE j \in DOMAIN kind : kind[j].id = kind[i].id
<1>1. k \in DOMAIN kind /\ kind[k].id = kind[i].id
  OBVIOUS
<1>2. k = i
  BY <1>1, UniqueIds
<1> QED
  BY <1>2 DEF Get

\* Ranks fall from each priority to any later one.
LEMMA RanksFall ==
  ASSUME TaxOK, NEW i \in DOMAIN tax.priorities, NEW j \in DOMAIN tax.priorities, i < j
  PROVE  tax.priorities[j].rank < tax.priorities[i].rank
<1> DEFINE p == tax.priorities
           T == {k \in DOMAIN p : i < k /\ ~(p[k].rank < p[i].rank)}
<1>1. Len(p) \in Nat /\ DOMAIN p = 1..Len(p)
  BY DEF TaxOK, Listed
<1>2. \A k \in DOMAIN p : /\ p[k].rank \in Int
                          /\ k > 1 => p[k].rank < p[k - 1].rank
  BY DEF TaxOK, LoadsPriorities, Elements
<1>3. SUFFICES ASSUME T # {} PROVE FALSE
  OBVIOUS
<1>4. PICK k \in T : \A m \in T : k <= m
  <2>1. T \in SUBSET Nat
    BY <1>1
  <2> HIDE DEF T
  <2> QED
    BY <1>3, <2>1, LeastIndex
<1>5. k \in 1..Len(p) /\ k - 1 \in DOMAIN p /\ i <= k - 1 /\ k - 1 \notin T /\ k > 1
  BY <1>1, <1>4
<1>6. p[k - 1].rank <= p[i].rank
  BY <1>1, <1>2, <1>5
<1> QED
  BY <1>1, <1>2, <1>4, <1>5, <1>6

\* A priority's rank is its entry's.
LEMMA RankIs ==
  ASSUME TaxOK, NEW i \in DOMAIN tax.priorities
  PROVE  priority_rank(tax, tax.priorities[i].id) = tax.priorities[i].rank
<1>1. Get(tax.priorities, tax.priorities[i].id) = tax.priorities[i]
  BY GetIs DEF TaxOK
<1> QED
  BY <1>1 DEF priority_rank, Ids

\* Every id is an entry's: its rank is a number no higher than the first's,
\* and the first's only when it is the first.
LEMMA RankOfId ==
  ASSUME TaxOK, NEW id \in Ids(tax.priorities)
  PROVE  /\ priority_rank(tax, id) \in Int
         /\ id # tax.priorities[1].id => priority_rank(tax, id) < tax.priorities[1].rank
         /\ id = tax.priorities[1].id => priority_rank(tax, id) = tax.priorities[1].rank
         /\ tax.priorities[1].rank \in Int
<1> DEFINE p == tax.priorities
<1>1. Len(p) \in Nat /\ DOMAIN p = 1..Len(p) /\ Len(p) # 0
  BY DEF TaxOK, Listed, _entries
<1>2. PICK i \in DOMAIN p : id = p[i].id
  BY DEF Ids
<1>3. priority_rank(tax, id) = p[i].rank /\ p[i].rank \in Int /\ p[1].rank \in Int
  BY <1>1, <1>2, RankIs DEF TaxOK, Elements
<1>4. i # 1 => p[i].rank < p[1].rank
  BY <1>1, RanksFall
<1> QED
  BY <1>1, <1>2, <1>3, <1>4, UniqueIds DEF TaxOK

\* Of some priorities one is the highest.
LEMMA Highest ==
  ASSUME TaxOK, NEW F \in SUBSET Ids(tax.priorities), F # {}
  PROVE  \E f \in F : \A g \in F : priority_rank(tax, f) >= priority_rank(tax, g)
<1> DEFINE p == tax.priorities
           T == {i \in DOMAIN p : p[i].id \in F}
<1>1. Len(p) \in Nat /\ DOMAIN p = 1..Len(p)
  BY DEF TaxOK, Listed
<1>2. \A g \in F : \E i \in T : g = p[i].id
  BY DEF Ids
<1>3. PICK i \in T : \A j \in T : i <= j
  <2>1. T \in SUBSET Nat /\ T # {}
    BY <1>1, <1>2
  <2> HIDE DEF T
  <2> QED
    BY <2>1, LeastIndex
<1>4. ASSUME NEW g \in F PROVE priority_rank(tax, p[i].id) >= priority_rank(tax, g)
  <2>1. PICK j \in T : g = p[j].id
    BY <1>2
  <2>2. /\ priority_rank(tax, p[i].id) = p[i].rank /\ priority_rank(tax, g) = p[j].rank
        /\ p[i].rank \in Int /\ p[j].rank \in Int
    BY <2>1, RankIs DEF TaxOK, Elements
  <2>3. i = j \/ i < j
    BY <1>1, <1>3
  <2> QED
    BY <2>2, <2>3, RanksFall
<1> QED
  BY <1>4

-----------------------------------------------------------------------------
(* The rules.                                                              *)

Floors(signals) == {s.floor : s \in signals}

\* The floors raise the model's priority, by no more than the highest of them
\* and never to the first.
LEMMA Resolved ==
  ASSUME TaxOK, NEW model \in Ids(tax.priorities),
         NEW signals \in SUBSET Elements(tax.signals),
         NEW final, final = resolve_priority(tax, model, signals).id
  PROVE  /\ final \in Ids(tax.priorities)
         /\ \/ final = model
            \/ /\ final # tax.priorities[1].id /\ final \in Floors(signals)
               /\ priority_rank(tax, final) > priority_rank(tax, model)
         /\ \A s \in signals : priority_rank(tax, final) >= priority_rank(tax, s.floor)
<1> DEFINE Rank(id) == priority_rank(tax, id)
           top == tax.priorities[1].rank
           higher == {f \in Floors(signals) : Rank(model) < Rank(f) /\ Rank(f) < top}
<1>1. \A s \in signals : s.floor \in Ids(tax.priorities) \ {tax.priorities[1].id}
  BY DEF TaxOK
<1>2. /\ top \in Int /\ Rank(model) \in Int
      /\ \A s \in signals : Rank(s.floor) \in Int /\ Rank(s.floor) < top
  BY <1>1, RankOfId
<1>3. \A s \in signals : Rank(model) < Rank(s.floor) => s.floor \in higher
  BY <1>2 DEF Floors
<1>4. final = IF higher = {} THEN model
              ELSE CHOOSE f \in higher : \A g \in higher : Rank(f) >= Rank(g)
  BY DEF resolve_priority, From, Floors
<1>5. CASE higher = {}
  BY <1>2, <1>3, <1>4, <1>5
<1>6. CASE higher # {}
  <2>1. higher \in SUBSET Ids(tax.priorities)
    BY <1>1 DEF Floors
  <2>2. \E f \in higher : \A g \in higher : Rank(f) >= Rank(g)
    BY <1>6, <2>1, Highest
  <2>3. final \in higher /\ \A g \in higher : Rank(final) >= Rank(g)
    BY <1>4, <1>6, <2>2
  <2>4. Rank(final) \in Int /\ Rank(final) < top /\ Rank(model) < Rank(final)
    BY <2>1, <2>3, RankOfId
  <2>5. final # tax.priorities[1].id
    BY <2>1, <2>3, <2>4, RankOfId
  <2>6. ASSUME NEW s \in signals PROVE Rank(final) >= Rank(s.floor)
    BY <1>2, <1>3, <2>3, <2>4
  <2> QED
    BY <2>1, <2>3, <2>4, <2>5, <2>6
<1> QED
  BY <1>5, <1>6

\* Nothing but its own floors is above the second priority: with the first
\* one taken away, the second is what is left.
LEMMA Capped ==
  ASSUME TaxOK, NEW signals \in SUBSET Elements(tax.signals), Len(tax.priorities) > 1,
         NEW final, final = resolve_priority(tax, tax.priorities[2].id, signals).id
  PROVE  final = tax.priorities[2].id /\ final # tax.priorities[1].id
<1> DEFINE p == tax.priorities
<1>1. Len(p) \in Nat /\ DOMAIN p = 1..Len(p) /\ 2 \in DOMAIN p /\ 1 \in DOMAIN p
  BY DEF TaxOK, Listed
<1>2. p[2].id \in Ids(p) /\ p[2].id # p[1].id
  BY <1>1, UniqueIds DEF Ids, TaxOK
<1>3. ASSUME NEW id \in Ids(p), id # p[1].id PROVE ~(priority_rank(tax, id) > priority_rank(tax, p[2].id))
  <2>1. PICK i \in DOMAIN p : id = p[i].id
    BY DEF Ids
  <2>2. i = 2 \/ 2 < i
    BY <1>1, <1>3, <2>1
  <2>3. /\ priority_rank(tax, id) = p[i].rank /\ priority_rank(tax, p[2].id) = p[2].rank
        /\ p[i].rank \in Int /\ p[2].rank \in Int
    BY <1>1, <2>1, RankIs DEF TaxOK, Elements
  <2> QED
    BY <1>1, <2>2, <2>3, RanksFall
<1>4. /\ final \in Ids(p)
      /\ \/ final = p[2].id
         \/ final # p[1].id /\ priority_rank(tax, final) > priority_rank(tax, p[2].id)
  BY <1>2, Resolved
<1> QED
  BY <1>2, <1>3, <1>4

\* The rules need a priority to raise to: there is a second one.
LEMMA TwoPriorities == TaxOK => Len(tax.priorities) > 1
<1> SUFFICES ASSUME TaxOK PROVE Len(tax.priorities) > 1
  OBVIOUS
<1> DEFINE p == tax.priorities
<1>1. Len(p) \in Nat /\ DOMAIN p = 1..Len(p)
  BY DEF TaxOK, Listed
<1>2. tax.signals[1] \in Elements(tax.signals)
  BY DEF TaxOK, Listed, _entries, Elements
<1>3. PICK i \in DOMAIN p : p[i].id # p[1].id
  BY <1>2 DEF TaxOK, Ids
<1> QED
  BY <1>1, <1>3

\* What the properties say of the record is what the rules make of it.
LEMMA Decided ==
  ASSUME TaxOK, ClsOK, Decide
  PROVE  PriorityHonest'
<1> DEFINE Rank(id) == priority_rank(tax, id)
           p == tax.priorities
           model == cls.model_priority
           final == result.priority.id
           susp == _suspected_instructions(job.text)
<1>1. /\ pc = "rules" /\ UNCHANGED <<tax, job, cls>>
      /\ result'.signals = Signals
      /\ result'.priority = Priority(tax, model, Signals, susp)
      /\ result'.reasons = Flags(Signals, result'.priority)
  BY DEF Decide
<1>2. Signals \in SUBSET Elements(tax.signals)
  BY DEF Signals, detect_signals
<1>3. "suspected_instructions" \in result'.reasons <=> susp
  BY <1>1 DEF Flags
<1> SUFFICES ASSUME cls # Absent
             PROVE  /\ Rank(final') = p[1].rank => Rank(model) = p[1].rank /\ ~susp
                    /\ Rank(final') < Rank(model) => susp /\ Rank(final') = p[2].rank
                    /\ \A s \in Signals : Rank(final') >= Rank(s.floor)
                    /\ Rank(final') > Rank(model) => \E s \in Signals : Rank(s.floor) = Rank(final')
  BY <1>1, <1>3 DEF PriorityHonest, Ran
<1>4. model \in Ids(p)
  BY DEF ClsOK
<1>5. p[2].id \in Ids(p) /\ p[2].id # p[1].id /\ p[1].id \in Ids(p)
  BY TwoPriorities, UniqueIds DEF TaxOK, Listed, Ids
<1>6. \A id \in Ids(p) : /\ Rank(id) \in Int
                         /\ Rank(id) = p[1].rank <=> id = p[1].id
                         /\ Rank(id) <= p[1].rank
  BY RankOfId
<1>7. Rank(p[2].id) = p[2].rank
  BY TwoPriorities, RankIs DEF TaxOK, Listed
<1>8. \A s \in Signals : s.floor \in Ids(p) /\ s.floor # p[1].id
  BY <1>2 DEF TaxOK
<1>9. CASE susp /\ model = p[1].id
  <2>1. final' = resolve_priority(tax, p[2].id, Signals).id
    BY <1>1, <1>9, TwoPriorities DEF Priority, resolve_priority, From
  <2>2. final' = p[2].id /\ \A s \in Signals : Rank(final') >= Rank(s.floor)
    BY <1>2, <1>5, <2>1, Capped, Resolved, TwoPriorities
  <2> QED
    BY <1>5, <1>6, <1>7, <1>9, <2>2
<1>10. CASE ~(susp /\ model = p[1].id)
  <2>1. final' = resolve_priority(tax, model, Signals).id
    BY <1>1, <1>10 DEF Priority
  <2>2. /\ final' \in Ids(p)
        /\ final' = model \/ /\ final' # p[1].id /\ final' \in Floors(Signals)
                              /\ Rank(final') > Rank(model)
        /\ \A s \in Signals : Rank(final') >= Rank(s.floor)
    BY <1>2, <1>4, <2>1, Resolved
  <2>3. final' \in Floors(Signals) => \E s \in Signals : Rank(s.floor) = Rank(final')
    BY DEF Floors
  <2> QED
    BY <1>4, <1>6, <1>10, <2>2, <2>3
<1> QED
  BY <1>9, <1>10

\* A subcategory that is kept is one of the category the model chose.
LEMMA SubFits ==
  ASSUME TaxOK, NEW v, v.category \in Ids(tax.categories)
  PROVE  Sub(v) \in {None} \cup Get(tax.categories, v.category).subcategories
<1> DEFINE sub == v.subcategory
           owner == CHOOSE c \in Elements(tax.categories) : sub \in c.subcategories
<1> SUFFICES ASSUME category_of_subcategory(tax, sub) = v.category
             PROVE  sub \in Get(tax.categories, v.category).subcategories
  BY DEF Sub
<1>1. v.category # None
  BY DEF TaxOK
<1>2. \E c \in Elements(tax.categories) : sub \in c.subcategories
  BY <1>1 DEF category_of_subcategory
<1>3. owner \in Elements(tax.categories) /\ sub \in owner.subcategories /\ owner.id = v.category
  BY <1>2 DEF category_of_subcategory
<1>4. PICK i \in DOMAIN tax.categories : owner = tax.categories[i]
  BY <1>3 DEF Elements
<1>5. Get(tax.categories, v.category) = owner
  BY <1>3, <1>4, GetIs DEF TaxOK
<1> QED
  BY <1>3, <1>5

-----------------------------------------------------------------------------
(* The invariant.                                                          *)

\* The loader's checks hold of the taxonomy that is kept.
LEMMA InitTax == Init => TaxOK
<1> SUFFICES ASSUME Init PROVE TaxOK
  OBVIOUS
<1>1. PICK raw \in Taxonomies : Loads(raw) /\ tax = Taxonomy(raw)
  BY DEF Init
<1>2. {"priorities", "categories", "signals"} \subseteq DOMAIN raw
  BY TaxonomiesAssumption
<1>3. /\ tax.priorities = raw.priorities /\ tax.categories = raw.categories
      /\ tax.signals = raw.signals
  BY <1>1, <1>2 DEF Taxonomy
<1>4. /\ raw.priorities \in Seq(Elements(raw.priorities))
      /\ raw.categories \in Seq(Elements(raw.categories))
      /\ raw.signals \in Seq(Elements(raw.signals))
      /\ \A p \in Elements(raw.priorities) : p.rank \in Int
      /\ None \notin Ids(raw.categories)
  BY TaxonomiesAssumption
<1>5. /\ LoadsPriorities(raw) /\ _entries(raw.categories) /\ _entries(raw.signals)
      /\ \A c, d \in Elements(raw.categories) : c # d => c.subcategories \cap d.subcategories = {}
      /\ \A s \in Elements(raw.signals) : s.floor \in Ids(raw.priorities) \ {raw.priorities[1].id}
  BY <1>1 DEF Loads, LoadsCategories, LoadsSignals
<1>6. LoadsPriorities(tax) /\ _entries(raw.priorities)
  BY <1>3, <1>5 DEF LoadsPriorities
<1> QED
  BY <1>3, <1>4, <1>5, <1>6 DEF TaxOK, Listed

\* The invariant holds at the start.
LEMMA InitInv == Init => IInv
<1> SUFFICES ASSUME Init PROVE IInv
  OBVIOUS
<1>1. cls = Absent /\ pc = "start"
  BY DEF Init
<1> QED
  BY <1>1, InitTax DEF IInv, ClsOK, PriorityHonest, Ran

\* A verdict is made by Classify alone.
LEMMA StepCls ==
  ASSUME TaxOK, ClsOK, [Next]_vars
  PROVE  ClsOK' /\ UNCHANGED tax
<1>1. ASSUME UNCHANGED <<tax, cls>>, cls = Absent \/ UNCHANGED pc \/ pc' = "done"
      PROVE  ClsOK'
  BY <1>1 DEF ClsOK, SubcategoryFits
<1>2. CASE UNCHANGED vars
  BY <1>1, <1>2 DEF vars
<1>3. CASE Classify
  <2>1. PICK v \in Verdicts : Classifies(v) /\ cls' = Verdict(v)
    BY <1>3 DEF Classify
  <2>2. pc' = "rules" /\ UNCHANGED tax
    BY <1>3 DEF Classify
  <2>3. /\ cls'.model_priority = v.priority /\ cls'.subcategory = Sub(v)
        /\ cls'.category = v.category
    BY <2>1 DEF Verdict
  <2>4. v.priority \in Ids(tax.priorities) /\ v.category \in Ids(tax.categories)
    BY <2>1 DEF Classifies
  <2> QED
    BY <2>2, <2>3, <2>4, SubFits DEF ClsOK, SubcategoryFits
<1>4. CASE Decide \/ acknowledgment \/ Stopped
  BY <1>1, <1>4 DEF Decide, acknowledgment, Stopped, vars
<1>5. CASE Empty \/ Structuring \/ Structure \/ History \/ Insights \/ _insights_output
  BY <1>1, <1>5 DEF Empty, Structuring, Structure, History, Insights, _insights_output, ClsOK
<1>6. CASE Send \/ Propagates \/ Unusable \/ Misclassify
  BY <1>1, <1>6 DEF Send, Propagates, Unusable, Misclassify, Retries, ClsOK
<1> QED
  BY <1>2, <1>3, <1>4, <1>5, <1>6 DEF Next, Step

\* Only the rules make a result of a verdict.
LEMMA StepPriority ==
  ASSUME TaxOK, ClsOK, PriorityHonest, [Next]_vars
  PROVE  PriorityHonest'
<1>1. ASSUME UNCHANGED <<tax, job, pc, cls, result>> PROVE PriorityHonest'
  BY <1>1 DEF PriorityHonest, Ran
<1>2. ASSUME cls' = Absent \/ pc' # "done" PROVE PriorityHonest'
  BY <1>2 DEF PriorityHonest, Ran
<1>3. CASE UNCHANGED vars
  BY <1>1, <1>3 DEF vars
<1>4. CASE acknowledgment \/ Stopped
  BY <1>1, <1>4 DEF acknowledgment, Stopped, vars
<1>5. CASE Decide
  BY <1>5, Decided
<1>6. CASE Empty \/ _insights_output
  BY <1>2, <1>6 DEF Empty, _insights_output, ClsOK
<1>7. CASE Structuring \/ Structure \/ History \/ Classify \/ Insights
  BY <1>2, <1>7 DEF Structuring, Structure, History, Classify, Insights
<1>8. CASE Send \/ Propagates \/ Unusable \/ Misclassify
  BY <1>2, <1>8 DEF Send, Propagates, Unusable, Misclassify, Retries
<1> QED
  BY <1>3, <1>4, <1>5, <1>6, <1>7, <1>8 DEF Next, Step

\* Every step keeps the invariant.
LEMMA NextInv == IInv /\ [Next]_vars => IInv'
<1> SUFFICES ASSUME IInv, [Next]_vars PROVE IInv'
  OBVIOUS
<1>1. ClsOK' /\ UNCHANGED tax
  BY StepCls DEF IInv
<1>2. TaxOK'
  BY <1>1 DEF IInv, TaxOK, LoadsPriorities
<1> QED
  BY <1>1, <1>2, StepPriority DEF IInv

\* The verdict of an analysis keeps to the taxonomy and to the rules, whatever
\* the file, the letter and the model say (classify, resolve_priority, analyze).
THEOREM VerdictCorrect == Spec => []VerdictHonest
<1>1. IInv => VerdictHonest
  BY DEF IInv, VerdictHonest, ClsOK, SubcategoryFits
<1> QED
  BY <1>1, InitInv, NextInv, PTL DEF Spec

-----------------------------------------------------------------------------
(* The letter.                                                             *)

\* A request of the insights is made for the insights.
AskOK == pc \in {"ask", "wait"} =>
    "step" \in DOMAIN ask /\ (ask.step = "insights" => job.kind = "insights")

\* An analysis flags a region that is known and not the entity's own.
FlagOK ==
    pc = "done" /\ job.kind = "analyze" /\ "outside_jurisdiction" \in result.reasons
        => structured.region.id \notin {"unknown", tax.home}

\* A letter is there only once the analysis is done.
LetterInv == AskOK /\ FlagOK /\ (letter # Absent => pc = "done") /\ LetterFollowsRecord

\* It holds at the start.
LEMMA InitLetter == Init => LetterInv
  BY DEF Init, LetterInv, AskOK, FlagOK, LetterFollowsRecord

\* A letter that is written follows the record it is written from.
LEMMA Written ==
  ASSUME LetterInv, acknowledgment
  PROVE  LetterInv'
<1>1. PICK c \in Corrections :
         letter' = [kind |-> "letter", record |-> Corrected(c), plain |-> _receipt_only(Corrected(c)),
                    forwarded |-> IF ~_receipt_only(Corrected(c)) /\ _outside_region(Corrected(c)).outside
                                  THEN _outside_region(Corrected(c)).where ELSE None,
                    promised |-> IF _receipt_only(Corrected(c)) \/ _outside_region(Corrected(c)).outside
                                 THEN None ELSE Corrected(c).priority]
  BY DEF acknowledgment
<1> DEFINE record == Corrected(c)
           to == _outside_region(record)
<1>2. pc = "done" /\ job.kind = "analyze" /\ UNCHANGED <<tax, job, pc, ask, structured, result>>
  BY DEF acknowledgment
<1>3. AskOK' /\ FlagOK' /\ pc' = "done"
  BY <1>2 DEF LetterInv, AskOK, FlagOK
<1>4. letter'.record = record
  BY <1>1
<1> HIDE DEF record
<1>5. to.outside => to.where # tax.home /\ record.region \in {"unknown", to.where}
  BY <1>2 DEF LetterInv, FlagOK, _outside_region
<1>6. ~to.outside => record.region \in {"unknown", tax.home}
  BY DEF _outside_region
<1>7. ~_receipt_only(record) =>
        record.status # "rejected" /\ (structured.is_complaint \/ record.reviewed)
  BY DEF _receipt_only
<1>8. letter'.forwarded # None => ~_receipt_only(record) /\ to.outside /\ letter'.forwarded = to.where
  BY <1>1 DEF record
<1>9. letter'.promised # None => ~_receipt_only(record) /\ ~to.outside
  BY <1>1 DEF record
<1>10. LetterFollowsRecord'
  BY <1>2, <1>4, <1>5, <1>6, <1>7, <1>8, <1>9 DEF LetterFollowsRecord
<1> QED
  BY <1>3, <1>10 DEF LetterInv

\* Every step keeps the letters true.
LEMMA NextLetter == LetterInv /\ [Next]_vars => LetterInv'
<1> SUFFICES ASSUME LetterInv, [Next]_vars PROVE LetterInv'
  OBVIOUS
<1>1. CASE UNCHANGED vars \/ Stopped
  BY <1>1 DEF vars, Stopped, LetterInv, AskOK, FlagOK, LetterFollowsRecord
<1>2. CASE acknowledgment
  BY <1>2, Written
<1>3. ASSUME pc # "done", UNCHANGED letter, AskOK', FlagOK' PROVE LetterInv'
  BY <1>3 DEF LetterInv, LetterFollowsRecord
<1>4. CASE Decide
  <2>1. /\ pc = "rules" /\ pc' = "done" /\ UNCHANGED <<tax, structured, letter>>
        /\ result'.reasons = Flags(Signals, result'.priority)
    BY <1>4 DEF Decide
  <2>2. "outside_jurisdiction" \in result'.reasons => structured.region.id \notin {"unknown", tax.home}
    BY <2>1 DEF Flags
  <2> QED
    BY <1>3, <2>1, <2>2 DEF AskOK, FlagOK
<1>5. CASE Empty \/ _insights_output
  BY <1>3, <1>5 DEF Empty, _insights_output, LetterInv, AskOK, FlagOK
<1>6. CASE Structuring \/ History \/ Insights
  BY <1>3, <1>6 DEF Structuring, History, Insights, Ask, AskOK, FlagOK
<1>7. CASE Structure \/ Classify \/ Propagates
  BY <1>3, <1>7 DEF Structure, Classify, Propagates, AskOK, FlagOK
<1>8. CASE Send
  BY <1>3, <1>8 DEF Send, LetterInv, AskOK, FlagOK
<1>9. CASE Unusable \/ Misclassify
  BY <1>3, <1>9 DEF Unusable, Misclassify, Retries, LetterInv, AskOK, FlagOK
<1> QED
  BY <1>1, <1>2, <1>4, <1>5, <1>6, <1>7, <1>8, <1>9 DEF Next, Step

\* Every letter sends the complaint where the record belongs, whatever the
\* model said and a reviewer set, and promises a deadline only for one that
\* stays (acknowledgment).
THEOREM LetterCorrect == Spec => []LetterFollowsRecord
<1>1. LetterInv => LetterFollowsRecord
  BY DEF LetterInv
<1> QED
  BY <1>1, InitLetter, NextLetter, PTL DEF Spec

-----------------------------------------------------------------------------
(* Lists that are kept in part, put together and searched.                 *)

\* What is kept of a list are entries of it that were to be kept.  (The
\* recursion is one that a function answers to: there is no least index up to
\* which none does.)
LEMMA OnlyIs ==
  ASSUME NEW S, NEW list \in Seq(S), NEW kept
  PROVE  Only(list, kept) \in Seq({e \in S : e \in kept})
<1> DEFINE N == Len(list)
           K == {e \in S : e \in kept}
           Next_(f, n) == IF n = 0 THEN <<>>
                          ELSE IF list[n] \in kept THEN Append(f[n - 1], list[n]) ELSE f[n - 1]
           Upto(f, m) == f = [n \in 0..m |-> Next_(f, n)]
           T == {m \in 0..N : ~ \E f : Upto(f, m)}
<1>0. N \in Nat /\ \A n \in 1..N : list[n] \in S
  OBVIOUS
<1>1. T = {}
  <2> SUFFICES ASSUME T # {} PROVE FALSE
    OBVIOUS
  <2>1. T \in SUBSET Nat
    BY <1>0
  <2>2. PICK m \in T : \A k \in T : m <= k
    <3> HIDE DEF T
    <3> QED
      BY <2>1, LeastIndex
  <2>3. m # 0
    <3>1. Upto([n \in 0..0 |-> <<>>], 0)
      OBVIOUS
    <3> QED
      BY <3>1, <2>2
  <2>4. m \in 1..N /\ m - 1 \in 0..N /\ m - 1 \notin T
    <3>1. m \in 0..N
      OBVIOUS
    <3> HIDE DEF T
    <3> QED
      BY <1>0, <2>2, <2>3, <3>1
  <2>5. PICK f : Upto(f, m - 1)
    BY <2>4
  <2> DEFINE g == [n \in 0..m |-> IF n = m THEN Next_(f, m) ELSE f[n]]
  <2>6. ASSUME NEW n \in 0..m PROVE g[n] = Next_(g, n)
    <3>1. (n - 1 \in 0..m /\ n - 1 # m) \/ n = 0
      BY <2>4
    <3>2. n # 0 => g[n - 1] = f[n - 1]
      BY <3>1
    <3>3. CASE n = m
      BY <3>2, <3>3
    <3>4. CASE n # m
      <4>0. n \in 0..(m - 1)
        BY <2>4, <3>4
      <4>1. f[n] = Next_(f, n)
        <5> DEFINE D == 0..(m - 1)
        <5>1. f = [i \in D |-> Next_(f, i)] /\ n \in D
          BY <2>5, <4>0
        <5> HIDE DEF D, N
        <5> QED
          BY <5>1, Zenon
      <4> QED
        BY <4>1, <3>2, <3>4
    <3> QED
      BY <3>3, <3>4
  <2>7. Upto(g, m)
    BY <2>6
  <2> QED
    BY <2>2, <2>7
<1> DEFINE F == CHOOSE f : Upto(f, N)
<1>2. Upto(F, N)
  <2>1. N \in 0..N /\ N \notin T
    BY <1>0, <1>1
  <2>2. \E f : Upto(f, N)
    BY <2>1
  <2> HIDE DEF Upto
  <2> QED
    BY <2>2
<1>3. Only(list, kept) = F[N]
  BY DEF Only
<1> HIDE DEF F
<1> DEFINE U == {m \in 0..N : F[m] \notin Seq(K)}
<1>4. U = {}
  <2> SUFFICES ASSUME U # {} PROVE FALSE
    OBVIOUS
  <2>1. U \in SUBSET Nat
    BY <1>0
  <2>2. PICK m \in U : \A k \in U : m <= k
    <3> HIDE DEF U
    <3> QED
      BY <2>1, LeastIndex
  <2>3. F[m] = Next_(F, m)
    BY <1>2, <2>2
  <2>4. m # 0
    <3>1. <<>> \in Seq(K)
      OBVIOUS
    <3>2. m = 0 => F[m] = <<>>
      BY <2>3
    <3>3. F[m] \notin Seq(K)
      BY <2>2
    <3> QED
      BY <3>1, <3>2, <3>3
  <2>5. m \in 1..N /\ m - 1 \in 0..N /\ F[m - 1] \in Seq(K)
    BY <1>0, <2>2, <2>4
  <2>6. list[m] \in kept => list[m] \in K
    BY <1>0, <2>5
  <2> HIDE DEF K
  <2>7. F[m] \in Seq(K)
    BY <2>3, <2>4, <2>5, <2>6
  <2> QED
    BY <2>2, <2>7
<1> QED
  BY <1>0, <1>3, <1>4

\* A list, of whatever entries.
Listing(s) == s \in Seq(Elements(s))

\* A list has as many entries as its length says.
LEMMA ListLen ==
  ASSUME NEW s, Listing(s)
  PROVE  Len(s) \in Nat /\ DOMAIN s = 1..Len(s)
  BY DEF Listing

\* A sequence of anything is a list.
LEMMA ListOf ==
  ASSUME NEW S, NEW s \in Seq(S)
  PROVE  Listing(s)
  BY DEF Listing, Elements

\* A name has a word, and no word of it is a separator or a blank.
LEMMA NameLen ==
  ASSUME NEW n, Name(n)
  PROVE  /\ Len(n) \in Nat /\ Len(n) >= 1 /\ DOMAIN n = 1..Len(n)
         /\ \A k \in 1..Len(n) : n[k] # Comma /\ n[k] # Blanked
<1>1. Listing(n) /\ n # <<>> /\ \A k \in DOMAIN n : n[k] \notin {Comma} \cup {Blanked}
  BY DEF Name, Listing, Separators
<1>2. Len(n) \in Nat /\ DOMAIN n = 1..Len(n)
  BY <1>1, ListLen
<1>3. Len(n) # 0
  BY <1>1, EmptySeq DEF Listing
<1> QED
  BY <1>1, <1>2, <1>3

\* What occurs in a part of a text occurs in the text.
LEMMA OccursIn ==
  ASSUME NEW text, Listing(text), NEW v, Listing(v), NEW n, Name(n),
         Contains(text, v), NEW i \in DOMAIN v, Occurs(v, i, n)
  PROVE  Contains(text, n)
<1>1. /\ Len(text) \in Nat /\ DOMAIN text = 1..Len(text) /\ Len(v) \in Nat /\ DOMAIN v = 1..Len(v)
      /\ Len(n) \in Nat /\ Len(n) >= 1 /\ DOMAIN n = 1..Len(n)
  BY ListLen, NameLen
<1>2. PICK j \in DOMAIN text : Occurs(text, j, v)
  BY DEF Contains
<1> DEFINE at == j + i - 1
<1>3. at \in DOMAIN text /\ at + Len(n) - 1 <= Len(text)
  BY <1>1, <1>2 DEF Occurs
<1>4. ASSUME NEW k \in DOMAIN n PROVE text[at + k - 1] = n[k]
  <2>1. i + k - 1 \in DOMAIN v /\ v[i + k - 1] = n[k]
    BY <1>1 DEF Occurs
  <2>2. text[j + (i + k - 1) - 1] = v[i + k - 1]
    BY <1>2, <2>1 DEF Occurs
  <2>3. j + (i + k - 1) - 1 = at + k - 1
    BY <1>1, <1>2
  <2> QED
    BY <2>1, <2>2, <2>3
<1> QED
  BY <1>3, <1>4 DEF Contains, Occurs

\* Two lists put together with a separator between them.
LEMMA Together ==
  ASSUME NEW x, Listing(x), NEW y, Listing(y), NEW z, z = x \o <<Comma>> \o y
  PROVE  /\ DOMAIN z = 1..(Len(x) + 1 + Len(y)) /\ Len(z) = Len(x) + 1 + Len(y)
         /\ \A k \in 1..Len(x) : z[k] = x[k]
         /\ z[Len(x) + 1] = Comma
         /\ \A k \in 1..Len(y) : z[Len(x) + 1 + k] = y[k]
<1> DEFINE S == Elements(x) \cup Elements(y) \cup {Comma}
<1>1. DOMAIN x = 1..Len(x) /\ DOMAIN y = 1..Len(y) /\ Len(x) \in Nat /\ Len(y) \in Nat
  BY ListLen
<1>2. x \in Seq(S) /\ y \in Seq(S) /\ <<Comma>> \in Seq(S)
  <2>1. Elements(x) \subseteq S /\ Elements(y) \subseteq S /\ Comma \in S
    OBVIOUS
  <2> HIDE DEF S
  <2> QED
    BY <2>1 DEF Listing
<1> HIDE DEF S
<1> QED
  BY <1>1, <1>2

\* A place past the separator is a place in what follows it.
LEMMA Beyond ==
  ASSUME NEW i \in Int, NEW a \in Nat, NEW b \in Nat, NEW m \in Nat, m >= 1,
         i > a + 1, i + m - 1 <= a + 1 + b
  PROVE  \E j \in 1..b : i = a + 1 + j /\ j + m - 1 <= b
<1>1. i - a - 1 \in 1..b /\ i = a + 1 + (i - a - 1) /\ (i - a - 1) + m - 1 <= b
  OBVIOUS
<1> QED
  BY <1>1

\* A name in two values put together is in one of them: it holds no separator.
LEMMA InOneOf ==
  ASSUME NEW x, Listing(x), NEW y, Listing(y), NEW z, z = x \o <<Comma>> \o y,
         NEW n, Name(n), NEW i \in DOMAIN z, Occurs(z, i, n)
  PROVE  \/ \E k \in DOMAIN x : Occurs(x, k, n)
         \/ \E k \in DOMAIN y : Occurs(y, k, n)
<1> DEFINE a == Len(x)
           b == Len(y)
           m == Len(n)
<1>1. /\ a \in Nat /\ DOMAIN x = 1..a /\ b \in Nat /\ DOMAIN y = 1..b
      /\ m \in Nat /\ m >= 1 /\ DOMAIN n = 1..m
  BY ListLen, NameLen
<1>2. \A k \in 1..m : n[k] # Comma
  BY NameLen
<1>3. /\ Len(z) = a + 1 + b /\ DOMAIN z = 1..(a + 1 + b)
      /\ \A k \in 1..a : z[k] = x[k]
      /\ z[a + 1] = Comma
      /\ \A k \in 1..b : z[a + 1 + k] = y[k]
  BY Together
<1>4. /\ i \in 1..(a + 1 + b) /\ i + m - 1 <= a + 1 + b
      /\ \A k \in 1..m : z[i + k - 1] = n[k]
  BY <1>1, <1>3 DEF Occurs
<1> SUFFICES \/ \E k \in 1..a : k + m - 1 <= a /\ \A l \in 1..m : x[k + l - 1] = n[l]
             \/ \E k \in 1..b : k + m - 1 <= b /\ \A l \in 1..m : y[k + l - 1] = n[l]
  BY <1>1 DEF Occurs
<1> HIDE DEF a, b, m
<1>5. ~(i <= a + 1 /\ a + 1 <= i + m - 1)
  <2> SUFFICES ASSUME i <= a + 1, a + 1 <= i + m - 1 PROVE FALSE
    OBVIOUS
  <2> DEFINE k == a + 2 - i
  <2>1. k \in 1..m /\ i + k - 1 = a + 1
    BY <1>1, <1>4
  <2>2. n[k] = z[a + 1]
    BY <1>4, <2>1
  <2> QED
    BY <1>2, <1>3, <2>1, <2>2
<1>6. CASE i + m - 1 <= a
  <2>1. i \in 1..a /\ \A k \in 1..m : i + k - 1 \in 1..a
    BY <1>1, <1>4, <1>6
  <2>2. \A k \in 1..m : x[i + k - 1] = n[k]
    BY <1>3, <1>4, <2>1
  <2> QED
    BY <1>6, <2>1, <2>2
<1>7. CASE i > a + 1
  <2>0. PICK j \in 1..b : i = a + 1 + j /\ j + m - 1 <= b
    <3>1. i \in Int /\ i + m - 1 <= a + 1 + b
      BY <1>1, <1>4
    <3> QED
      BY <1>1, <1>7, <3>1, Beyond
  <2>1. ASSUME NEW k \in 1..m PROVE j + k - 1 \in 1..b /\ a + 1 + (j + k - 1) = i + k - 1
    <3>1. j >= 1 /\ k >= 1 /\ k <= m /\ k \in Int /\ j \in Int /\ m \in Int /\ a \in Int /\ b \in Int
      BY <1>1, <2>0
    <3>2. j + k - 1 <= b /\ j + k - 1 >= 1
      BY <2>0, <3>1
    <3> QED
      BY <2>0, <3>1, <3>2
  <2>2. \A k \in 1..m : y[j + k - 1] = n[k]
    BY <1>3, <1>4, <2>1
  <2> QED
    BY <2>0, <2>2
<1> QED
  BY <1>1, <1>4, <1>5, <1>6, <1>7

\* A rule that looks for a name.
Named(r) == Name(r.name) /\ r.is_city \in BOOLEAN

\* A rule that starts somewhere has its name there.
LEMMA StartsAt ==
  ASSUME NEW text, Listing(text), NEW r, Name(r.name), NEW word, Starts(text, r, word) # {}
  PROVE  \E i \in DOMAIN text : Occurs(text, i, r.name)
<1>1. /\ Len(text) \in Nat /\ DOMAIN text = 1..Len(text)
      /\ Len(r.name) \in Nat /\ Len(r.name) >= 1
  BY ListLen, NameLen
<1>2. CASE r.name \in Ambiguous
  <2>1. _whole_field(text, r.name)
    BY <1>2 DEF Starts
  <2>2. CASE Occurs(text, 1, r.name)
    <3>1. 1 \in DOMAIN text
      BY <1>1, <2>2 DEF Occurs
    <3> QED
      BY <2>2, <3>1
  <2> QED
    BY <2>1, <2>2 DEF _whole_field
<1>3. CASE r.name \notin Ambiguous
  BY <1>3 DEF Starts
<1> QED
  BY <1>2, <1>3

\* A hit has its least place, and its name fits in the text.
LEMMA HitIs ==
  ASSUME NEW text, Listing(text), NEW rules, \A r \in rules : Named(r), NEW word,
         NEW h \in Hits(text, rules, word)
  PROVE  /\ h.rule \in rules /\ h.rule.is_city \in BOOLEAN /\ h.start \in Nat
         /\ Len(h.rule.name) \in Nat /\ Len(h.rule.name) <= Len(text)
         /\ \E i \in DOMAIN text : Occurs(text, i, h.rule.name)
<1>1. PICK r \in rules :
        /\ Starts(text, r, word) # {} /\ h.rule = r
        /\ h.start = CHOOSE i \in Starts(text, r, word) : \A j \in Starts(text, r, word) : i <= j
  BY DEF Hits
<1> DEFINE T == Starts(text, r, word)
<1>2. T \in SUBSET Nat
  <2>1. DOMAIN text \subseteq Nat
    BY ListLen
  <2> QED
    BY <2>1 DEF Starts
<1>3. \E i \in T : \A j \in T : i <= j
  <2> HIDE DEF T
  <2> QED
    BY <1>1, <1>2, LeastIndex DEF T
<1>4. h.start \in Nat
  BY <1>1, <1>2, <1>3
<1>5. PICK i \in DOMAIN text : Occurs(text, i, r.name)
  BY <1>1, StartsAt DEF Named
<1>6. Len(r.name) \in Nat /\ Len(r.name) <= Len(text)
  BY <1>1, <1>5, ListLen, NameLen DEF Named, Occurs
<1> QED
  BY <1>1, <1>4, <1>5, <1>6 DEF Named

-----------------------------------------------------------------------------
(* Places the letter names.                                                *)

\* Of some hits one is beaten by none: the sure ones, of these the cities, of
\* these the longest, of these the first.
LEMMA Unbeaten ==
  ASSUME NEW top \in Nat, NEW H, H # {},
         \A h \in H : /\ h.rule.is_city \in BOOLEAN /\ h.start \in Nat
                      /\ Len(h.rule.name) \in Nat /\ Len(h.rule.name) <= top
  PROVE  \E h \in H : \A k \in H : ~Beats(k, h)
<1> DEFINE Sure(h) == h.rule.name \notin Ambiguous
           City(h) == h.rule.is_city
           Size_(h) == top - Len(h.rule.name)
<1>1. \E A : /\ A # {} /\ A \subseteq H
             /\ \A h \in A, k \in H : Sure(k) => Sure(h)
             /\ \A h \in A, k \in H : Sure(h) = Sure(k) => k \in A
  <2>1. CASE \E h \in H : Sure(h)
    <3>1. {h \in H : Sure(h)} # {}
      BY <2>1
    <3> QED
      BY <3>1
  <2>2. CASE ~ \E h \in H : Sure(h)
    BY <2>2
  <2> QED
    BY <2>1, <2>2
<1>2. PICK A : /\ A # {} /\ A \subseteq H
               /\ \A h \in A, k \in H : Sure(k) => Sure(h)
               /\ \A h \in A, k \in H : Sure(h) = Sure(k) => k \in A
  BY <1>1
<1>3. \E B : /\ B # {} /\ B \subseteq A
             /\ \A h \in B, k \in A : City(k) => City(h)
             /\ \A h \in B, k \in A : City(h) = City(k) => k \in B
  <2>1. CASE \E h \in A : City(h)
    <3>1. {h \in A : City(h)} # {}
      BY <2>1
    <3> DEFINE D == {h \in A : City(h)}
    <3>2. ASSUME NEW h \in D, NEW k \in A, City(h) = City(k) PROVE k \in D
      <4>1. City(k)
        BY <3>2, Zenon
      <4> QED
        BY <4>1
    <3>3. D # {} /\ D \subseteq A /\ \A h \in D, k \in A : City(k) => City(h)
      BY <3>1
    <3> QED
      BY <3>2, <3>3
  <2>2. CASE ~ \E h \in A : City(h)
    BY <2>2, <1>2
  <2> QED
    BY <2>1, <2>2
<1>4. PICK B : /\ B # {} /\ B \subseteq A
               /\ \A h \in B, k \in A : City(k) => City(h)
               /\ \A h \in B, k \in A : City(h) = City(k) => k \in B
  BY <1>3
<1>5. PICK s \in {Size_(h) : h \in B} : \A t \in {Size_(h) : h \in B} : s <= t
  <2> DEFINE T == {Size_(h) : h \in B}
  <2>1. T \in SUBSET Nat /\ T # {}
    BY <1>2, <1>4
  <2> HIDE DEF T
  <2> QED
    BY <2>1, LeastIndex DEF T
<1> DEFINE C == {h \in B : Size_(h) = s}
<1>6. PICK m \in {h.start : h \in C} : \A t \in {h.start : h \in C} : m <= t
  <2> DEFINE T == {h.start : h \in C}
  <2>1. T \in SUBSET Nat /\ T # {}
    BY <1>2, <1>4, <1>5
  <2> HIDE DEF T
  <2> QED
    BY <2>1, LeastIndex DEF T
<1>7. PICK h \in C : h.start = m
  BY <1>6
<1>8. ASSUME NEW k \in H, Beats(k, h) PROVE FALSE
  <2>1. h \in B /\ h \in A /\ h \in H /\ Size_(h) = s
    BY <1>2, <1>4, <1>7
  <2>2. ~(Sure(k) /\ ~Sure(h))
    BY <1>2, <2>1
  <2>3. Sure(k) = Sure(h)
    BY <1>8, <2>2 DEF Beats
  <2>4. k \in A
    BY <1>2, <2>1, <2>3
  <2>5. ~(City(k) /\ ~City(h))
    BY <1>4, <2>1, <2>4
  <2>6. City(k) = City(h)
    BY <1>8, <2>2, <2>5 DEF Beats
  <2>7. k \in B
    BY <1>4, <2>1, <2>4, <2>6
  <2>8. s <= Size_(k)
    BY <1>5, <2>7
  <2>9. /\ Len(k.rule.name) \in Nat /\ Len(h.rule.name) \in Nat /\ k.start \in Nat /\ h.start \in Nat
    BY <2>1
  <2>10. Len(k.rule.name) <= Len(h.rule.name)
    BY <2>1, <2>8, <2>9
  <2>11. Len(k.rule.name) = Len(h.rule.name) /\ k.start < h.start
    BY <1>8, <2>2, <2>5, <2>9, <2>10 DEF Beats
  <2>12. k \in C
    BY <2>1, <2>7, <2>11
  <2>13. m <= k.start
    BY <1>6, <2>12
  <2> QED
    BY <1>7, <2>9, <2>11, <2>13
<1> QED
  BY <1>7, <1>8, <1>2, <1>4

\* What a search comes to is a rule's whose name the text has.
LEMMA Found ==
  ASSUME NEW text, Listing(text), NEW rules, \A r \in rules : Named(r), NEW word,
         Best(Hits(text, rules, word)) # None
  PROVE  \E r \in rules : /\ r.of = Best(Hits(text, rules, word))
                          /\ \E i \in DOMAIN text : Occurs(text, i, r.name)
<1> DEFINE H == Hits(text, rules, word)
           h == CHOOSE x \in H : \A k \in H : ~Beats(k, x)
<1>1. H # {}
  BY DEF Best
<1>2. \A x \in H : /\ x.rule.is_city \in BOOLEAN /\ x.start \in Nat
                   /\ Len(x.rule.name) \in Nat /\ Len(x.rule.name) <= Len(text)
  BY HitIs
<1>3. Len(text) \in Nat
  BY ListLen
<1>4. \E x \in H : \A k \in H : ~Beats(k, x)
  <2> HIDE DEF H
  <2> QED
    BY <1>1, <1>2, <1>3, Unbeaten
<1>5. h \in H
  BY <1>4
<1>6. Best(H) = h.rule.of
  BY <1>1 DEF Best
<1> HIDE DEF h
<1> QED
  BY <1>5, <1>6, HitIs

\* A word of a text that is not blanked is the text's own, and no name covers it.
LEMMA BlankKeeps ==
  ASSUME NEW text, Listing(text), NEW names
  PROVE  /\ Listing(Blank(text, names)) /\ Len(Blank(text, names)) = Len(text)
         /\ DOMAIN Blank(text, names) = DOMAIN text
         /\ \A j \in DOMAIN text : Blank(text, names)[j] # Blanked =>
                Blank(text, names)[j] = text[j] /\ j \notin Covered(text, names)
<1> DEFINE b == Blank(text, names)
<1>1. b = [j \in DOMAIN text |-> IF j \in Covered(text, names) THEN Blanked ELSE text[j]]
  BY DEF Blank
<1>2. Len(text) \in Nat /\ DOMAIN text = 1..Len(text)
  BY ListLen
<1>3. DOMAIN b = 1..Len(text)
  BY <1>1, <1>2
<1>4. b \in Seq(Elements(b)) /\ Len(b) = Len(text)
  <2>1. b = [j \in 1..Len(text) |-> b[j]] /\ \A j \in 1..Len(text) : b[j] \in Elements(b)
    BY <1>1, <1>2, <1>3 DEF Elements
  <2> HIDE DEF b
  <2>2. b \in [1..Len(text) -> Elements(b)]
    BY <2>1
  <2>3. b \in Seq(Elements(b))
    BY <1>2, <2>2
  <2> QED
    BY <1>2, <1>3, <2>3
<1> QED
  BY <1>1, <1>2, <1>3, <1>4 DEF Listing

\* A name that backs a place stands in the text, outside the addressee.
LEMMA Backs ==
  ASSUME NEW t, NEW text, Listing(text), NEW line, Listing(line), NEW n, Name(n),
         NEW i \in DOMAIN _support_text(t, text, line), Occurs(_support_text(t, text, line), i, n)
  PROVE  /\ i \in DOMAIN text /\ Occurs(text, i, n)
         /\ \/ line = <<>>
            \/ \A k \in DOMAIN text : Occurs(text, k, line) => i \notin k..(k + Len(line) - 1)
<1> DEFINE rest == IF line = <<>> THEN text ELSE Blank(text, {line})
           others == _entity_names(t) \cup _entity_names_en(t)
           support == Blank(rest, others)
<1>1. _support_text(t, text, line) = support
  BY DEF _support_text
<1>2. /\ Listing(rest) /\ Len(rest) = Len(text) /\ DOMAIN rest = DOMAIN text
      /\ \A j \in DOMAIN text : rest[j] # Blanked =>
            rest[j] = text[j] /\ (line # <<>> => j \notin Covered(text, {line}))
  BY BlankKeeps
<1> HIDE DEF rest, others
<1>3. /\ Len(support) = Len(rest) /\ DOMAIN support = DOMAIN rest
      /\ \A j \in DOMAIN rest : support[j] # Blanked => support[j] = rest[j]
  BY <1>2, BlankKeeps
<1> HIDE DEF support
<1>4. /\ Len(text) \in Nat /\ DOMAIN text = 1..Len(text) /\ Len(line) \in Nat
      /\ Len(n) \in Nat /\ Len(n) >= 1 /\ DOMAIN n = 1..Len(n)
      /\ \A k \in 1..Len(n) : n[k] # Blanked
  BY ListLen, NameLen
<1>5. /\ i \in DOMAIN text /\ i + Len(n) - 1 <= Len(text)
      /\ \A k \in 1..Len(n) : support[i + k - 1] = n[k]
  BY <1>1, <1>2, <1>3, <1>4 DEF Occurs
<1>6. ASSUME NEW k \in 1..Len(n)
      PROVE  /\ i + k - 1 \in DOMAIN text
             /\ rest[i + k - 1] = n[k] /\ rest[i + k - 1] # Blanked
             /\ text[i + k - 1] = n[k]
  <2>1. i + k - 1 \in DOMAIN text
    BY <1>4, <1>5
  <2> QED
    BY <1>2, <1>3, <1>4, <1>5, <2>1
<1>7. Occurs(text, i, n)
  BY <1>4, <1>5, <1>6 DEF Occurs
<1>8. ASSUME line # <<>>, NEW k \in DOMAIN text, Occurs(text, k, line)
      PROVE  i \notin k..(k + Len(line) - 1)
  <2>1. i \notin Covered(text, {line})
    <3>1. 1 \in 1..Len(n) /\ i + 1 - 1 = i
      BY <1>4, <1>5
    <3>2. rest[i] # Blanked
      BY <1>6, <3>1
    <3> QED
      BY <1>2, <1>5, <1>8, <3>2
  <2>2. SUFFICES ASSUME i \in k..(k + Len(line) - 1) PROVE FALSE
    OBVIOUS
  <2>3. <<line, k>> \in {q \in {line} \X DOMAIN text : Occurs(text, q[2], q[1])}
    BY <1>8
  <2>4. i \in {j \in DOMAIN text : k <= j /\ j < k + Len(line)}
    BY <1>4, <1>5, <2>2
  <2>5. i \in Covered(text, {line})
    BY <2>3, <2>4 DEF Covered
  <2> QED
    BY <2>1, <2>5
<1> QED
  BY <1>5, <1>7, <1>8

\* A value that is looked up is one the text has.
Verified_(text, v) == Listing(v) /\ (v # <<>> => Contains(text, v))

\* A name found in a value that is looked up stands in the text.
LEMMA LookedUp ==
  ASSUME NEW text, Listing(text), NEW incident, Verified_(text, incident),
         NEW city, Verified_(text, city), NEW district, Verified_(text, district),
         NEW i \in DOMAIN Tried(incident, city, district)
  PROVE  LET v == Tried(incident, city, district)[i]
         IN  Listing(v) /\ \A n : Name(n) /\ (\E k \in DOMAIN v : Occurs(v, k, n)) => Contains(text, n)
<1> DEFINE both == IF city = <<>> THEN district ELSE IF district = <<>> THEN city
                   ELSE city \o <<Comma>> \o district
           S == {incident, city, both}
           list == <<incident, city, both>>
           tried == Tried(incident, city, district)
<1>1. tried \in Seq({v \in S : v \in S \ {<<>>}})
  <2>1. list \in Seq(S)
    <3> HIDE DEF both
    <3> QED
      OBVIOUS
  <2>2. tried = Only(list, S \ {<<>>})
    BY DEF Tried
  <2> HIDE DEF list, tried, S
  <2> QED
    BY <2>1, <2>2, OnlyIs
<1>2. tried[i] \in S /\ tried[i] # <<>>
  <2> HIDE DEF S
  <2> QED
    BY <1>1
<1>3. ASSUME NEW v, Verified_(text, v), v # <<>>
      PROVE  Listing(v) /\ \A n : Name(n) /\ (\E k \in DOMAIN v : Occurs(v, k, n)) => Contains(text, n)
  BY <1>3, OccursIn DEF Verified_
<1>4. CASE tried[i] \in {incident, city, district}
  BY <1>2, <1>3, <1>4
<1>5. CASE city # <<>> /\ district # <<>> /\ tried[i] = city \o <<Comma>> \o district
  <2> DEFINE v == city \o <<Comma>> \o district
  <2>1. Listing(city) /\ Listing(district)
    BY DEF Verified_
  <2>2. Listing(v)
    <3> DEFINE E == Elements(city) \cup Elements(district) \cup {Comma}
    <3>1. Elements(city) \subseteq E /\ Elements(district) \subseteq E /\ Comma \in E
      OBVIOUS
    <3> HIDE DEF E
    <3>2. v \in Seq(E)
      BY <2>1, <3>1 DEF Listing
    <3> QED
      BY <3>2, ListOf
  <2>3. ASSUME NEW n, Name(n), NEW k \in DOMAIN v, Occurs(v, k, n) PROVE Contains(text, n)
    <3>1. \/ \E m \in DOMAIN city : Occurs(city, m, n)
          \/ \E m \in DOMAIN district : Occurs(district, m, n)
      <4> HIDE DEF v
      <4>1. v = city \o <<Comma>> \o district
        BY DEF v
      <4> QED
        BY <2>1, <2>3, <4>1, InOneOf
    <3> QED
      BY <1>3, <1>5, <2>3, <3>1
  <2> HIDE DEF v
  <2>4. tried[i] = v
    BY <1>5 DEF v
  <2> QED
    BY <2>2, <2>3, <2>4
<1>6. tried[i] \in {incident, city, district} \/ (city # <<>> /\ district # <<>> /\ tried[i] = city \o <<Comma>> \o district)
  BY <1>2
<1> QED
  BY <1>4, <1>5, <1>6

\* What is looked up is a list.
LEMMA TriedList ==
  ASSUME NEW x, NEW y, NEW z
  PROVE  Listing(Tried(x, y, z))
<1> DEFINE both == IF y = <<>> THEN z ELSE IF z = <<>> THEN y ELSE y \o <<Comma>> \o z
<1>1. Tried(x, y, z) = Only(<<x, y, both>>, {x, y, both} \ {<<>>})
  BY DEF Tried
<1> HIDE DEF both
<1>2. <<x, y, both>> \in Seq({x, y, both})
  OBVIOUS
<1> QED
  BY <1>1, <1>2, OnlyIs, ListOf

\* The value the search stops at is one of those tried.
LEMMA StopsAt ==
  ASSUME NEW t, NEW list, Listing(list), Stops(t, list) # 0
  PROVE  Stops(t, list) \in DOMAIN list
<1> DEFINE Home(i) == region_for_city(t, list[i]) = t.home
           Ends_(i) == \/ governorate_for_place(t, list[i]) # None
                       \/ /\ region_for_city(t, list[i]) \notin {None, t.home}
                          /\ \A j \in 1..(i - 1) : ~Home(j)
           T == {i \in DOMAIN list : Ends_(i)}
<1>1. T # {} /\ Stops(t, list) = CHOOSE i \in DOMAIN list : Ends_(i) /\ \A j \in 1..(i - 1) : ~Ends_(j)
  BY DEF Stops
<1>2. Len(list) \in Nat /\ DOMAIN list = 1..Len(list)
  BY ListLen
<1>3. PICK i \in T : \A j \in T : i <= j
  <2>1. T \in SUBSET Nat
    BY <1>2
  <2> HIDE DEF T
  <2> QED
    BY <1>1, <2>1, LeastIndex
<1>4. ASSUME NEW j \in 1..(i - 1) PROVE ~Ends_(j)
  <2>1. j \in DOMAIN list /\ ~(i <= j)
    BY <1>2, <1>3
  <2>2. j \notin T
    BY <1>3, <2>1
  <2> HIDE DEF Ends_
  <2> QED
    BY <2>1, <2>2
<1> HIDE DEF Ends_
<1>5. \E k \in DOMAIN list : Ends_(k) /\ \A j \in 1..(k - 1) : ~Ends_(j)
  BY <1>3, <1>4
<1> QED
  BY <1>1, <1>5

\* A place is the home region's when it is a governorate, and what the model
\* said of it stands only when the text names it elsewhere than in the address.
LEMMA Resolves ==
  ASSUME NEW t, \A r \in t.city_rules \cup t.place_rules : Named(r),
         NEW text, Listing(text), NEW line, Listing(line),
         NEW incident, Verified_(text, incident), NEW city, Verified_(text, city),
         NEW district, Verified_(text, district), NEW reg, NEW gov, NEW p,
         p = _resolve_place(t, incident, city, district, reg, gov, _support_text(t, text, line))
  PROVE  /\ p.region.source = "llm" =>
              \E r \in t.city_rules \cup t.place_rules :
                /\ r.of \in {p.region.id, p.governorate.id}
                /\ \E i \in DOMAIN text :
                     /\ Occurs(text, i, r.name)
                     /\ \/ line = <<>>
                        \/ \A k \in DOMAIN text : Occurs(text, k, line) => i \notin k..(k + Len(line) - 1)
         /\ p.governorate.id # "unknown" =>
              /\ p.region.id = t.home
              /\ \E r \in t.place_rules : r.of = p.governorate.id /\ Contains(text, r.name)
<1> DEFINE support == _support_text(t, text, line)
           tried == Tried(incident, city, district)
           stop == Stops(t, tried)
           found == governorate_for_place(t, tried[stop])
           Elsewhere_(n) == \E i \in DOMAIN text :
                     /\ Occurs(text, i, n)
                     /\ \/ line = <<>>
                        \/ \A k \in DOMAIN text : Occurs(text, k, line) => i \notin k..(k + Len(line) - 1)
<1>1. Listing(support)
  <2>1. Listing(IF line = <<>> THEN text ELSE Blank(text, {line}))
    BY BlankKeeps
  <2> QED
    BY <2>1, BlankKeeps DEF _support_text
<1>2. ASSUME NEW rules, \A r \in rules : Named(r), NEW word, NEW h \in Hits(support, rules, word)
      PROVE  h.rule \in rules /\ Elsewhere_(h.rule.name) /\ Contains(text, h.rule.name)
  <2>1. /\ h.rule \in rules /\ \E i \in DOMAIN support : Occurs(support, i, h.rule.name)
    BY <1>1, <1>2, HitIs
  <2>2. PICK i \in DOMAIN support : Occurs(support, i, h.rule.name)
    BY <2>1
  <2>3. Name(h.rule.name)
    BY <1>2, <2>1 DEF Named
  <2>4. /\ i \in DOMAIN text /\ Occurs(text, i, h.rule.name)
        /\ \/ line = <<>>
           \/ \A k \in DOMAIN text : Occurs(text, k, line) => i \notin k..(k + Len(line) - 1)
    BY <2>2, <2>3, Backs
  <2> QED
    BY <2>1, <2>4 DEF Contains
<1>3. CASE stop = 0
  <2> DEFINE named == \E i \in DOMAIN tried : region_for_city(t, tried[i]) = t.home
             backed == gov # "unknown" /\ gov \in governorates_in(t, support)
             where == IF named THEN From(t.home, "city_map")
                      ELSE IF reg # "unknown" /\ reg \in regions_in(t, support) THEN From(reg, "llm")
                      ELSE IF backed THEN From(t.home, "llm") ELSE Unknown
  <2>1. /\ p.region = where
        /\ p.governorate = IF backed /\ where.id = t.home THEN From(gov, "llm") ELSE Unknown
    BY <1>3 DEF _resolve_place, Inferred
  <2>2. backed => \E r \in t.place_rules : r.of = gov /\ Elsewhere_(r.name) /\ Contains(text, r.name)
    BY <1>2 DEF governorates_in
  <2>3. reg \in regions_in(t, support) =>
          \E r \in t.city_rules : r.of = reg /\ Elsewhere_(r.name)
    BY <1>2 DEF regions_in
  <2> HIDE DEF backed, named, Elsewhere_
  <2>4. ASSUME p.governorate.id # "unknown"
        PROVE  /\ backed /\ p.region.id = t.home /\ p.governorate.id = gov
    BY <2>1, <2>4 DEF From, Unknown
  <2>5. ASSUME p.region.source = "llm"
        PROVE  \/ p.region.id = reg /\ reg \in regions_in(t, support)
               \/ backed /\ p.governorate.id = gov
    BY <2>1, <2>5 DEF From, Unknown
  <2>6. p.region.source = "llm" =>
          \E r \in t.city_rules \cup t.place_rules :
             r.of \in {p.region.id, p.governorate.id} /\ Elsewhere_(r.name)
    BY <2>2, <2>3, <2>5
  <2>7. p.governorate.id # "unknown" =>
          p.region.id = t.home /\ \E r \in t.place_rules : r.of = p.governorate.id /\ Contains(text, r.name)
    BY <2>2, <2>4
  <2> QED
    BY <2>6, <2>7 DEF Elsewhere_
<1>4. CASE stop # 0 /\ found # None
  <2>1. p.region = From(t.home, "place_map") /\ p.governorate = From(found, "place_map")
    BY <1>4 DEF _resolve_place
  <2>2. Listing(tried)
    BY TriedList
  <2>3. stop \in DOMAIN tried
    BY <1>4, <2>2, StopsAt
  <2>4. Listing(tried[stop]) /\ \A n : Name(n) /\ (\E k \in DOMAIN tried[stop] : Occurs(tried[stop], k, n))
           => Contains(text, n)
    BY <2>3, LookedUp
  <2>5. found = Best(Hits(tried[stop], t.place_rules, TRUE))
    BY DEF governorate_for_place
  <2> HIDE DEF tried, stop, found
  <2>6. PICK r \in t.place_rules : /\ r.of = found
                                   /\ \E i \in DOMAIN tried[stop] : Occurs(tried[stop], i, r.name)
    BY <1>4, <2>4, <2>5, Found
  <2>7. Contains(text, r.name)
    BY <2>4, <2>6 DEF Named
  <2> QED
    BY <2>1, <2>6, <2>7 DEF From
<1>5. CASE stop # 0 /\ found = None
  <2>1. p.region.source = "city_map" /\ p.governorate = Unknown
    BY <1>5 DEF _resolve_place, From
  <2> QED
    BY <2>1 DEF Unknown
<1> QED
  BY <1>3, <1>4, <1>5

-----------------------------------------------------------------------------
(* The letter's own words.                                                 *)

\* What is kept of a letter's facts: values cited in its text, places it backs.
NamesOK == \A r \in tax.city_rules \cup tax.place_rules : Named(r)
\* The facts once there are cited from the text, the places backed by it.
FactsOK == structured # Absent =>
    /\ \A k \in FieldKeys : structured.fields[k].verified =>
            Contains(job.text, structured.fields[k].value)
    /\ Backed
\* Step 2 is asked only about a letter whose facts are known.
FactsFirst ==
    pc \in {"history", "rules"} \/ cls # Absent \/ (pc \in {"ask", "wait"} /\ ask.step = "classify")
        => structured # Absent
\* The inductive invariant of what rests on the letter.
OwnInv ==
    /\ NamesOK /\ Listing(job.text) /\ FactsOK /\ FactsFirst
    /\ OwnIdOnly /\ PlacesAreNoAlarm

\* Every rule of the taxonomy looks for a name.
LEMMA InitNames == Init => NamesOK
<1> SUFFICES ASSUME Init PROVE NamesOK
  OBVIOUS
<1>1. PICK raw \in Taxonomies : tax = Taxonomy(raw)
  BY DEF Init
<1>2. tax.city_rules = _build_city_rules(raw) /\ tax.place_rules = PlaceRules(raw)
  BY <1>1 DEF Taxonomy
<1>3. \A n \in PlaceNames(raw) : Name(n)
  BY TaxonomiesAssumption
<1>4. ASSUME NEW n, Name(n) PROVE Name(_region_short(n))
  <2>1. CASE Len(n) > 1 /\ n[1] = "region"
    <3>1. n \in Seq(Elements(n)) /\ n # <<>>
      BY <1>4 DEF Name
    <3>2. /\ Tail(n) \in Seq(Elements(n)) /\ Len(Tail(n)) = Len(n) - 1
          /\ \A k \in 1..(Len(n) - 1) : Tail(n)[k] = n[k + 1]
      BY <3>1, HeadTailProperties
    <3>3. Listing(Tail(n))
      BY <3>2, ListOf
    <3>4. /\ Len(Tail(n)) \in Nat /\ DOMAIN Tail(n) = 1..Len(Tail(n))
          /\ Len(n) \in Nat /\ DOMAIN n = 1..Len(n)
      BY <3>1, <3>3, ListLen DEF Listing
    <3>5. Tail(n) # <<>>
      <4>1. Len(<<>>) = 0 /\ Len(Tail(n)) # 0
        BY <2>1, <3>2, <3>4
      <4> QED
        BY <4>1, Zenon
    <3>6. ASSUME NEW k \in DOMAIN Tail(n) PROVE Tail(n)[k] \notin Separators \cup {Blanked}
      <4>1. k \in 1..(Len(n) - 1) /\ k + 1 \in DOMAIN n
        BY <3>2, <3>4
      <4> QED
        BY <1>4, <3>2, <4>1 DEF Name
    <3>7. _region_short(n) = Tail(n)
      BY <2>1 DEF _region_short
    <3> QED
      BY <3>3, <3>5, <3>6, <3>7 DEF Name, Listing
  <2>2. CASE ~(Len(n) > 1 /\ n[1] = "region")
    BY <1>4, <2>2 DEF _region_short
  <2> QED
    BY <2>1, <2>2
<1>5. ASSUME NEW g \in Elements(raw.governorates), NEW n \in Places(g) \cup PlacesEn(g) PROVE Name(n)
  <2> DEFINE G == UNION {Places(h) \cup PlacesEn(h) : h \in Elements(raw.governorates)}
             R == UNION {r.cities \cup NamesEn(r) \cup {r.label} : r \in Elements(raw.regions)}
  <2>1. n \in G
    BY <1>5
  <2>2. PlaceNames(raw) = R \cup G
    BY DEF PlaceNames
  <2> HIDE DEF G, R
  <2> QED
    BY <1>3, <2>1, <2>2
<1>6. ASSUME NEW r \in Elements(raw.regions)
      PROVE  /\ \A n \in r.cities \cup NamesEn(r) : Name(n)
             /\ Name(r.label) /\ Name(_region_short(r.label))
  <2>1. \A n \in r.cities \cup NamesEn(r) \cup {r.label} : Name(n)
    BY <1>3 DEF PlaceNames
  <2> QED
    BY <1>4, <2>1
<1>7. ASSUME NEW n, Name(n), NEW o, NEW c \in BOOLEAN, NEW l PROVE Named(Rule(n, o, c, l))
  BY <1>7 DEF Named, Rule
<1>8. \A r \in PlaceRules(raw) : Named(r)
  <2> TAKE r \in PlaceRules(raw)
  <2>1. PICK g \in Elements(raw.governorates) :
          \/ \E n \in Places(g) : r = Rule(n, g.id, TRUE, FALSE)
          \/ \E n \in PlacesEn(g) : r = Rule(n, g.id, TRUE, TRUE)
    BY DEF PlaceRules
  <2> QED
    BY <1>5, <1>7, <2>1
<1>9. \A r \in _build_city_rules(raw) : Named(r)
  <2> TAKE r \in _build_city_rules(raw)
  <2>1. PICK q \in Elements(raw.regions) :
          \/ \E n \in q.cities : r = Rule(n, q.id, TRUE, FALSE)
          \/ \E n \in {q.label, _region_short(q.label)} : r = Rule(n, q.id, FALSE, FALSE)
          \/ \E n \in q.places_en : r = Rule(n, q.id, TRUE, TRUE)
          \/ \E n \in LabelEn(q) : r = Rule(n, q.id, FALSE, TRUE)
          \/ \E g \in Elements(raw.governorates) : \E n \in PlacesEn(g) : r = Rule(n, q.id, TRUE, TRUE)
    <3> DEFINE Of(q) ==
          {Rule(c, q.id, TRUE, FALSE) : c \in q.cities}
          \cup {Rule(n, q.id, FALSE, FALSE) : n \in {q.label, _region_short(q.label)}}
          \cup {Rule(n, q.id, TRUE, TRUE) : n \in q.places_en}
          \cup {Rule(n, q.id, FALSE, TRUE) : n \in LabelEn(q)}
          \cup (IF q.id = raw.home
                THEN UNION {{Rule(n, q.id, TRUE, TRUE) : n \in PlacesEn(g)} : g \in Elements(raw.governorates)}
                ELSE {})
    <3>1. r \in UNION {Of(q) : q \in {x \in Elements(raw.regions) : x.id # "unknown"}}
      BY DEF _build_city_rules
    <3> HIDE DEF Of
    <3>2. PICK q \in Elements(raw.regions) : r \in Of(q)
      BY <3>1
    <3> QED
      BY <3>2 DEF Of
  <2>2. q.places_en \subseteq NamesEn(q) /\ LabelEn(q) \subseteq NamesEn(q)
    BY DEF NamesEn
  <2> QED
    BY <1>5, <1>6, <1>7, <2>1, <2>2
<1> QED
  BY <1>2, <1>8, <1>9 DEF NamesOK

\* The invariant holds at the start.
LEMMA InitOwn == Init => OwnInv
<1> SUFFICES ASSUME Init PROVE OwnInv
  OBVIOUS
<1>1. Listing(job.text)
  <2>1. job.text \in Documents \cup {<<>>}
    BY DEF Init
  <2>2. Listing(<<>>)
    BY DEF Listing
  <2>3. \A text \in Documents : Listing(text)
    BY AnalysisAssumption DEF Listing
  <2> QED
    BY <2>1, <2>2, <2>3
<1>2. structured = Absent /\ cls = Absent /\ pc = "start" /\ looked = {}
  BY DEF Init
<1> QED
  BY <1>1, <1>2, InitNames DEF OwnInv, FactsOK, FactsFirst, OwnIdOnly, PlacesAreNoAlarm, Ran

\* The facts kept of an answer are the letter's own.
LEMMA Structures ==
  ASSUME OwnInv, Structure
  PROVE  FactsOK' /\ structured' # Absent
<1>1. PICK a \in Readings : structured' = Structured(tax, job.text, ask.body, ask.cut, a)
  BY DEF Structure
<1> DEFINE fields == [k \in FieldKeys |-> Field(job.text, ask.body, a[k])]
           Ver(k) == IF fields[k].verified THEN fields[k].value ELSE <<>>
           Known(kind, id) == IF id \in Ids(kind) THEN id ELSE "unknown"
           line == fields["addressed_to"].value
           p == _resolve_place(tax, Ver("incident_location"), Ver("city"), Ver("district_or_address"),
                    Known(tax.regions, a.region), Known(tax.governorates, a.governorate),
                    _support_text(tax, job.text, line))
<1>2. UNCHANGED <<tax, job>>
  BY DEF Structure
<1>3. /\ structured'.fields = fields /\ structured'.region = p.region
      /\ structured'.governorate = p.governorate /\ structured'.kind = "structured"
  BY <1>1 DEF Structured
<1>4. structured' # Absent
  BY <1>3 DEF Absent
<1>5. ASSUME NEW k \in FieldKeys
      PROVE  /\ fields[k].value = a[k] /\ Listing(a[k])
             /\ fields[k].verified => Contains(job.text, a[k])
  <2>1. Listing(a[k])
    BY AnalysisAssumption DEF Listing
  <2>2. fields[k] = Field(job.text, ask.body, a[k])
    OBVIOUS
  <2> QED
    BY <2>1, <2>2 DEF Field, _cite
<1>6. ASSUME NEW k \in FieldKeys PROVE Verified_(job.text, Ver(k))
  <2>1. Listing(<<>>)
    BY DEF Listing
  <2> QED
    BY <1>5, <2>1 DEF Verified_
<1>7. /\ {"addressed_to", "incident_location", "city", "district_or_address"} \subseteq FieldKeys
      /\ Listing(line) /\ Listing(job.text)
  BY <1>5 DEF FieldKeys, OwnInv
<1>8. \A r \in tax.city_rules \cup tax.place_rules : Named(r)
  BY DEF OwnInv, NamesOK
<1>9. Verified_(job.text, Ver("incident_location")) /\ Verified_(job.text, Ver("city"))
      /\ Verified_(job.text, Ver("district_or_address"))
  BY <1>6, <1>7
<1> HIDE DEF Ver, Known, line, fields
<1>10. PICK q : q = p
  OBVIOUS
<1> HIDE DEF p
<1>11. /\ q.region.source = "llm" =>
            \E r \in tax.city_rules \cup tax.place_rules :
              /\ r.of \in {q.region.id, q.governorate.id}
              /\ \E i \in DOMAIN job.text :
                   /\ Occurs(job.text, i, r.name)
                   /\ \/ line = <<>>
                      \/ \A k \in DOMAIN job.text :
                            Occurs(job.text, k, line) => i \notin k..(k + Len(line) - 1)
       /\ q.governorate.id # "unknown" =>
            /\ q.region.id = tax.home
            /\ \E r \in tax.place_rules : r.of = q.governorate.id /\ Contains(job.text, r.name)
  BY <1>7, <1>8, <1>9, <1>10, Resolves DEF p
<1>12. structured'.fields["addressed_to"].value = line
  BY <1>3 DEF line
<1>13. Backed'
  BY <1>2, <1>3, <1>10, <1>11, <1>12 DEF Backed, Elsewhere
<1>14. \A k \in FieldKeys : structured'.fields[k].verified => Contains(job.text, structured'.fields[k].value)
  BY <1>3, <1>5 DEF fields
<1> QED
  BY <1>2, <1>4, <1>13, <1>14 DEF FactsOK

\* A signal found is one of a word that the letter does not use as a place.
LEMMA Alarms ==
  ASSUME NEW t, NEW text, NEW spans, NEW s \in detect_signals(t, text, spans)
  PROVE  \E i \in DOMAIN text :
            /\ text[i] \in s.patterns
            /\ ~ /\ places_in(t, <<text[i]>>) # {}
                 /\ \E j \in DOMAIN text : text[j] = text[i] /\ Word(text, j - 1) \in PlaceWords
  BY DEF detect_signals, Used

\* Every step keeps to the complainant's own words.
LEMMA NextOwn == IInv /\ LetterInv /\ OwnInv /\ [Next]_vars => OwnInv'
<1> SUFFICES ASSUME IInv, LetterInv, OwnInv, [Next]_vars PROVE OwnInv'
  OBVIOUS
<1>1. UNCHANGED <<tax, job>> => NamesOK' /\ Listing(job.text)'
  BY DEF OwnInv, NamesOK
<1>2. UNCHANGED <<tax, job, structured>> => FactsOK'
  BY DEF OwnInv, FactsOK, Backed, Elsewhere
<1>3. UNCHANGED <<job, looked>> => OwnIdOnly'
  BY DEF OwnInv, OwnIdOnly
<1>4. cls' = Absent \/ pc' # "done" \/ job'.kind # "analyze" => PlacesAreNoAlarm'
  BY DEF PlacesAreNoAlarm, Ran
<1>5. cls # Absent => pc \in {"rules", "done"}
  BY DEF IInv, ClsOK
<1>6. pc \in {"ask", "wait"} => "step" \in DOMAIN ask
  BY DEF LetterInv, AskOK
<1>7. FactsFirst
  BY DEF OwnInv
<1>8. CASE UNCHANGED vars \/ Stopped \/ acknowledgment
  <2>1. UNCHANGED <<tax, job, pc, ask, structured, cls, looked, result>>
    BY <1>8 DEF vars, Stopped, acknowledgment
  <2>2. FactsFirst' /\ PlacesAreNoAlarm'
    BY <2>1 DEF OwnInv, FactsFirst, PlacesAreNoAlarm, Ran
  <2> QED
    BY <1>1, <1>2, <1>3, <2>1, <2>2 DEF OwnInv
<1>9. CASE Structure
  <2>1. UNCHANGED <<tax, job, looked>> /\ pc' = "history"
    BY <1>9 DEF Structure
  <2>2. FactsOK' /\ structured' # Absent
    BY <1>9, Structures
  <2> QED
    BY <1>1, <1>3, <1>4, <2>1, <2>2 DEF OwnInv, FactsFirst
<1>10. CASE Empty
  <2>1. UNCHANGED <<tax, job, looked, cls>> /\ pc = "start" /\ pc' = "done"
    BY <1>10 DEF Empty
  <2>2. /\ structured'.kind = "structured" /\ structured'.region = Unknown
        /\ structured'.governorate = Unknown
        /\ \A k \in FieldKeys : structured'.fields[k] = Field(<<>>, <<>>, <<>>)
    BY <1>10 DEF Empty
  <2>3. structured' # Absent
    BY <2>2 DEF Absent
  <2>4. ~Field(<<>>, <<>>, <<>>).verified
    BY DEF Field, _cite
  <2>5. FactsOK'
    BY <2>2, <2>4 DEF FactsOK, Backed, Unknown
  <2> QED
    BY <1>1, <1>3, <1>4, <1>5, <2>1, <2>3, <2>5 DEF OwnInv, FactsFirst
<1>11. CASE History
  <2>1. UNCHANGED <<tax, job, structured, cls>> /\ pc = "history" /\ pc' = "ask"
    BY <1>11 DEF History
  <2>2. structured # Absent
    BY <1>7, <2>1 DEF FactsFirst
  <2>3. \A id \in looked' \ looked : Contains(job.text, id)
    <3>1. "national_id" \in FieldKeys
      BY DEF FieldKeys
    <3> QED
      BY <1>11, <2>2, <3>1 DEF History, LooksUp, OwnInv, FactsOK
  <2>4. OwnIdOnly'
    BY <2>1, <2>3 DEF OwnInv, OwnIdOnly
  <2> QED
    BY <1>1, <1>2, <1>4, <2>1, <2>2, <2>4 DEF OwnInv, FactsFirst
<1>12. CASE Decide
  <2>1. UNCHANGED <<tax, job, structured, cls, looked, ask>> /\ pc = "rules" /\ pc' = "done"
        /\ result'.signals = Signals
    BY <1>12 DEF Decide
  <2>2. PlacesAreNoAlarm'
    <3> SUFFICES ASSUME NEW s \in Signals, s.id # "repeated_unresolved"
                 PROVE  \E i \in DOMAIN job.text :
                          /\ job.text[i] \in s.patterns
                          /\ ~ /\ places_in(tax, <<job.text[i]>>) # {}
                               /\ \E j \in DOMAIN job.text :
                                     job.text[j] = job.text[i] /\ Word(job.text, j - 1) \in PlaceWords
      BY <2>1 DEF PlacesAreNoAlarm
    <3>1. s \in detect_signals(tax, job.text, _place_spans(tax, job.text, structured))
      BY DEF Signals
    <3> QED
      BY <3>1, Alarms
  <2>3. FactsFirst'
    BY <1>7, <2>1 DEF FactsFirst
  <2> QED
    BY <1>1, <1>2, <1>3, <2>1, <2>2, <2>3 DEF OwnInv
<1>13. CASE Classify
  <2>1. UNCHANGED <<tax, job, structured, looked, ask>> /\ pc' = "rules"
        /\ pc = "wait" /\ ask.step = "classify"
    BY <1>13 DEF Classify
  <2>2. structured # Absent
    BY <1>7, <2>1 DEF FactsFirst
  <2> QED
    BY <1>1, <1>2, <1>3, <1>4, <2>1, <2>2 DEF OwnInv, FactsFirst
<1>14. CASE Structuring \/ Insights
  <2>1. UNCHANGED <<tax, job, structured, looked, cls>> /\ pc = "start" /\ pc' = "ask"
        /\ ask'.step # "classify"
    BY <1>14 DEF Structuring, Insights, Ask
  <2> QED
    BY <1>1, <1>2, <1>3, <1>4, <1>5, <2>1 DEF OwnInv, FactsFirst
<1>15. CASE Send \/ Propagates \/ Unusable \/ Misclassify
  <2>1. UNCHANGED <<tax, job, structured, looked, cls>> /\ pc \in {"ask", "wait"} /\ pc' # "done"
        /\ pc' \notin {"history", "rules"} /\ (pc' \in {"ask", "wait"} => ask'.step = ask.step)
    BY <1>15, <1>6 DEF Send, Propagates, Unusable, Misclassify, Retries
  <2> QED
    BY <1>1, <1>2, <1>3, <1>4, <1>5, <1>7, <2>1 DEF OwnInv, FactsFirst
<1>16. CASE _insights_output
  <2>1. UNCHANGED <<tax, job, structured, looked, cls>> /\ pc = "wait" /\ pc' = "done"
    BY <1>16 DEF _insights_output
  <2> QED
    BY <1>1, <1>2, <1>3, <1>4, <1>5, <2>1 DEF OwnInv, FactsFirst
<1> QED
  BY <1>8, <1>9, <1>10, <1>11, <1>12, <1>13, <1>14, <1>15, <1>16 DEF Next, Step

\* Whatever the letter, the file and the model say: no history of a stranger is
\* counted, a place rests on the letter's own words outside the address, and no
\* word used as a place is an alarm.
THEOREM OwnWordsCount == Spec => []OwnWordsOnly
<1>1. OwnInv => OwnWordsOnly
  BY DEF OwnInv, OwnWordsOnly, PlaceIsBacked, FactsOK, FactsFirst, Ran
<1> QED
  BY <1>1, InitInv, NextInv, InitLetter, NextLetter, InitOwn, NextOwn, PTL DEF Spec

-----------------------------------------------------------------------------
(* What fits a window, and what is left of a document that does not.       *)

\* The first entries of a list.
LEMMA Firsts ==
  ASSUME NEW s, Listing(s), NEW k \in 0..Len(s)
  PROVE  /\ Listing(SubSeq(s, 1, k)) /\ SubSeq(s, 1, k) \in Seq(Elements(s)) /\ Len(SubSeq(s, 1, k)) = k /\ DOMAIN SubSeq(s, 1, k) = 1..k
         /\ \A i \in 1..k : SubSeq(s, 1, k)[i] = s[i]
<1>1. Len(s) \in Nat
  BY ListLen
<1>2. /\ SubSeq(s, 1, k) \in Seq(Elements(s)) /\ Len(SubSeq(s, 1, k)) = k
      /\ \A i \in 1..k : SubSeq(s, 1, k)[i] = s[i]
  BY <1>1 DEF Listing
<1>3. Listing(SubSeq(s, 1, k))
  BY <1>2, ListOf
<1> QED
  BY <1>2, <1>3, ListLen

\* An entry of a list is contained in it.
LEMMA EntryIn ==
  ASSUME NEW s, Listing(s), NEW i \in DOMAIN s
  PROVE  Contains(s, <<s[i]>>)
<1>1. Len(s) \in Nat /\ DOMAIN s = 1..Len(s)
  BY ListLen
<1>2. Len(<<s[i]>>) = 1 /\ DOMAIN <<s[i]>> = {1} /\ <<s[i]>>[1] = s[i]
  OBVIOUS
<1>3. Occurs(s, i, <<s[i]>>)
  BY <1>1, <1>2 DEF Occurs
<1> QED
  BY <1>3 DEF Contains

\* What is sent of a document is no longer than its words, and each mark of a
\* clip is shorter than a word.
LEMMA SizeIs ==
  ASSUME NEW body, Listing(body)
  PROVE  /\ Size(body) \in Int /\ Size(body) <= Len(body) * WordChars
         /\ (\E i \in DOMAIN body : body[i] = Gap) => Size(body) <= (Len(body) - 1) * WordChars + 5
<1> DEFINE gaps == {i \in DOMAIN body : body[i] = Gap}
           g == Cardinality(gaps)
           n == Len(body)
           w == WordChars
<1>1. n \in Nat /\ DOMAIN body = 1..n /\ w \in Nat /\ w > 5
  BY ListLen, TriageAssumption
<1>2. IsFiniteSet(gaps) /\ g \in Nat /\ (gaps # {} => g >= 1)
  <2>1. IsFiniteSet(1..n)
    <3> HIDE DEF n
    <3>1. 1 \in Int /\ n \in Int
      BY <1>1
    <3> QED
      BY <3>1, FS_Interval
  <2>2. IsFiniteSet(gaps)
    BY <1>1, <2>1, FS_Subset
  <2> HIDE DEF gaps
  <2>3. g \in Nat /\ (g = 0 <=> gaps = {})
    BY <2>2, FS_CardinalityType, FS_EmptySet
  <2> QED
    BY <2>2, <2>3
<1>3. Size(body) = n * w - g * (w - 5)
  BY DEF Size
<1> HIDE DEF n, w, g
<1>4. g * (w - 5) \in Nat /\ (g >= 1 => g * (w - 5) >= w - 5)
  <2>1. \A a, b \in Nat : a * b \in Nat /\ (a >= 1 => a * b >= b)
    OBVIOUS
  <2>2. w - 5 \in Nat
    BY <1>1
  <2> QED
    BY <1>2, <2>1, <2>2
<1>5. n * w \in Int /\ (n - 1) * w = n * w - w
  BY <1>1
<1>6. Size(body) \in Int /\ Size(body) <= n * w
  BY <1>3, <1>4, <1>5
<1>7. g >= 1 => Size(body) <= (n - 1) * w + 5
  BY <1>1, <1>3, <1>4, <1>5
<1> QED
  BY <1>2, <1>6, <1>7 DEF n, w

\* So many whole words fit.
LEMMA Fitting ==
  ASSUME NEW a \in Nat, NEW w \in Nat, w > 0
  PROVE  a \div w \in Nat /\ (a \div w) * w <= a
  OBVIOUS

\* The head of a document.
LEMMA HeadIs ==
  ASSUME NEW doc, Listing(doc), NEW limit \in Nat
  PROVE  \E k \in 0..Len(doc) : _head(doc, limit) = SubSeq(doc, 1, k) /\ k * WordChars <= limit
<1> DEFINE m == limit \div WordChars
           k == Least(Len(doc), m)
<1>1. Len(doc) \in Nat /\ WordChars \in Nat /\ WordChars > 0
  BY ListLen, TriageAssumption
<1>2. m \in Nat /\ m * WordChars <= limit
  BY <1>1, Fitting
<1>3. _head(doc, limit) = SubSeq(doc, 1, k)
  BY DEF _head
<1> HIDE DEF m
<1>4. k \in 0..Len(doc) /\ k <= m
  BY <1>1, <1>2 DEF Least
<1> HIDE DEF k
<1>5. k * WordChars <= m * WordChars
  <2>1. \A a, b, c \in Nat : a <= b => a * c <= b * c
    OBVIOUS
  <2> QED
    BY <1>1, <1>2, <1>4, <2>1
<1>6. k * WordChars <= limit
  BY <1>1, <1>2, <1>4, <1>5
<1> QED
  BY <1>3, <1>4, <1>6

\* The first words of a document.
HeadOf(body, doc) == \E k \in 0..Len(doc) : body = SubSeq(doc, 1, k)

\* A clip keeps to its limit, and without a tail it is the first words.
LEMMA ClipIs ==
  ASSUME NEW doc, Listing(doc), NEW limit \in Nat, NEW tail \in BOOLEAN, NEW c, c = _clip(doc, limit, tail)
  PROVE  /\ Listing(c.body) /\ Size(c.body) \in Int /\ Size(c.body) <= limit
         /\ ~c.cut => c.body = doc
         /\ c.cut /\ ~tail => HeadOf(c.body, doc)
<1> DEFINE keep == IF tail THEN limit \div 4 ELSE 0
           head == _head(doc, limit - keep - 5)
           most == keep \div WordChars
           start == Len(doc) - most
<1>1. /\ Len(doc) \in Nat /\ DOMAIN doc = 1..Len(doc) /\ WordChars \in Nat /\ WordChars > 5
      /\ keep \in Nat /\ keep <= limit \div 4
  BY ListLen, TriageAssumption
<1>2. CASE Len(doc) * WordChars <= limit
  <2>1. c = [body |-> doc, cut |-> FALSE]
    BY <1>2 DEF _clip
  <2>2. Size(doc) \in Int /\ Size(doc) <= Len(doc) * WordChars
    BY SizeIs
  <2> QED
    BY <1>1, <1>2, <2>1, <2>2
<1>3. CASE ~(Len(doc) * WordChars <= limit) /\ (keep < 40 \/ start <= Len(head))
  <2>1. c = [body |-> _head(doc, limit), cut |-> TRUE]
    BY <1>3 DEF _clip
  <2>2. PICK k \in 0..Len(doc) : _head(doc, limit) = SubSeq(doc, 1, k) /\ k * WordChars <= limit
    BY HeadIs
  <2>3. Listing(c.body) /\ Len(c.body) = k
    BY <2>1, <2>2, Firsts
  <2>4. Size(c.body) \in Int /\ Size(c.body) <= k * WordChars
    BY <2>3, SizeIs
  <2>5. k * WordChars \in Int
    BY <1>1
  <2> QED
    BY <1>1, <2>1, <2>2, <2>3, <2>4, <2>5 DEF HeadOf
<1>4. CASE ~(Len(doc) * WordChars <= limit) /\ ~(keep < 40 \/ start <= Len(head))
  <2> DEFINE rest == SubSeq(doc, start + 1, Len(doc))
             body == head \o <<Gap>> \o rest
  <2>a. c = [body |-> body, cut |-> TRUE]
    BY <1>4 DEF _clip
  <2>2. limit - keep - 5 \in Nat /\ keep >= 40
    BY <1>1, <1>4
  <2>3. PICK k \in 0..Len(doc) : head = SubSeq(doc, 1, k) /\ k * WordChars <= limit - keep - 5
    BY <2>2, HeadIs
  <2>4. most \in Nat /\ most * WordChars <= keep
    <3> HIDE DEF keep
    <3> QED
      BY <1>1, Fitting
  <2>5. Listing(head) /\ Len(head) = k /\ head \in Seq(Elements(doc))
    BY <2>3, Firsts DEF Listing
  <2> HIDE DEF most, head, keep
  <2>6. start > k /\ start \in 0..Len(doc)
    BY <1>1, <1>4, <2>4, <2>5
  <2>7. rest \in Seq(Elements(doc)) /\ Len(rest) = most
    BY <1>1, <2>4, <2>6 DEF Listing
  <2>8. Listing(body) /\ Len(body) = k + 1 + most /\ body[k + 1] = Gap /\ k + 1 \in DOMAIN body
    <3> DEFINE E == Elements(doc) \cup {Gap}
    <3>1. head \in Seq(E) /\ rest \in Seq(E) /\ <<Gap>> \in Seq(E)
      BY <2>5, <2>7
    <3> HIDE DEF E, rest
    <3>2. body \in Seq(E) /\ Len(body) = k + 1 + most /\ body[k + 1] = Gap /\ k + 1 \in DOMAIN body
      BY <1>1, <2>4, <2>5, <2>7, <3>1
    <3> QED
      BY <3>2, ListOf
  <2> HIDE DEF body
  <2>1. c.body = body /\ c.cut = TRUE
    BY <2>a
  <2>9. Size(body) \in Int /\ Size(body) <= (k + most) * WordChars + 5
    <3>1. Len(body) - 1 = k + most
      BY <2>4, <2>8
    <3> QED
      BY <2>8, <3>1, SizeIs
  <2>10. (k + most) * WordChars = k * WordChars + most * WordChars
    BY <1>1, <2>4
  <2>11. k * WordChars \in Int /\ most * WordChars \in Int
    BY <1>1, <2>4
  <2>12. Size(body) <= limit
    BY <1>1, <2>2, <2>3, <2>4, <2>9, <2>10, <2>11
  <2>13. tail
    BY <1>1, <1>4 DEF keep
  <2> QED
    BY <2>1, <2>8, <2>9, <2>12, <2>13, Zenon
<1> QED
  BY <1>2, <1>3, <1>4

\* A document that gets what the window leaves fits in it with the instructions
\* and the answer: what 1.5 characters a token lose on the way there and back
\* never adds up to a token.
LEMMA LimitFits ==
  ASSUME NEW n \in Nat, n >= 4096, NEW out \in {600, 900, 1400}, NEW fixed \in Nat
  PROVE  LET limit == _doc_limit(n, out, fixed)
         IN  /\ limit \in Nat /\ limit >= 1000
             /\ limit > MIN_DOC_CHARS => fixed + Tokens(limit) + out <= n
<1> DEFINE a == n - out - 900
           b == Most(0, fixed - 900)
           room == _room(n, out, fixed)
           limit == _doc_limit(n, out, fixed)
<1>1. a \in Nat /\ a >= 1796 /\ b \in Nat /\ b >= fixed - 900
  BY DEF Most
<1>2. Chars(a) \in Nat /\ Chars(a) >= 1500 /\ Chars(b) \in Nat
  BY <1>1 DEF Chars
<1>3. room \in Int /\ room <= Chars(a) - Chars(b)
  <2>1. room = Most(1500, Least(12000, Chars(a))) - Chars(b)
    BY DEF _room, input_budget_chars, OVERHEAD
  <2> HIDE DEF a, b, room
  <2>2. Most(1500, Least(12000, Chars(a))) \in Int /\ Most(1500, Least(12000, Chars(a))) <= Chars(a)
    BY <1>2 DEF Most, Least
  <2> QED
    BY <1>2, <2>1, <2>2
<1>4. limit = Most(1000, room)
  BY DEF _doc_limit, MIN_DOC_CHARS
<1> HIDE DEF a, b, room, limit
<1>5. limit \in Nat /\ limit >= 1000 /\ (limit > 1000 => limit = room)
  BY <1>3, <1>4 DEF Most
<1>6. ASSUME limit > 1000 PROVE Tokens(limit) <= a - b
  <2>1. 2 * Chars(a) <= 3 * a /\ 2 * Chars(b) >= 3 * b - 1
    BY <1>1 DEF Chars
  <2>2. limit <= Chars(a) - Chars(b)
    BY <1>3, <1>5, <1>6
  <2>3. 2 * limit <= 3 * (a - b) + 1
    BY <1>1, <1>2, <1>5, <2>1, <2>2
  <2> QED
    BY <1>1, <1>5, <2>3 DEF Tokens
<1>7. Tokens(limit) \in Int
  BY <1>5 DEF Tokens
<1>8. limit > 1000 => fixed + Tokens(limit) + out <= n
  BY <1>1, <1>6, <1>7 DEF a
<1> QED
  BY <1>5, <1>8 DEF limit, MIN_DOC_CHARS

\* Less of a document takes no more tokens.
LEMMA TokensRise ==
  ASSUME NEW x \in Int, NEW y \in Int, x <= y
  PROVE  Tokens(x) \in Int /\ Tokens(y) \in Int /\ Tokens(x) <= Tokens(y)
  BY DEF Tokens

\* Instructions, the most that is sent of a document, and answer fit the window.
Fits(request, n) ==
    /\ request.limit \in Nat
    /\ request.limit > MIN_DOC_CHARS => request.fixed + Tokens(request.limit) + request.max_tokens <= n
    /\ request.fixed \in Nat /\ request.max_tokens \in Int

\* The request of step 1 and the one of step 2 fit.
LEMMA StructFits ==
  ASSUME NEW n \in Nat, n >= 4096
  PROVE  Fits(StructRequest(n), n)
<1> DEFINE limit == _doc_limit(n, 1400, StructFixed)
<1>1. /\ StructFixed \in Nat /\ limit \in Nat
      /\ limit > MIN_DOC_CHARS => StructFixed + Tokens(limit) + 1400 <= n
  BY LimitFits, TriageAssumption
<1>2. StructRequest(n) = [fixed |-> StructFixed, limit |-> limit, max_tokens |-> 1400]
  BY DEF StructRequest, STRUCT_OUT
<1> HIDE DEF limit
<1> QED
  BY <1>1, <1>2 DEF Fits

\* So does the one of step 2, whatever the length of the document.
LEMMA ClassifyFits ==
  ASSUME NEW n \in Nat, n >= 4096, NEW chars
  PROVE  Fits(ClassifyRequest(n, chars), n)
<1> DEFINE fixed == ClassifyFixed(n, chars)
           out == ClassifyOut(n)
           limit == _doc_limit(n, out, fixed)
           rest == Least(900, n - (fixed + Tokens(limit) + 40))
<1>1. out \in {600, 900}
  BY DEF ClassifyOut, CLASSIFY_OUT_SMALL, CLASSIFY_OUT
<1>2. fixed \in Nat
  BY TriageAssumption DEF ClassifyFixed
<1>3. ClassifyRequest(n, chars) = [fixed |-> fixed, limit |-> limit, max_tokens |-> Most(out, rest)]
  BY DEF ClassifyRequest, CLASSIFY_OUT
<1> HIDE DEF fixed, out
<1>4. limit \in Nat /\ (limit > MIN_DOC_CHARS => fixed + Tokens(limit) + out <= n)
  BY <1>1, <1>2, LimitFits
<1> HIDE DEF limit
<1>5. Tokens(limit) \in Int
  BY <1>4 DEF Tokens
<1>6. Most(out, rest) \in Int /\ (Most(out, rest) = out \/ Most(out, rest) <= n - (fixed + Tokens(limit) + 40))
  BY <1>1, <1>2, <1>5 DEF Most, Least
<1>7. out \in Int
  BY <1>1
<1> HIDE DEF rest
<1>8. limit > MIN_DOC_CHARS => fixed + Tokens(limit) + Most(out, rest) <= n
  BY <1>2, <1>4, <1>5, <1>6, <1>7
<1> QED
  BY <1>2, <1>3, <1>4, <1>6, <1>8 DEF Fits

-----------------------------------------------------------------------------
(* What was sent.                                                          *)

\* A window has room, the document and the samples are lists.
JobOK ==
    /\ job.n_ctx \in Nat /\ job.n_ctx >= 4096
    /\ Listing(Doc) /\ Listing(job.board.samples)

\* A request as it stands: one that is not a retry fits, a retry has a limit.
Asked == pc \in {"ask", "wait"} =>
    /\ DOMAIN ask = {"kind", "step", "again", "limit", "fixed", "max_tokens", "rows", "body", "cut", "sent"}
    /\ ask.limit \in Nat /\ Listing(ask.rows)
    /\ ~ask.again /\ ask.step # "insights" => Fits(ask, job.n_ctx)

\* What is sent keeps to the limit, and step 2's part is the first words.
Sent == pc = "wait" =>
    /\ Listing(ask.body) /\ ask.sent \in Int
    /\ ask.step # "insights" => ask.sent <= ask.limit
    /\ ask.step = "classify" =>
         /\ ~ask.cut => ask.body = Doc
         /\ ask.cut => HeadOf(ask.body, Doc)

\* A verdict that is not marked was made of all but the closing block.
Told == cls # Absent /\ ~cls.truncated =>
    \A i \in DOMAIN Doc : Doc[i] \in Contact \/ Contains(ask.body, <<Doc[i]>>)

\* A job of insights is asked about nothing else.
InsightsOnly == job.kind = "insights" =>
    /\ pc \notin {"history", "rules"} /\ cls = Absent
    /\ pc \in {"ask", "wait"} => ask.step = "insights"

\* The inductive invariant of what is sent.
SentInv ==
    /\ JobOK /\ Asked /\ Sent /\ Told /\ InsightsOnly
    /\ TruncationTold /\ SourcesWereSeen /\ CitedWereShown

\* What a model is sent of a document is a list.
LEMMA DocList == ASSUME NEW text, Listing(text) PROVE Listing(_prepare(text))
<1>1. text \in Seq(Elements(text))
  BY DEF Listing
<1>2. _prepare(text) = Only(text, Elements(text) \ {PageMarker, Fence})
  BY DEF _prepare
<1> QED
  BY <1>1, <1>2, OnlyIs, ListOf

\* And so are the rows of the insights.
LEMMA RowsList == ASSUME NEW b, Listing(b.samples) PROVE Listing(SampleRows(b))
<1> DEFINE only == Only(Refs, b.corrected \ Elements(b.samples))
<1>1. Listing(only)
  <2>1. Refs \in Seq({"C1", "C2", "C3", "C4"})
    BY DEF Refs
  <2> QED
    BY <2>1, OnlyIs, ListOf
<1>2. SampleRows(b) = only \o b.samples
  BY DEF SampleRows
<1> HIDE DEF only
<1> DEFINE E == Elements(only) \cup Elements(b.samples)
<1>3. only \in Seq(E) /\ b.samples \in Seq(E)
  <2>1. Elements(only) \subseteq E /\ Elements(b.samples) \subseteq E
    OBVIOUS
  <2> HIDE DEF E
  <2> QED
    BY <1>1, <2>1 DEF Listing
<1> HIDE DEF E
<1>4. SampleRows(b) \in Seq(E)
  BY <1>2, <1>3
<1> QED
  BY <1>4, ListOf

\* The invariant holds at the start.
LEMMA InitSent == Init => SentInv
<1> SUFFICES ASSUME Init PROVE SentInv
  OBVIOUS
<1>1. /\ job.text \in Documents \cup {<<>>} /\ job.n_ctx \in Windows /\ job.board \in Boards \cup {NoBoard}
      /\ pc = "start" /\ cls = Absent
  BY DEF Init
<1>2. Listing(<<>>) /\ Listing(NoBoard.samples)
  BY DEF Listing, NoBoard
<1>3. /\ \A text \in Documents : Listing(text)
      /\ \A b \in Boards : Listing(b.samples)
      /\ \A n \in Windows : n \in Nat /\ n >= 4096
  BY AnalysisAssumption DEF Listing
<1>4. Listing(Doc)
  BY <1>1, <1>2, <1>3, DocList DEF Doc
<1>5. JobOK
  BY <1>1, <1>2, <1>3, <1>4 DEF JobOK
<1> QED
  BY <1>1, <1>5 DEF SentInv, Asked, Sent, Told, InsightsOnly, TruncationTold, Ran, SourcesWereSeen, CitedWereShown

\* A request is begun with a limit, and but for the insights it fits.
LEMMA Begins ==
  ASSUME NEW step, NEW request, NEW rows, Ask(step, request, rows), Listing(rows),
         request.limit \in Nat, step # "insights" => Fits(request, job'.n_ctx),
         pc' = "ask", UNCHANGED job
  PROVE  Asked' /\ Sent' /\ ask'.step = step
<1>1. /\ DOMAIN ask' = {"kind", "step", "again", "limit", "fixed", "max_tokens", "rows", "body", "cut", "sent"}
      /\ ask'.step = step /\ ask'.limit = request.limit /\ ask'.fixed = request.fixed
      /\ ask'.max_tokens = request.max_tokens /\ ask'.rows = rows
  BY DEF Ask
<1> QED
  BY <1>1 DEF Asked, Sent, Fits

\* What is sent.
LEMMA Sends ==
  ASSUME JobOK, Asked, Send
  PROVE  Asked' /\ Sent'
<1> DEFINE r == Render(ask.limit)
<1>1. /\ pc = "ask" /\ pc' = "wait" /\ UNCHANGED job
      /\ ask' = [ask EXCEPT !.body = r.body, !.cut = r.cut, !.sent = r.sent]
  BY DEF Send
<1> HIDE DEF r
<1>2. /\ DOMAIN ask' = DOMAIN ask
      /\ ask'.body = r.body /\ ask'.cut = r.cut /\ ask'.sent = r.sent
      /\ ask'.step = ask.step /\ ask'.limit = ask.limit /\ ask'.rows = ask.rows /\ ask'.again = ask.again
      /\ ask'.fixed = ask.fixed /\ ask'.max_tokens = ask.max_tokens
  BY <1>1 DEF Asked
<1>3. Asked'
  BY <1>1, <1>2 DEF Asked, Fits
<1>4. CASE ask.step = "insights"
  <2> DEFINE facts == IF FullFacts <= ask.limit \div 2 THEN FullFacts ELSE BriefFacts
             fit == Most(1, (ask.limit - facts) \div RowCost)
             k == Least(Len(ask.rows), fit)
             kept == SubSeq(ask.rows, 1, k)
  <2>1. r.body = kept /\ r.sent = facts + Len(kept) * RowCost
    BY <1>4 DEF r, Render, RowsFor
  <2>2. facts \in Nat /\ RowCost \in Nat /\ RowCost > 0 /\ ask.limit \in Nat /\ Listing(ask.rows)
    BY <1>1, AnalysisAssumption DEF Asked
  <2> HIDE DEF facts
  <2>3. fit \in Int /\ fit >= 1
    <3>1. (ask.limit - facts) \div RowCost \in Int
      BY <2>2
    <3> HIDE DEF facts
    <3> QED
      BY <3>1 DEF Most
  <2> HIDE DEF fit
  <2>4. k \in 0..Len(ask.rows)
    BY <2>2, <2>3, ListLen DEF Least
  <2> HIDE DEF k
  <2>5. Listing(kept) /\ Len(kept) = k
    BY <2>2, <2>4, Firsts
  <2> HIDE DEF kept
  <2>6. k \in Nat
    BY <2>2, <2>4, ListLen
  <2>7. r.sent \in Int
    BY <2>1, <2>2, <2>5, <2>6
  <2> QED
    BY <1>1, <1>2, <1>3, <1>4, <2>1, <2>5, <2>7 DEF Sent
<1>5. CASE ask.step # "insights"
  <2> DEFINE c == _clip(Doc, ask.limit, ask.step = "structure")
  <2>1. r.body = c.body /\ r.cut = c.cut /\ r.sent = Size(c.body)
    BY <1>5 DEF r, Render
  <2>2. ask.limit \in Nat /\ Listing(Doc)
    BY <1>1 DEF Asked, JobOK
  <2>3. ask.step = "structure" => c = _clip(Doc, ask.limit, TRUE)
    OBVIOUS
  <2>4. ask.step # "structure" => c = _clip(Doc, ask.limit, FALSE)
    OBVIOUS
  <2> HIDE DEF c
  <2>5. /\ Listing(c.body) /\ Size(c.body) \in Int /\ Size(c.body) <= ask.limit
        /\ ~c.cut => c.body = Doc
        /\ c.cut /\ ask.step = "classify" => HeadOf(c.body, Doc)
    <3>1. CASE ask.step = "structure"
      BY <2>2, <2>3, <3>1, ClipIs
    <3>2. CASE ask.step # "structure"
      BY <2>2, <2>4, <3>2, ClipIs
    <3> QED
      BY <3>1, <3>2
  <2>6. Doc' = Doc
    BY <1>1 DEF Doc
  <2> QED
    BY <1>1, <1>2, <1>3, <1>5, <2>1, <2>5, <2>6 DEF Sent
<1> QED
  BY <1>4, <1>5

\* A verdict says what it was not shown.
LEMMA Tells ==
  ASSUME JobOK, Sent, pc = "wait", ask.step = "classify", NEW v, ~Verdict(v).truncated
  PROVE  \A i \in DOMAIN Doc : Doc[i] \in Contact \/ Contains(ask.body, <<Doc[i]>>)
<1>1. ~ask.cut \/ _signature_only(LeftOut(ask.body))
  BY DEF Verdict
<1>2. Listing(Doc) /\ Len(Doc) \in Nat /\ DOMAIN Doc = 1..Len(Doc)
  BY ListLen DEF JobOK
<1>3. CASE ~ask.cut
  BY <1>2, <1>3, EntryIn DEF Sent
<1>4. CASE ask.cut /\ _signature_only(LeftOut(ask.body))
  <2>1. PICK k \in 0..Len(Doc) : ask.body = SubSeq(Doc, 1, k)
    BY <1>4 DEF Sent, HeadOf
  <2>2. /\ Listing(ask.body) /\ Len(ask.body) = k /\ DOMAIN ask.body = 1..k
        /\ \A i \in 1..k : ask.body[i] = Doc[i]
    BY <1>2, <2>1, Firsts
  <2> DEFINE rest == SubSeq(Doc, k + 1, Len(Doc))
  <2>3. \A i \in DOMAIN rest : rest[i] \in Contact
    BY <1>4, <2>2 DEF LeftOut, _signature_only
  <2>4. DOMAIN rest = 1..(Len(Doc) - k) /\ \A i \in 1..(Len(Doc) - k) : rest[i] = Doc[k + i]
    BY <1>2 DEF Listing
  <2> HIDE DEF rest
  <2>5. ASSUME NEW i \in DOMAIN Doc, i > k PROVE Doc[i] \in Contact
    <3>1. i - k \in 1..(Len(Doc) - k) /\ k + (i - k) = i
      BY <1>2, <2>5
    <3> QED
      BY <2>3, <2>4, <3>1
  <2>6. ASSUME NEW i \in DOMAIN Doc, ~(i > k) PROVE Contains(ask.body, <<Doc[i]>>)
    <3>1. i \in 1..k
      BY <1>2, <2>6
    <3>2. Contains(ask.body, <<ask.body[i]>>)
      BY <2>2, <3>1, EntryIn
    <3> QED
      BY <2>2, <3>1, <3>2
  <2> QED
    BY <2>5, <2>6
<1> QED
  BY <1>1, <1>3, <1>4

\* Every step keeps the requests and the record within what was sent.
LEMMA NextSent == IInv /\ LetterInv /\ SentInv /\ [Next]_vars => SentInv'
<1> SUFFICES ASSUME IInv, LetterInv, SentInv, [Next]_vars PROVE SentInv'
  OBVIOUS
<1>1. JobOK /\ Asked /\ Sent /\ Told /\ InsightsOnly
  BY DEF SentInv
<1>2. UNCHANGED job => JobOK' /\ Doc' = Doc
  BY <1>1 DEF JobOK, Doc
<1>3. pc' \notin {"ask", "wait"} => Asked' /\ Sent'
  BY DEF Asked, Sent
<1>4. cls' = Absent => Told' /\ TruncationTold'
  BY DEF Told, TruncationTold, Ran
<1>5. UNCHANGED <<job, cls, ask>> => Told'
  BY <1>1, <1>2 DEF Told
<1>6. pc' # "history" => SourcesWereSeen'
  BY DEF SourcesWereSeen
<1>7. pc' # "done" => TruncationTold' /\ CitedWereShown'
  BY DEF TruncationTold, Ran, CitedWereShown
<1>8. cls # Absent => pc \in {"rules", "done"}
  BY DEF IInv, ClsOK
<1>9. pc \in {"ask", "wait"} => "step" \in DOMAIN ask
  BY DEF LetterInv, AskOK
<1>10. CASE UNCHANGED vars \/ Stopped \/ acknowledgment
  <2>1. UNCHANGED <<tax, job, pc, ask, structured, cls, looked, result>>
    BY <1>10 DEF vars, Stopped, acknowledgment
  <2>2. Asked' /\ Sent'
    BY <1>1, <1>2, <2>1 DEF Asked, Sent
  <2>3. TruncationTold' /\ SourcesWereSeen' /\ CitedWereShown'
    BY <1>2, <2>1 DEF SentInv, TruncationTold, Ran, SourcesWereSeen, CitedWereShown
  <2> QED
    BY <1>1, <1>2, <1>5, <2>1, <2>2, <2>3 DEF SentInv, InsightsOnly
<1>11. CASE Empty
  <2>1. UNCHANGED <<job, cls, ask>> /\ pc = "start" /\ pc' = "done" /\ job.kind = "analyze"
    BY <1>11 DEF Empty
  <2>2. InsightsOnly' /\ CitedWereShown'
    BY <2>1 DEF InsightsOnly, CitedWereShown
  <2> QED
    BY <1>2, <1>3, <1>4, <1>6, <1>8, <2>1, <2>2 DEF SentInv
<1>12. CASE Structuring
  <2>1. UNCHANGED <<job, cls>> /\ pc = "start" /\ pc' = "ask" /\ job.kind = "analyze"
        /\ Ask("structure", StructRequest(job.n_ctx), <<>>)
    BY <1>12 DEF Structuring
  <2>2. Listing(<<>>)
    BY DEF Listing
  <2>3. Fits(StructRequest(job.n_ctx), job'.n_ctx)
    BY <1>1, <2>1, StructFits DEF JobOK
  <2>4. StructRequest(job.n_ctx).limit \in Nat
    BY <2>3 DEF Fits
  <2>5. Asked' /\ Sent'
    BY <2>1, <2>2, <2>3, <2>4, Begins
  <2>6. InsightsOnly'
    BY <2>1 DEF InsightsOnly
  <2> QED
    BY <1>2, <1>4, <1>6, <1>7, <1>8, <2>1, <2>5, <2>6 DEF SentInv
<1>13. CASE History
  <2>1. UNCHANGED <<job, cls>> /\ pc = "history" /\ pc' = "ask"
        /\ Ask("classify", ClassifyRequest(job.n_ctx, Len(Doc) * WordChars), <<>>)
    BY <1>13 DEF History
  <2>2. Listing(<<>>)
    BY DEF Listing
  <2>3. Fits(ClassifyRequest(job.n_ctx, Len(Doc) * WordChars), job'.n_ctx)
    BY <1>1, <2>1, ClassifyFits DEF JobOK
  <2>4. ClassifyRequest(job.n_ctx, Len(Doc) * WordChars).limit \in Nat
    BY <2>3 DEF Fits
  <2>5. Asked' /\ Sent'
    BY <2>1, <2>2, <2>3, <2>4, Begins
  <2>6. InsightsOnly'
    BY <1>1, <2>1 DEF InsightsOnly
  <2> QED
    BY <1>2, <1>4, <1>6, <1>7, <1>8, <2>1, <2>5, <2>6 DEF SentInv
<1>14. CASE Insights
  <2> DEFINE request == [fixed |-> InsightsFixed, max_tokens |-> 1400,
                         limit |-> Most(1, job.n_ctx - 1400 - InsightsFixed)]
  <2>1. UNCHANGED <<job, cls>> /\ pc = "start" /\ pc' = "ask"
        /\ Ask("insights", request, SampleRows(job.board))
    BY <1>14 DEF Insights
  <2>2. Listing(SampleRows(job.board))
    BY <1>1, RowsList DEF JobOK
  <2>3. request.limit \in Nat
    <3>1. job.n_ctx \in Nat /\ InsightsFixed \in Nat
      BY <1>1, AnalysisAssumption DEF JobOK
    <3> QED
      BY <3>1 DEF Most
  <2> HIDE DEF request
  <2>4. Asked' /\ Sent' /\ ask'.step = "insights"
    BY <2>1, <2>2, <2>3, Begins
  <2>5. InsightsOnly'
    BY <1>1, <2>1, <2>4 DEF InsightsOnly
  <2> QED
    BY <1>2, <1>4, <1>6, <1>7, <1>8, <2>1, <2>4, <2>5 DEF SentInv
<1>15. CASE Send
  <2>1. UNCHANGED <<job, cls>> /\ pc = "ask" /\ pc' = "wait" /\ ask'.step = ask.step
    BY <1>9, <1>15 DEF Send
  <2>2. Asked' /\ Sent'
    BY <1>1, <1>15, Sends
  <2>3. InsightsOnly'
    BY <1>1, <2>1 DEF InsightsOnly
  <2> QED
    BY <1>2, <1>4, <1>6, <1>7, <1>8, <2>1, <2>2, <2>3 DEF SentInv
<1>16. CASE Unusable \/ Misclassify
  <2>1. UNCHANGED <<job, cls>> /\ pc = "wait"
        /\ \/ pc' = "ask" /\ ask' = [ask EXCEPT !.again = TRUE, !.limit = Shrunk(ask.sent)]
           \/ pc' = "raised" /\ UNCHANGED ask
    BY <1>16 DEF Unusable, Misclassify, Retries
  <2>2. Shrunk(ask.sent) \in Nat
    BY <1>1, <2>1 DEF Sent, Shrunk, Most
  <2>3. ASSUME pc' = "ask" PROVE Asked' /\ Sent' /\ ask'.step = ask.step
    <3>1. /\ DOMAIN ask' = DOMAIN ask /\ ask'.again = TRUE /\ ask'.limit = Shrunk(ask.sent)
          /\ ask'.rows = ask.rows /\ ask'.step = ask.step
      BY <1>1, <2>1, <2>3 DEF Asked
    <3> QED
      BY <1>1, <2>1, <2>2, <2>3, <3>1 DEF Asked, Sent
  <2>4. InsightsOnly'
    BY <1>1, <2>1, <2>3 DEF InsightsOnly
  <2> QED
    BY <1>2, <1>3, <1>4, <1>6, <1>7, <1>8, <2>1, <2>3, <2>4 DEF SentInv
<1>17. CASE Propagates
  <2>1. UNCHANGED <<job, cls, ask>> /\ pc = "wait" /\ pc' = "raised"
    BY <1>17 DEF Propagates
  <2>2. InsightsOnly'
    BY <1>1, <2>1 DEF InsightsOnly
  <2> QED
    BY <1>2, <1>3, <1>4, <1>6, <1>7, <1>8, <2>1, <2>2 DEF SentInv
<1>18. CASE Structure
  <2>1. UNCHANGED <<job, cls, ask>> /\ pc = "wait" /\ pc' = "history" /\ ask.step = "structure"
    BY <1>18 DEF Structure
  <2>2. PICK a \in Readings : structured' = Structured(tax, job.text, ask.body, ask.cut, a)
    BY <1>18 DEF Structure
  <2>3. \A k \in FieldKeys : structured'.fields[k] = Field(job.text, ask.body, a[k])
    BY <2>2 DEF Structured
  <2>4. SourcesWereSeen'
    <3> SUFFICES ASSUME NEW k \in FieldKeys, structured'.fields[k].near
                 PROVE  Contains(ask.body, Reworded(structured'.fields[k].value))
      BY <2>1 DEF SourcesWereSeen
    <3>1. Field(job.text, ask.body, a[k]).near => Contains(ask.body, Reworded(a[k]))
      BY DEF Field, _near_source
    <3>2. Field(job.text, ask.body, a[k]).value = a[k]
      BY DEF Field
    <3> QED
      BY <2>3, <3>1, <3>2
  <2>5. InsightsOnly'
    BY <1>1, <2>1 DEF InsightsOnly
  <2> QED
    BY <1>2, <1>3, <1>4, <1>7, <1>8, <2>1, <2>4, <2>5 DEF SentInv
<1>19. CASE Classify
  <2>1. UNCHANGED <<job, ask>> /\ pc = "wait" /\ pc' = "rules" /\ ask.step = "classify"
    BY <1>19 DEF Classify
  <2>2. PICK v \in Verdicts : cls' = Verdict(v)
    BY <1>19 DEF Classify
  <2>3. Told'
    BY <1>1, <1>2, <2>1, <2>2, Tells DEF Told
  <2>4. InsightsOnly'
    BY <1>1, <2>1 DEF InsightsOnly
  <2> QED
    BY <1>2, <1>3, <1>6, <1>7, <2>1, <2>3, <2>4 DEF SentInv
<1>20. CASE Decide
  <2>1. UNCHANGED <<job, ask, cls>> /\ pc = "rules" /\ pc' = "done"
        /\ result'.reasons = Flags(Signals, result'.priority)
    BY <1>20 DEF Decide
  <2>2. "input_truncated" \notin result'.reasons => ~cls.truncated
    BY <2>1 DEF Flags
  <2>3. TruncationTold'
    BY <1>1, <1>2, <2>1, <2>2 DEF TruncationTold, Ran, Told
  <2>4. InsightsOnly' /\ CitedWereShown'
    BY <1>1, <2>1 DEF InsightsOnly, CitedWereShown
  <2> QED
    BY <1>2, <1>3, <1>5, <1>6, <2>1, <2>3, <2>4 DEF SentInv
<1>21. CASE _insights_output
  <2>1. UNCHANGED <<job, ask, cls>> /\ pc = "wait" /\ pc' = "done" /\ ask.step = "insights"
    BY <1>21 DEF _insights_output
  <2>2. PICK refs \in SUBSET {Refs[i] : i \in DOMAIN Refs} :
          result' = [kind |-> "insights", refs |-> {r \in refs : \E i \in DOMAIN ask.body : ask.body[i] = r}]
    BY <1>21 DEF _insights_output, Given
  <2>3. CitedWereShown'
    BY <1>1, <2>1, <2>2, EntryIn DEF CitedWereShown, Sent
  <2>4. InsightsOnly'
    BY <1>1, <2>1 DEF InsightsOnly
  <2> QED
    BY <1>2, <1>3, <1>4, <1>6, <1>8, <2>1, <2>3, <2>4 DEF SentInv
<1> QED
  BY <1>10, <1>11, <1>12, <1>13, <1>14, <1>15, <1>16, <1>17, <1>18, <1>19, <1>20, <1>21 DEF Next, Step

\* A request that is not a retry fits the window it is sent to.
LEMMA SentFits == SentInv => RequestFits
<1> SUFFICES ASSUME SentInv, pc = "wait", ~ask.again, ask.step # "insights", ask.limit > MIN_DOC_CHARS
             PROVE  ask.fixed + Tokens(ask.sent) + ask.max_tokens <= job.n_ctx
  BY DEF RequestFits
<1>1. Fits(ask, job.n_ctx) /\ ask.limit \in Nat
  BY DEF SentInv, Asked
<1>2. ask.sent \in Int /\ ask.sent <= ask.limit
  BY DEF SentInv, Sent
<1>3. Tokens(ask.sent) \in Int /\ Tokens(ask.limit) \in Int /\ Tokens(ask.sent) <= Tokens(ask.limit)
  BY <1>1, <1>2, TokensRise
<1>4. ask.fixed \in Nat /\ ask.max_tokens \in Int /\ job.n_ctx \in Nat
      /\ ask.fixed + Tokens(ask.limit) + ask.max_tokens <= job.n_ctx
  BY <1>1 DEF Fits, SentInv, JobOK
<1> QED
  BY <1>3, <1>4

\* A request fits its window, and the record claims no more than the requests
\* held, whatever the models answered and however often they were asked again
\* (_doc_limit, _clip, _ask, analyze, insights).
THEOREM RestsOnRequests == Spec => []RestsOnWhatWasSent
<1>1. SentInv => RestsOnWhatWasSent
  BY SentFits DEF SentInv, RestsOnWhatWasSent
<1> QED
  BY <1>1, InitInv, NextInv, InitLetter, NextLetter, InitSent, NextSent, PTL DEF Spec
=============================================================================
