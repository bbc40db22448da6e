--------------------------- MODULE ComplaintReview ---------------------------
(***************************************************************************)
(* The review of one complaint: the columns save_analysis, add_feedback    *)
(* and review_field keep (complaints_store.Store), and do_feedback         *)
(* (complaints_api), which reads the complaint, checks a correction        *)
(* against what it read, and only then asks the store to write it.         *)
(*                                                                         *)
(* A store method is one transaction; do_feedback is two steps, and the    *)
(* worker or another reviewer may come between them.  No method here looks *)
(* at a second complaint, so one is enough.  The ministry is a correction  *)
(* like the category that nothing is coupled to, and is left out; so are   *)
(* the model_* columns, which these methods only write.                    *)
(***************************************************************************)
EXTENDS Naturals, FiniteSets

CONSTANTS
    Keys,           \* the analysis's structured fields
    Values,         \* what a field can say
    Again,          \* REVIEW_AGAIN: reasons that send a reviewed complaint back
    Informational,  \* the other review reasons, fields_unverified apart
    Categories, Priorities,
    Analyses,       \* what the pipeline may return
    Requests,       \* what reviewers may send as a verdict's changes
    Reviewers,      \* API threads with a verdict
    NoValue,        \* NULL; a field the text or the reviewer leaves blank
    NotGiven,       \* a correction the request does not make
    MaxRuns         \* bound: analyses

Unverified == "fields_unverified"
Reasons    == Again \cup Informational \cup {Unverified}
\* A subcategory is known by the category it belongs to, a deadline by the
\* priority whose response time was added to the received time.
Subcategories == Categories \cup {NoValue}
Regions       == {"home", "other", "unknown", NoValue}
Governorates  == {"named", "unknown", NoValue}

Analysis == [value: [Keys -> Values \cup {NoValue}], verified: [Keys -> BOOLEAN],
             reasons: SUBSET Reasons, category: Categories, subcategory: Subcategories,
             priority: Priorities, region: Regions \ {NoValue},
             governorate: Governorates \ {NoValue}]
Request  == [category: Categories \cup {NotGiven},
             subcategory: Subcategories \cup {NotGiven},
             priority: Priorities \cup {NotGiven},
             region: (Regions \ {NoValue}) \cup {NotGiven},
             governorate: (Governorates \ {NoValue}) \cup {NotGiven}]

\* The pipeline drops a subcategory of another category and gives a
\* governorate only with the entity's region.
ASSUME ReviewAssumption ==
    /\ MaxRuns \in Nat
    /\ Unverified \notin Again \cup Informational
    /\ NoValue # NotGiven
    /\ {NoValue, NotGiven} \cap (Values \cup Categories \cup Priorities) = {}
    /\ {NoValue, NotGiven} \cap {"home", "other", "unknown", "named"} = {}
    /\ Analyses \subseteq Analysis /\ Requests \subseteq Request
    /\ \A a \in Analyses :
        /\ a.subcategory \in {NoValue, a.category}
        /\ a.governorate = "named" => a.region = "home"

VARIABLES
    stage,                      \* "queued" (or being processed) or "done"
    value, verified,            \* the analysis's fields
    action, reviewValue,        \* field_reviews: "none", "accept" or "change"
    pending,                    \* the fields pending_fields counts
    reviewed, needs, reasons,   \* reviewed, needs_review, review_reasons
    category, subcategory, priority, due, region, governorate,
    \* verdicts under way: do_feedback's `clean` and `due`
    verdict, clean, cleanDue,
    \* history: the reasons standing at the last verdict, the verdicts whose
    \* complaint has changed under them, and whether such a one was written
    judged, stale, spoiled,
    runs                        \* analyses left

fields  == <<value, verified, action, reviewValue, pending>>
flags   == <<reviewed, needs, reasons>>
class   == <<category, subcategory, priority, due, region, governorate>>
jobs    == <<verdict, clean, cleanDue>>
history == <<judged, stale, spoiled>>
reviewVars    == <<stage, fields, flags, class, jobs, history, runs>>

NoChanges == [category |-> NotGiven, subcategory |-> NotGiven, priority |-> NotGiven,
              region |-> NotGiven, governorate |-> NotGiven]
Given(v)  == v # NotGiven
\* x, unless the correction gives a value.
Or(v, x)  == IF Given(v) THEN v ELSE x

ReviewInit ==
    /\ stage = "queued"
    /\ value = [k \in Keys |-> NoValue] /\ verified = [k \in Keys |-> FALSE]
    /\ action = [k \in Keys |-> "none"] /\ reviewValue = [k \in Keys |-> NoValue]
    /\ pending = {}
    /\ reviewed = FALSE /\ needs = FALSE /\ reasons = {}
    /\ category = NoValue /\ subcategory = NoValue
    /\ priority = NoValue /\ due = NoValue
    /\ region = NoValue /\ governorate = NoValue
    /\ verdict = [r \in Reviewers |-> "none"]
    /\ clean = [r \in Reviewers |-> NoChanges]
    /\ cleanDue = [r \in Reviewers |-> NotGiven]
    /\ judged = {} /\ stale = {} /\ spoiled = FALSE
    /\ runs = MaxRuns

-----------------------------------------------------------------------------
(* The flag.                                                               *)

\* _pending: the fields _is_pending holds of.
PendingIn(val, ver, act) == {k \in Keys : act[k] = "none" /\ ~ver[k] /\ val[k] # NoValue}

\* _needs_review.  A bug: a verdict answers the pending fields too.
NeedsReview_verdict(left, seen, why, again) ==
    again \/ (~seen /\ (left # {} \/ why \ {Unverified} # {}))
NeedsReview(left, seen, why, again) ==
    left # {} \/ again \/ (~seen /\ why \ {Unverified} # {})

\* The reasons a re-analysis sends a reviewed complaint back for.
Unseen(why) == (why \cap Again) \ reasons

\* review_field: whether a complaint sent back still waits for a verdict.
\* A bug: settling the last pending field always frees it.
StillAgain_freed == reviewed /\ needs /\ pending = {}
StillAgain == reviewed /\ needs /\ (pending = {} \/ reasons \cap Again # {})

-----------------------------------------------------------------------------
(* The store's methods.                                                    *)

Requeue ==
    /\ stage = "done"
    /\ stage' = "queued"
    /\ UNCHANGED <<fields, flags, class, jobs, history, runs>>

\* A review carries over if it is a change, or accepts the value given again.
\* A bug: accepts carry over whatever is given.
Carried_all(a, k) == action[k] # "none"
Carried(a, k) ==
    \/ action[k] = "change"
    \/ action[k] = "accept" /\ a.value[k] = reviewValue[k]

SaveAnalysis(a) ==
    /\ stage = "queued" /\ runs > 0
    /\ runs' = runs - 1
    /\ stage' = "done"
    /\ value' = a.value /\ verified' = a.verified
    /\ action' = [k \in Keys |-> IF Carried(a, k) THEN action[k] ELSE "none"]
    /\ reviewValue' = [k \in Keys |-> IF Carried(a, k) THEN reviewValue[k] ELSE NoValue]
    /\ pending' = PendingIn(a.value, a.verified, action')
    /\ reasons' = a.reasons
    /\ needs' = NeedsReview(pending', reviewed, a.reasons, reviewed /\ Unseen(a.reasons) # {})
    /\ IF reviewed
       THEN /\ due' = IF due = NoValue THEN a.priority ELSE due
            /\ governorate' = IF governorate = NoValue THEN a.governorate ELSE governorate
            /\ UNCHANGED <<category, subcategory, priority, region>>
       ELSE /\ category' = a.category /\ subcategory' = a.subcategory
            /\ priority' = a.priority /\ due' = a.priority
            /\ region' = a.region /\ governorate' = a.governorate
    /\ stale' = {r \in Reviewers : verdict[r] = "decided"}
    /\ UNCHANGED <<reviewed, jobs, judged, spoiled>>

\* review_field: an analysis gives every field, and do_field_review's look at
\* the stage may have come any time since the first one was saved.
ReviewField(k, act, v) ==
    /\ category # NoValue
    /\ LET before == IF action[k] = "none" THEN value[k] ELSE reviewValue[k]
       IN reviewValue' = [reviewValue EXCEPT ![k] = IF act = "accept" THEN before ELSE v]
    /\ action' = [action EXCEPT ![k] = act]
    /\ pending' = PendingIn(value, verified, action')
    /\ needs' = NeedsReview(pending', reviewed, reasons, StillAgain)
    /\ UNCHANGED <<stage, value, verified, reviewed, reasons, class, jobs, history, runs>>

-----------------------------------------------------------------------------
(* do_feedback.                                                            *)

\* The category the complaint would have.
NewCategory(q) == Or(q.category, category)

\* The subcategory: one of another category is refused, and a replaced
\* category drops its own.  A bug: the old one stays.
CleanSubcategory_kept(q) == q.subcategory
CleanSubcategory(q) ==
    IF Given(q.subcategory) \/ subcategory \in {NoValue, NewCategory(q)}
    THEN q.subcategory ELSE NoValue

\* couple_place: a named governorate brings the entity's region with it; any
\* other region makes the governorate unknown.
CleanRegion(q) ==
    IF q.governorate = "named" /\ ~Given(q.region) THEN "home" ELSE q.region
Elsewhere(q) ==
    /\ Given(q.region) \/ Given(q.governorate)
    /\ Or(CleanRegion(q), region) # "home"
    /\ Or(CleanRegion(q), region) \in {NoValue, "unknown"} => Given(CleanRegion(q))
CleanGovernorate(q) ==
    IF Elsewhere(q) /\ (Given(q.governorate) \/ governorate \notin {NoValue, "unknown"})
    THEN "unknown" ELSE q.governorate

Rejected(q) ==
    \/ Given(q.subcategory) /\ q.subcategory \notin {NoValue, NewCategory(q)}
    \/ Elsewhere(q) /\ q.governorate = "named"

\* do_feedback up to its call of the store.
Decide(r, q) ==
    /\ stage = "done" /\ verdict[r] = "none" /\ ~Rejected(q)
    /\ verdict' = [verdict EXCEPT ![r] = "decided"]
    /\ clean' = [clean EXCEPT ![r] =
            [category |-> q.category, subcategory |-> CleanSubcategory(q),
             priority |-> q.priority, region |-> CleanRegion(q),
             governorate |-> CleanGovernorate(q)]]
    /\ cleanDue' = [cleanDue EXCEPT ![r] = IF q.priority # priority THEN q.priority ELSE NotGiven]
    /\ stale' = stale \ {r}
    /\ UNCHANGED <<stage, fields, flags, class, judged, spoiled, runs>>

\* add_feedback: it looks at no stage, and at no column it was not given.
add_feedback(r) ==
    /\ verdict[r] = "decided"
    /\ category'    = Or(clean[r].category, category)
    /\ subcategory' = Or(clean[r].subcategory, subcategory)
    /\ priority'    = Or(clean[r].priority, priority)
    /\ region'      = Or(clean[r].region, region)
    /\ governorate' = Or(clean[r].governorate, governorate)
    /\ due'         = Or(cleanDue[r], due)
    /\ reviewed' = TRUE
    /\ needs' = NeedsReview(pending, TRUE, {}, FALSE)
    /\ verdict' = [verdict EXCEPT ![r] = "none"]
    /\ clean' = [clean EXCEPT ![r] = NoChanges]
    /\ cleanDue' = [cleanDue EXCEPT ![r] = NotGiven]
    /\ judged' = reasons
    /\ spoiled' = (spoiled \/ r \in stale)
    /\ stale' = {s \in Reviewers \ {r} : verdict[s] = "decided"}
    /\ UNCHANGED <<stage, fields, reasons, runs>>

ReviewNext ==
    \/ Requeue
    \/ \E a \in Analyses : SaveAnalysis(a)
    \/ \E k \in Keys, act \in {"accept", "change"}, v \in Values \cup {NoValue} :
           ReviewField(k, act, v)
    \/ \E r \in Reviewers : (\E q \in Requests : Decide(r, q)) \/ add_feedback(r)

ReviewSpec == ReviewInit /\ [][ReviewNext]_reviewVars

-----------------------------------------------------------------------------
(* Properties.                                                             *)

FieldsOK ==
    /\ value \in [Keys -> Values \cup {NoValue}]
    /\ verified \in [Keys -> BOOLEAN]
    /\ action \in [Keys -> {"none", "accept", "change"}]
    /\ reviewValue \in [Keys -> Values \cup {NoValue}]
    /\ pending \in SUBSET Keys

FlagsOK ==
    /\ stage \in {"queued", "done"}
    /\ reviewed \in BOOLEAN /\ needs \in BOOLEAN
    /\ reasons \in SUBSET Reasons /\ judged \in SUBSET Reasons
    /\ spoiled \in BOOLEAN
    /\ stale \in SUBSET Reviewers
    /\ runs \in Nat

ClassOK ==
    /\ category \in Categories \cup {NoValue} /\ subcategory \in Subcategories
    /\ priority \in Priorities \cup {NoValue} /\ due \in Priorities \cup {NoValue}
    /\ region \in Regions /\ governorate \in Governorates

JobsOK ==
    /\ verdict \in [Reviewers -> {"none", "decided"}]
    /\ clean \in [Reviewers -> Request]
    /\ cleanDue \in [Reviewers -> Priorities \cup {NotGiven}]

\* Every variable stays in its type: what do_feedback made of a request is
\* itself a request the store takes.
ReviewTypeOK == FieldsOK /\ FlagsOK /\ ClassOK /\ JobsOK

\* The pending count is that of the fields as they stand, a complaint with a
\* pending field is in review, and so is one with a reason and no verdict.
FlagIsRight ==
    /\ pending = PendingIn(value, verified, action)
    /\ pending # {} => needs
    /\ ~reviewed /\ reasons \ {Unverified} # {} => needs

Consistent ==
    /\ subcategory \in {NoValue, category}
    /\ governorate = "named" => region = "home"
    /\ due = priority

\* The classification hangs together, whatever corrections came in whatever
\* order, as long as none was written on a complaint changed since it was
\* read (do_feedback): the subcategory is of the category, a governorate is in
\* the entity's region, and the deadline is the priority's.
ConsistentUnlessSpoiled == ~spoiled => Consistent

\* What a human decided outlives a re-analysis: a reviewed complaint's
\* classification and deadline, and every value a reviewer typed.
HumanValuesStay ==
    /\ reviewed => UNCHANGED class
    /\ \A k \in Keys : action[k] = "change"
         => action'[k] = "change" /\ reviewValue'[k] = reviewValue[k]

\* An accept outlives a re-analysis only with the very value it accepted.
AcceptsGoStale ==
    \A k \in Keys : action'[k] = "accept" => value'[k] = reviewValue'[k]

\* A re-analysis keeps what people decided and drops what they only agreed to
\* (save_analysis carrying reviews over).
VerdictsOutliveAnalyses ==
    [][stage = "queued" /\ stage' = "done" => HumanValuesStay /\ AcceptsGoStale]_reviewVars

\* Settling a field never takes a complaint out of review that was sent back
\* for a reason no verdict has seen: only a verdict does.
SettlingKeepsUnseen ==
    [][needs /\ reviewed /\ (reasons \cap Again) \ judged # {} /\ action' # action
          /\ UNCHANGED <<stage, runs>>
        => needs']_reviewVars
=============================================================================
