-------------------------- MODULE MCComplaintReview --------------------------
(* A small instance of ComplaintReview: analyses that vary one field and its  *)
(* flags, and two classifications beside them.                                *)
EXTENDS ComplaintReview, TLC

CONSTANTS k1, k2, v1, v2, c1, c2

MCValues == {v1, v2}
MCCategories == {c1, c2}
MCPriorities == {"low", "high"}

Plain == [value |-> [k \in Keys |-> v1], verified |-> [k \in Keys |-> TRUE], reasons |-> {},
          category |-> c1, subcategory |-> NoValue, priority |-> "low",
          region |-> "unknown", governorate |-> "unknown"]

\* fields_unverified is given exactly when a field is pending by itself.
Pends(val, ver) == \E k \in Keys : ~ver[k] /\ val[k] # NoValue
FieldAnalyses ==
    {[Plain EXCEPT !.value = val, !.verified = ver,
                   !.reasons = why \cup (IF Pends(val, ver) THEN {Unverified} ELSE {})] :
        val \in [Keys -> Values], ver \in [Keys -> BOOLEAN], why \in SUBSET (Again \cup Informational)}

\* Analyses whose classification is complete, or as good as empty.
ClassAnalyses ==
    {[Plain EXCEPT !.category = c, !.subcategory = c, !.priority = p,
                   !.region = "home", !.governorate = "named"] :
        c \in Categories, p \in Priorities}
    \cup {Plain}

MCOneKey == {k1}
\* The fields of one key with every flag, and two classifications beside.
MCAnalyses ==
    {a \in FieldAnalyses : /\ Cardinality(a.reasons \ {Unverified}) < 2
                           /\ a.value[k1] = v1 \/ a.reasons = {}}
        \cup {a \in ClassAnalyses : a.category = c2 /\ a.priority = "high"}

\* One correction of each column, and of those that are coupled.
MCRequests ==
    {[NoChanges EXCEPT !.category = c2], [NoChanges EXCEPT !.subcategory = c1],
     [NoChanges EXCEPT !.priority = "high"], [NoChanges EXCEPT !.governorate = "named"],
     [NoChanges EXCEPT !.region = "other"], NoChanges}

\* Reviewers are only compared.
Symmetry == Permutations(Reviewers)
=============================================================================
