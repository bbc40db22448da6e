---------------------------- MODULE MCStructuring ----------------------------
(* An inheritance deed: one deceased, a table of heirs, a few fields of its   *)
(* own; and the pages that tell alignment, citation and expiry apart.         *)
EXTENDS Structuring

W(w) == Written(w)
Type(matches) == [compiles |-> TRUE, fallback |-> {}, matches |-> matches]
FieldOf(key, label, type, section, required, repeatable) ==
    [key |-> key, type |-> type, label |-> W(label), aliases |-> {}, values |-> {},
     required |-> required, repeatable |-> repeatable, section |-> W(section)]
Inst(prefix, require, section, repeatable) ==
    [prefix |-> prefix, role |-> W(prefix), require |-> require, section |-> W(section),
     repeatable |-> repeatable]

MCRaw ==
    [apply |-> TRUE,
     types |-> [n \in {"text", "number"} |->
                    IF n = "text" THEN Type(None) ELSE Type({"555", "55", "101", "102", "999"})],
     groups |-> [g \in {"person"} |->
        [fields |-> <<FieldOf("name", "name", "text", "", FALSE, FALSE),
                      FieldOf("id", "id", "number", "", FALSE, FALSE)>>,
         repeatable |-> FALSE, instantiable |-> TRUE, section |-> W("parties")]],
     families |-> <<[id |-> "estates", members |-> {"estate"}]>>,
     neutral |-> {}, markers |-> {},
     templates |-> <<
        [id |-> "estate", family |-> <<"estates">>,
         sections |-> {W("deed data"), W("deceased data"), W("heirs data")},
         groups |-> <<[use |-> "person", require |-> {}, section |-> None,
            instances |-> <<Inst("deceased", {"name"}, "deceased data", FALSE),
                            Inst("heir", {"name"}, "heirs data", TRUE)>>]>>,
         fields |-> <<FieldOf("number", "deed number", "number", "deed data", TRUE, FALSE),
                      FieldOf("court", "court", "text", "deed data", TRUE, FALSE),
                      FieldOf("relation", "relation", "text", "heirs data", FALSE, TRUE),
                      [FieldOf("issued", "issued", "text", "deed data", FALSE, FALSE)
                        EXCEPT !.aliases = {W("date")}],
                      [FieldOf("heard", "heard", "text", "deed data", FALSE, FALSE)
                        EXCEPT !.aliases = {W("date")}]>>,
         anchors |-> <<>>, anchor_regexes |-> <<>>, negative_anchors |-> {}]>>]

Page(n) == [page |-> n, head |-> "", items |-> <<>>]
Head_(h) == [page |-> 0, head |-> h, items |-> <<>>]
Line(items) == [page |-> 0, head |-> "", items |-> items]
It(label, value, of) == [label |-> label, value |-> value, of |-> of, clause |-> FALSE]
Name(label, n, of) == It(label, <<Word(n)>>, of)
Id(n, of) == It(<<"id">>, <<Number(n, "hindi")>>, of)
Clause(label, date) ==
    [It(<<label>>, <<Number(date, "ascii")>>, "own") EXCEPT !.clause = TRUE]

\* a table under its heading, one row a line; the same relation twice; a seal
\* the browser counts twice; more text than fits
Table ==
    <<Page(1), Line(<<Name(<<"deed number">>, "555", "number")>>),
      Line(<<Name(<<"seal">>, "astral", "")>>),
      Head_("deceased data"), Line(<<Name(<<"name">>, "Salem", "deceased_name")>>),
      Page(2), Head_("heirs data"),
      Line(<<Name(<<"name">>, "Abdullah", "heir_name"), Name(<<"relation">>, "son", "relation")>>),
      Line(<<Name(<<"name">>, "Hudaa", "heir_name"), Name(<<"relation">>, "wife", "relation")>>),
      Line(<<Name(<<"name">>, "Khalid", "heir_name"), Name(<<"relation">>, "son", "relation")>>),
      Line(<<Name(<<"note">>, "annex", "")>>), Line(<<Name(<<"note">>, "annex", "")>>)>>
\* a heading the registry does not declare; the neighbours still know
Neighbours ==
    <<Head_("estate people"),
      Line(<<Name(<<"name", "deceased">>, "Salem", "deceased_name"), Id("101", "deceased_id"),
             Name(<<"relation">>, "son", "relation"), Id("102", "heir_id")>>),
      Line(<<Name(<<"date">>, "1446", "")>>)>>
\* no heading at all, and a name that could be anybody's
Anybody ==
    <<Line(<<Name(<<"name">>, "Salem", "")>>),
      Line(<<It(<<"deed number">>, <<Number("555", "hindi")>>, "number")>>)>>
\* a heading that names both roles, and a value the middle of the line is in
Both ==
    <<Head_("heirs data and deceased data"),
      Line(<<It(<<"court">>, <<Word("Riyadh"), Word("General")>>, "court"),
             Name(<<"name">>, "Salem", "")>>)>>
\* the instrument's own expiry stands in a clause, after a blank label and the
\* expiry of a party's identity card; the state is declared apart from it
Validity ==
    <<Line(<<It(<<"expiry date", "wakala">>, <<>>, "own")>>),
      Line(<<Name(<<"name", "deceased">>, "Salem", "deceased_name"), Name(<<"agent">>, "Ali", "")>>),
      Line(<<It(<<"expiry date", "identity">>, <<Number("past", "hindi")>>, "party")>>),
      Line(<<Name(<<"status">>, "revoked", "")>>),
      Line(<<Clause("the wakala expires on", "soon")>>),
      Line(<<Clause("issued on", "past")>>)>>
\* a month without a day; a date only the model would take
Month == <<Line(<<Clause("valid until", "month")>>), Line(<<Clause("in", "today")>>)>>
Prose == <<Page(1), Line(<<Clause("in", "past")>>), Line(<<Name(<<"court">>, "Riyadh", "court")>>),
           Line(<<Name(<<"deed number">>, "555", "number")>>),
           Line(<<Name(<<"note">>, "annex", "")>>)>>
MCDocs ==
    [Table |-> Table, Neighbours |-> Neighbours, Anybody |-> Anybody, Both |-> Both,
     Validity |-> Validity, Month |-> Month, Prose |-> Prose, Markers |-> <<Page(1)>>]
\* the label of the instrument left blank, before a party's date
MCParty == [Party |->
     <<Line(<<It(<<"expiry date", "wakala">>, <<>>, "own")>>),
       Line(<<Name(<<"agent">>, "Ali", "")>>), Line(<<Name(<<"nationality">>, "Saudi", "")>>),
       Line(<<It(<<"expiry date", "identity">>, <<Number("past", "hindi")>>, "party")>>),
       Line(<<Name(<<"court">>, "Riyadh", "court")>>)>>]

MCInside == {<<"55", "555">>}
MCHeadingPart == {<<"heirs data", "heirs data and deceased data">>,
                  <<"deceased data", "heirs data and deceased data">>}
\* a number inside another, the number of a page marker, and words of which the
\* page prints only the number
MCValues ==
    {<<Number("55", "ascii")>>, <<Word("1")>>, <<Word("no"), Number("555", "ascii")>>}
MCSlips == {"verbatim", "digits", "headless"}
MCRank == <<"expiry date", "wakala">> :> 3 @@ <<"the wakala expires on">> :> 3
          @@ <<"valid until">> :> 2 @@ <<"expiry date">> :> 1
MCDays == "past" :> -40 @@ "today" :> 0 @@ "soon" :> 30 @@ "month" :> MonthOnly
MCStates == "revoked" :> "cancelled"
MCStateLabels == {<<"status">>}
=============================================================================
