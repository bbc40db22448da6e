---------------------------- MODULE MCComparison ----------------------------
(* Two browsers and the pairs of documents that tell the paths apart.         *)
EXTENDS Comparison, TLC

T(w) == [w |-> w, num |-> FALSE]
N(w) == [w |-> w, num |-> TRUE]
Line(words) == [page |-> 0, words |-> words]
Page(n) == [page |-> n, words |-> <<T("Page"), N(ToString(n))>>]
Doc(text, pages, empty) == [text |-> text, page_count |-> pages, empty_pages |-> empty]

Pays(n) == Line(<<T("tenant"), T("pays"), N(n)>>)
Garden == Line(<<T("garden")>>)
Roof == Line(<<T("roof")>>)
Blank == Line(<<>>)

Short == Doc(<<Pays("5")>>, 0, {})
\* a page boundary, and a long tail
Paged == Doc(<<Page(1), Pays("7"), Page(2), Garden, Roof, Pays("5")>>, 2, {})
Long == Doc(<<Garden, Roof, Pays("5")>>, 0, {})
Other == Doc(<<Roof, Blank, Pays("7"), Garden>>, 1, {1})
Torn == Doc(<<Page(1), Garden, Page(2), Roof>>, 0, {})
Bound_ == Doc(<<Page(1), Garden, Page(2), Roof>>, 2, {})
Unread == Doc(<<Page(1), Page(2)>>, 2, {})
Empty == Doc(<<Blank>>, 1, {})

MCDocs ==
    [Short |-> Short, Paged |-> Paged, Long |-> Long, Other |-> Other, Torn |-> Torn,
     Bound |-> Bound_, Unread |-> Unread, Empty |-> Empty]
MCRequests ==
    [one |-> {<<"Short", "Paged">>, <<"Long", "Other">>, <<"Torn", "Bound">>,
              <<"Unread", "Short">>, <<"Empty", "Short">>},
     two |-> {<<"Long", "Long">>}]

Row(aspect, status, a, b) ==
    [aspect |-> aspect, status |-> status, quote_a |-> a, quote_b |-> b]
MCRows ==
    {Row("values", "same", <<T("pays"), N("5")>>, <<T("pays"), N("7")>>),
     Row("values", "different", Pays("5").words, Pays("7").words),
     Row("other", "only_b", <<>>, <<T("garden")>>),
     Row("other", "same", <<T("tenant")>>, <<T("tenant")>>)}
=============================================================================
