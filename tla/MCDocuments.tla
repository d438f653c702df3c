---------------------------- MODULE MCDocuments ----------------------------
(* Documents with files of every kind: two CSV files, three HTML pages, three
   workbooks, and three files that are not there. *)
EXTENDS Documents, TLC

Shared == {<<1, 0>>}
OneText == {<<"t">>}

MCstrtod == "7" :> 7 @@ "8" :> 8

MChtml_table == <<"html_table1", "html_table2", "html_table3">>

Node(tag, up, text) == [tag |-> tag, up |-> up, text |-> text]

(* Two tables side by side, an empty td and a text in two pieces; a td in
   whose text a table with a caption lies. *)
Siblings == <<Node("body", 0, ""),
  Node("table", 1, ""), Node("tr", 2, ""),
    Node("td", 3, ""), Node("text", 4, "7"),
    Node("td", 3, ""),
    Node("td", 3, ""), Node("text", 7, "x"), Node("b", 7, ""), Node("text", 9, "y"),
  Node("table", 1, ""), Node("tr", 11, ""), Node("tr", 11, ""), Node("td", 13, ""),
    Node("table", 14, ""), Node("caption", 15, "Roman"), Node("tr", 15, ""),
      Node("td", 17, ""), Node("text", 18, "8")>>

(* A table in a td of a table, both without a caption: they share a name,
   and the td after the inner table is read before it.  The table that comes
   last has two captions. *)
Nested == <<Node("table", 0, ""), Node("tr", 1, ""), Node("td", 2, ""),
    Node("table", 3, ""), Node("tr", 4, ""), Node("td", 5, ""), Node("text", 6, "z"),
                                             Node("td", 5, ""), Node("text", 8, "y"),
  Node("td", 2, ""), Node("text", 10, "8"),
  Node("table", 0, ""), Node("caption", 12, "Data"), Node("caption", 12, "Roman"),
    Node("tr", 12, ""), Node("td", 15, ""), Node("text", 16, "7")>>

(* A caption that is empty. *)
Untold == <<Node("table", 0, ""), Node("caption", 1, None), Node("tr", 1, ""),
    Node("td", 3, ""), Node("text", 4, "7")>>

Cell(at, t, child, fmt) ==
  [at |-> at, t |-> t, child |-> child, fmt |-> fmt, text |-> <<>>, num |-> 0, f |-> None]
Number(at, v) == [Cell(at, "", "v", "") EXCEPT !.num = v]
Formed(at, kind, num, refs, text) ==
  [Cell(at, "", "f", "") EXCEPT !.f = [kind |-> kind, num |-> num, refs |-> refs, text |-> text]]
Ref(sheet, at) == [sheet |-> sheet, at |-> at]

(* Formulas that refer back and forth between two sheets. *)
Template == <<
  [name |-> "Roman", part |-> "there", cells |-> <<
     Formed(<<1, 0>>, "expression", 0, <<Ref("Data", <<2, 1>>), Ref(None, <<1, 1>>)>>, "f1"),
     [Cell(<<1, 1>>, "s", "v", "") EXCEPT !.text = <<"p", "q">>],
     Cell(<<1, 2>>, "s", "v", "")>>],
  [name |-> "Data", part |-> "there", cells |-> <<
     [Cell(<<1, 0>>, "str", "v", "date") EXCEPT !.num = 25570],
     [Cell(<<1, 1>>, "", "v", "date") EXCEPT !.num = 25570],
     Cell(<<1, 2>>, "", "v", "time"), Cell(<<2, 0>>, "inlineStr", "is", ""),
     Formed(<<2, 1>>, "number", 3, <<>>, "f2"),
     Formed(<<2, 2>>, "expression", 0, <<Ref(None, <<2, 1>>), Ref("Roman", <<1, 0>>)>>, "f3")>>]>>

(* The part of the second sheet is missing; the first refers to it. *)
Torn == <<
  [name |-> "Roman", part |-> "there", cells |-> <<
     Number(<<1, 0>>, 8), Formed(<<1, 1>>, "expression", 0, <<Ref("Gone", <<1, 0>>)>>, "f4"),
     Formed(<<2, 0>>, "unparsable", 0, <<Ref(None, <<3, 0>>)>>, "f5"), Cell(<<3, 1>>, "", "", "")>>],
  [name |-> "Gone", part |-> "missing", cells |-> <<Number(<<1, 0>>, 7)>>],
  [name |-> "Data", part |-> "there", cells |-> <<Number(<<1, 0>>, 7)>>]>>

Csv(rows) == [kind |-> "csv", there |-> TRUE, rows |-> rows]
Html(dom) == [kind |-> "html", there |-> TRUE, dom |-> dom]
Xlsx(styles, sheets) == [kind |-> "xlsx", there |-> TRUE, styles |-> styles, sheets |-> sheets]

MCFiles ==
  "a.csv" :> Csv(<<<<<<"a">>, <<"b">>>>, <<<<"c">>>>>>)
  @@ "b.csv" :> Csv(<<<<<<>>, <<"d">>>>>>)
  @@ "a.html" :> Html(Siblings) @@ "b.html" :> Html(Nested)
  @@ "c.html" :> Html(Untold)
  @@ "a.xlsx" :> Xlsx(TRUE, Template) @@ "b.xlsx" :> Xlsx(TRUE, Torn)
  @@ "c.xlsx" :> Xlsx(FALSE, Template)
  @@ "no.csv" :> [kind |-> "csv", there |-> FALSE]
  @@ "no.html" :> [kind |-> "html", there |-> FALSE]
  @@ "no.xlsx" :> [kind |-> "xlsx", there |-> FALSE]
=============================================================================
