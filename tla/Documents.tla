----------------------------- MODULE Documents -----------------------------
(***************************************************************************)
(* How a document gets its contents: the readers that plugin.c loads       *)
(* (csv.c, html.c, xlsx.c), the Lua calls that write single cells (lua.c)  *)
(* and the dump of a sheet (util.c export), for one Lua program and one    *)
(* document.  Each call is one action; a reader is a loop over the file     *)
(* with the counters it keeps.                                             *)
(*                                                                         *)
(* A text is the sequence of the chunks it is put together from.  Hashing  *)
(* and the lists of pointers are in Workbook, recalc is in Recalc, column  *)
(* names are in Ranges.                                                    *)
(***************************************************************************)
EXTENDS Integers, FiniteSets, SequencesExt

CONSTANTS
  Files,       \* file name -> what the file holds
  html_table,  \* the names html.c makes up, "html_table%d" from 1 on
  strtod,      \* chunks that begin with a number -> that number
  Names,       \* sheet names the program uses
  Cells,       \* coordinates <<row, col>> the program uses
  Nums, Texts, \* numbers and texts the program sets
  MaxLoads,    \* bound: files loaded
  None         \* the null pointer

Kinds == {"html", "xlsx", "csv"}

VARIABLES
  plug_ins,  \* the registry of readers, newest first
  doc,       \* struct roman with its sheets and cells
  csv,       \* the statics line and col of csv.c
  status,    \* "up", or what ended the process
  loaded     \* the names of the files read so far (history)

vars == <<plug_ins, doc, csv, status, loaded>>

(* The state s after the turns 1 to n of a loop. *)
Loop(turn(_, _), s, n) ==
  LET after[i \in 0..n] == IF i = 0 THEN s ELSE turn(after[i-1], i)
  IN after[n]

(* The function f with the value e at x. *)
With(f, x, e) == [y \in DOMAIN f \cup {x} |-> IF y = x THEN e ELSE f[y]]

-----------------------------------------------------------------------------
(* Sheets and cells *)

Empty == [order |-> <<>>, cells |-> <<>>, max |-> <<>>, cur |-> None]

BlankEnt == [val |-> 0, label |-> None, formula |-> None, exp |-> None, flag |-> {}]

(* Seeded fault: the name is not searched for. *)
NewSheetAlways(d, n) ==
  [order |-> Append(d.order, n), cells |-> With(d.cells, n, <<>>),
   max |-> With(d.max, n, <<0, 0>>), cur |-> n]

(* cur_sh = new_sheet(): the sheet of that name when there is one. *)
NewSheet(d, n) ==
  IF n \in DOMAIN d.cells THEN [d EXCEPT !.cur = n]
  ELSE [order |-> Append(d.order, n), cells |-> With(d.cells, n, <<>>),
        max |-> With(d.max, n, <<0, 0>>), cur |-> n]

Ent(d, n, p) == IF p \in DOMAIN d.cells[n] THEN d.cells[n][p] ELSE BlankEnt

(* lookat, and what the caller makes of the cell. *)
Changed(d, n, p, ent) == [d EXCEPT !.cells[n] = With(@, p, ent)]
lookat(d, n, p) == Changed(d, n, p, Ent(d, n, p))

Flagged(e, flags) == [e EXCEPT !.flag = @ \cup flags]
Labelled(e, t) == Flagged([e EXCEPT !.label = t], {"RP_LABEL"})
Valued(e, v) == Flagged([e EXCEPT !.val = v], {"VAL"})

Larger(a, b) == IF a > b THEN a ELSE b

(* Seeded fault: the columns are left out of the extents. *)
StoredRowOnly(d, p, ent) ==
  [Changed(d, d.cur, p, ent) EXCEPT !.max[d.cur][1] = Larger(@, p[1])]

(* A reader's store: the cell on the current sheet, and the extents. *)
Stored(d, p, ent) ==
  [Changed(d, d.cur, p, ent) EXCEPT
     !.max[d.cur] = <<Larger(@[1], p[1]), Larger(@[2], p[2])>>]

-----------------------------------------------------------------------------
(* csv.c: libcsv calls cb1 for every field and cb2 after every row. *)

CsvSheet == "CSV DEFAULT"

cb1(s, text) ==
  LET p == <<s.line, s.col>>
  IN [doc |-> Stored(s.doc, p, Labelled(Ent(s.doc, s.doc.cur, p), text)),
      line |-> s.line, col |-> s.col + 1]

cb2(s) == [doc |-> s.doc, line |-> s.line + 1, col |-> 0]

(* Seeded fault: the counters are those the last file left. *)
CountersKept == csv
Counters == [line |-> 0, col |-> 0]

(* The callbacks for one row, and for all. *)
CsvRow(s, row) == cb2(Loop(LAMBDA a, j : cb1(a, row[j]), s, Len(row)))

csv_read(d, file) ==
  Loop(LAMBDA s, i : CsvRow(s, file.rows[i]),
       [doc |-> NewSheet(d, CsvSheet), line |-> Counters.line, col |-> Counters.col],
       Len(file.rows))

-----------------------------------------------------------------------------
(* html.c: the DOM is the sequence of its nodes in document order, which is
   the order traverse_dom_trees visits them in; up is a node's parent. *)

IsKid(dom, j, i, tag) == dom[j].up = i /\ dom[j].tag = tag

Captions(dom, i) == {j \in DOMAIN dom : IsKid(dom, j, i, "caption")}

(* A table one of whose captions has no child, and so no text: the reader
   takes the text without looking and reads through a null pointer. *)
CaptionWithoutText(dom) ==
  \E i \in DOMAIN dom :
    dom[i].tag = "table" /\ \E j \in Captions(dom, i) : dom[j].text = None

(* get_cell_content: the text below a node. *)
Content(dom, i) ==
  LET below[j \in DOMAIN dom] ==
        dom[j].up = i \/ (dom[j].up > i /\ below[dom[j].up])
      texts == SelectSeq([j \in DOMAIN dom |-> j],
                         LAMBDA j : below[j] /\ dom[j].tag = "text")
  IN [k \in DOMAIN texts |-> dom[texts[k]].text]

HasChildren(dom, i) == \E j \in DOMAIN dom : dom[j].up = i

IsNumber(text) == text /= <<>> /\ Head(text) \in DOMAIN strtod

(* strtod sets the value, to 0 when there is no number, in both cases. *)
Typed(e, text) ==
  IF IsNumber(text) THEN Valued(e, strtod[Head(text)])
  ELSE Labelled([e EXCEPT !.val = 0], text)

(* Seeded fault: an empty td does not take its column. *)
html_read_tdSkipping(dom, s, td) ==
  IF ~HasChildren(dom, td) THEN s
  ELSE [doc |-> Stored(s.doc, s.at, Typed(Ent(s.doc, s.doc.cur, s.at), Content(dom, td))),
        at |-> <<s.at[1], s.at[2] + 1>>]

html_read_td(dom, s, td) ==
  [doc |-> IF HasChildren(dom, td)
           THEN Stored(s.doc, s.at, Typed(Ent(s.doc, s.doc.cur, s.at), Content(dom, td)))
           ELSE s.doc,
   at |-> <<s.at[1], s.at[2] + 1>>]

(* The loops over the children of a tr and of a table look for tags. *)
InRow(dom, s, tr, j) == IF IsKid(dom, j, tr, "td") THEN html_read_td(dom, s, j) ELSE s

html_read_row(dom, s, tr) ==
  LET row == Loop(LAMBDA a, j : InRow(dom, a, tr, j), s, Len(dom))
  IN [doc |-> row.doc, at |-> <<s.at[1] + 1, 0>>]

InTable(dom, s, table, j) ==
  IF IsKid(dom, j, table, "tr") THEN html_read_row(dom, s, j) ELSE s

html_read_rows(d, dom, table) ==
  Loop(LAMBDA s, j : InTable(dom, s, table, j), [doc |-> d, at |-> <<0, 0>>], Len(dom)).doc

(* tbl_nr is a local variable: every list of siblings counts its own tables
   without a caption. *)
ReadTable(dom, s, i) ==
  LET captions == Captions(dom, i)
      list == dom[i].up
  IN IF captions = {}
     THEN [doc |-> html_read_rows(NewSheet(s.doc, html_table[s.tbl_nr[list]]), dom, i),
           tbl_nr |-> [s.tbl_nr EXCEPT ![list] = @ + 1]]
     ELSE [s EXCEPT !.doc =
             html_read_rows(NewSheet(@, dom[Max(captions)].text), dom, i)]

Traverse(dom, s, i) == IF dom[i].tag = "table" THEN ReadTable(dom, s, i) ELSE s

traverse_dom_trees(d, dom) ==
  Loop(LAMBDA s, i : Traverse(dom, s, i),
       [doc |-> d, tbl_nr |-> [i \in 0..Len(dom) |-> 1]], Len(dom)).doc

-----------------------------------------------------------------------------
(* xlsx.c.  A state of the reader is [doc, rc, lost]: rc is what open_xlsx
   returns, lost that a formula named a sheet that is not there (lookat on a
   null pointer). *)

(* The lexer looks a referenced cell up when it reads the reference: on the
   sheet named, or on the current sheet. *)
Bound(d, ref) == [sheet |-> IF ref.sheet = None THEN d.cur ELSE ref.sheet, at |-> ref.at]

Reference(s, ref) ==
  LET b == Bound(s.doc, ref)
  IN IF b.sheet \in DOMAIN s.doc.cells THEN [s EXCEPT !.doc = lookat(@, b.sheet, b.at)]
     ELSE [s EXCEPT !.lost = TRUE]

(* getAST on a formula whose references are refs. *)
getAST(s, refs) == Loop(LAMBDA a, k : Reference(a, refs[k]), s, Len(refs))

(* A formula that is a number leaves no expression, and neither does a text
   the parser refuses. *)
Formula(s, c) ==
  LET made == [s EXCEPT !.doc = Stored(@, c.at, Ent(@, @.cur, c.at))]
      read == getAST(made, c.f.refs)
      d == read.doc
      old == Ent(d, d.cur, c.at)
      e == [val |-> IF c.f.kind = "number" THEN c.f.num ELSE old.val,
            label |-> old.label,
            formula |-> c.f.text,
            exp |-> IF c.f.kind = "expression"
                    THEN [k \in DOMAIN c.f.refs |-> Bound(d, c.f.refs[k])] ELSE None,
            flag |-> old.flag \cup {"VAL", "RP_FORMULA"}]
  IN [read EXCEPT !.doc = Changed(d, d.cur, c.at, e)]

(* A date is recognised only in a cell with a type other than n. *)
IsDate(c) == c.fmt = "date" /\ c.t \notin {"", "n"}
Date(serial) == (serial - 25569) * 86400 - 1

(* What get_sheet_data makes of a cell.  An inline string is in the child of
   the node it looks at, and a time has nowhere to go: both are dropped, as
   is an empty shared string. *)
Holds(c) ==
  IF c.t \in {"s", "inlineStr"}
  THEN IF c.t = "s" /\ c.text /= <<>> THEN "label" ELSE "nothing"
  ELSE IF c.child = "v"
       THEN IF IsDate(c) THEN "date" ELSE IF c.fmt = "time" THEN "nothing" ELSE "number"
       ELSE IF c.child = "f" THEN "formula" ELSE "nothing"

ReadCell(s, c) ==
  LET e == Ent(s.doc, s.doc.cur, c.at)
  IN CASE Holds(c) = "label" -> [s EXCEPT !.doc = Stored(@, c.at, Labelled(e, c.text))]
       [] Holds(c) = "number" -> [s EXCEPT !.doc = Stored(@, c.at, Valued(e, c.num))]
       [] Holds(c) = "date" -> [s EXCEPT !.doc = Stored(@, c.at, Valued(e, Date(c.num)))]
       [] Holds(c) = "formula" -> Formula(s, c)
       [] Holds(c) = "nothing" -> s

get_sheet_data(s, cells) == Loop(LAMBDA a, k : ReadCell(a, cells[k]), s, Len(cells))

(* Seeded fault: the current sheet is not moved on to the sheet read. *)
ReadSheetUnselected(s, sh) ==
  IF s.rc /= 0 THEN s
  ELSE IF sh.part = "missing" THEN [s EXCEPT !.rc = -1] ELSE get_sheet_data(s, sh.cells)

(* One turn of the second loop: it ends at a part that is not there. *)
ReadSheet(s, sh) ==
  IF s.rc /= 0 THEN s
  ELSE LET here == [s EXCEPT !.doc.cur = sh.name]
       IN IF sh.part = "missing" THEN [here EXCEPT !.rc = -1]
          ELSE get_sheet_data(here, sh.cells)

(* Seeded fault: no first loop, a sheet is made when it is read. *)
CreatedOneByOne(d, sheets) == NewSheet(d, sheets[1].name)

(* The first loop: all sheets are there before the first formula is read. *)
Created(d, sheets) == Loop(LAMBDA a, k : NewSheet(a, sheets[k].name), d, Len(sheets))

open_xlsx(d, file) ==
  IF ~file.styles THEN [doc |-> d, rc |-> -1, lost |-> FALSE]
  ELSE Loop(LAMBDA s, k : ReadSheet(s, file.sheets[k]),
            [doc |-> Created(d, file.sheets), rc |-> 0, lost |-> FALSE], Len(file.sheets))

-----------------------------------------------------------------------------
(* The files.  An element of a page comes after the one that holds it.  The
   sheets of a workbook have names of their own, the cells of a sheet have
   addresses of their own, and a formula refers to cells of sheets that the
   workbook lists. *)

IsSeq(q) == q \in Seq(ToSet(q))

IsTable(rows) == IsSeq(rows) /\ \A i \in DOMAIN rows : IsSeq(rows[i])

IsPage(dom) == IsSeq(dom) /\ \A i \in DOMAIN dom : dom[i].up \in 0..i-1

RefersTo(c, names) ==
  /\ IsSeq(c.f.refs)
  /\ \A k \in DOMAIN c.f.refs : c.f.refs[k].sheet \in names \cup {None}

IsBook(sheets) ==
  /\ IsSeq(sheets)
  /\ \A j, k \in DOMAIN sheets : sheets[j].name = sheets[k].name => j = k
  /\ \A k \in DOMAIN sheets :
       /\ sheets[k].part \in {"there", "missing"}
       /\ IsSeq(sheets[k].cells)
       /\ \A i, j \in DOMAIN sheets[k].cells :
            sheets[k].cells[i].at = sheets[k].cells[j].at => i = j
       /\ \A c \in ToSet(sheets[k].cells) :
            /\ c.at \in Nat \X Nat
            /\ Holds(c) = "formula" => RefersTo(c, {sheets[j].name : j \in DOMAIN sheets})

ASSUME DocumentsAssumption ==
  \A f \in DOMAIN Files :
    /\ Files[f].kind \in Kinds
    /\ Files[f].there =>
         CASE Files[f].kind = "csv" -> IsTable(Files[f].rows)
           [] Files[f].kind = "html" -> IsPage(Files[f].dom)
           [] Files[f].kind = "xlsx" -> IsBook(Files[f].sheets)

-----------------------------------------------------------------------------
(* plugin.c and lua.c *)

Init ==
  /\ plug_ins = <<>>
  /\ doc = Empty
  /\ csv = [line |-> 0, col |-> 0]
  /\ status = "up"
  /\ loaded = <<>>

(* A reader whose library dlopen does not find is not there. *)
load_plugin(registry, kind, found) == IF kind \in found THEN <<kind>> \o registry ELSE registry

luaopen_sc ==
  /\ plug_ins = <<>>
  /\ \E found \in SUBSET Kinds :
       plug_ins' = load_plugin(load_plugin(load_plugin(<<>>, "html", found), "xlsx", found),
                               "csv", found)
  /\ UNCHANGED <<doc, csv, status, loaded>>

(* The reader is called: what it does to a file that cannot be opened is its
   own matter, and csv_read goes on with a null stream. *)
CallCsv(file) ==
  IF file.there
  THEN LET s == csv_read(doc, file)
       IN /\ doc' = s.doc
          /\ csv' = [line |-> s.line, col |-> s.col]
          /\ status' = status
  ELSE status' = "no file" /\ UNCHANGED <<doc, csv>>

CallHtml(file) ==
  IF file.there /\ CaptionWithoutText(file.dom)
  THEN status' = "no caption text" /\ UNCHANGED <<doc, csv>>
  ELSE /\ doc' = IF file.there THEN traverse_dom_trees(doc, file.dom) ELSE doc
       /\ UNCHANGED <<csv, status>>

CallXlsx(file) ==
  LET s == IF file.there THEN open_xlsx(doc, file)
           ELSE [doc |-> doc, rc |-> -1, lost |-> FALSE]
  IN /\ doc' = s.doc
     /\ status' = IF s.lost THEN "no such sheet" ELSE status
     /\ csv' = csv

(* io_loadcsv, io_loadhtml, io_loadxl through read_plugin: nothing happens
   without the reader, and the program does not learn what became of it. *)
Load(f) ==
  /\ status = "up"
  /\ Len(loaded) < MaxLoads
  /\ Contains(plug_ins, Files[f].kind)
  /\ CASE Files[f].kind = "csv" -> CallCsv(Files[f])
       [] Files[f].kind = "html" -> CallHtml(Files[f])
       [] Files[f].kind = "xlsx" -> CallXlsx(Files[f])
  /\ loaded' = Append(loaded, f)
  /\ plug_ins' = plug_ins

io_newsheet(n) ==
  /\ status = "up"
  /\ doc' = NewSheet(doc, n)
  /\ UNCHANGED <<plug_ins, csv, status, loaded>>

io_sheet(n) ==
  /\ status = "up"
  /\ doc' = [doc EXCEPT !.cur = IF n \in DOMAIN doc.cells THEN n ELSE None]
  /\ UNCHANGED <<plug_ins, csv, status, loaded>>

(* A call that reaches a cell through cur_sh: without a current sheet it
   reads through a null pointer. *)
OnCurrent(p, ent(_)) ==
  /\ status = "up"
  /\ IF doc.cur = None THEN status' = "no current sheet" /\ doc' = doc
     ELSE status' = status /\ doc' = Changed(doc, doc.cur, p, ent(Ent(doc, doc.cur, p)))
  /\ UNCHANGED <<plug_ins, csv, loaded>>

l_setnum(p, v) == OnCurrent(p, LAMBDA e : Valued(e, v))
l_setstr(p, t) == OnCurrent(p, LAMBDA e : Labelled(e, t))
l_getstr(p) == OnCurrent(p, LAMBDA e : e)

(* html_write leaves its loop over the sheets in cur_sh. *)
html_write ==
  /\ status = "up"
  /\ Contains(plug_ins, "html")
  /\ doc' = [doc EXCEPT !.cur = None]
  /\ UNCHANGED <<plug_ins, csv, status, loaded>>

Next ==
  \/ luaopen_sc
  \/ \E f \in DOMAIN Files : Load(f)
  \/ \E n \in Names : io_newsheet(n) \/ io_sheet(n)
  \/ \E p \in Cells :
       \/ \E v \in Nums : l_setnum(p, v)
       \/ \E t \in Texts : l_setstr(p, t)
       \/ l_getstr(p)
  \/ html_write

Spec == Init /\ [][Next]_vars

-----------------------------------------------------------------------------
(* What the program and its user see *)

(* What export prints in a cell, in order. *)
Printed(e) ==
  (IF "RP_FORMULA" \in e.flag THEN <<[val |-> e.val]>> ELSE <<>>)
    \o (IF "RP_LABEL" \in e.flag THEN <<[label |-> e.label]>> ELSE <<>>)
    \o (IF "VAL" \in e.flag THEN <<[val |-> e.val]>> ELSE <<>>)

(* export: every cell up to the extents. *)
export(d, n) ==
  [p \in (0..d.max[n][1]) \X (0..d.max[n][2]) |-> Printed(Ent(d, n, p))]

Shown(d) ==
  UNION {UNION {{[sheet |-> n, at |-> p, is |-> x] : x \in ToSet(export(d, n)[p])} :
                  p \in DOMAIN export(d, n)} : n \in DOMAIN d.cells}

-----------------------------------------------------------------------------
(* What a file holds, told from the file alone. *)

Item(sheet, at, x) == [sheet |-> sheet, at |-> at, is |-> x]

CsvHolds(file) ==
  UNION {{Item(CsvSheet, <<i - 1, j - 1>>, [label |-> file.rows[i][j]]) :
            j \in DOMAIN file.rows[i]} : i \in DOMAIN file.rows}

(* The number of siblings before i that are the same element. *)
Before(dom, i) ==
  Cardinality({j \in DOMAIN dom : IsKid(dom, j, dom[i].up, dom[i].tag)} \cap (1..i-1))

(* The tables without a caption in the list of siblings below i. *)
Untitled(dom, i) ==
  {j \in DOMAIN dom : IsKid(dom, j, i, "table") /\ Captions(dom, j) = {}}

Title(dom, i) ==
  IF Captions(dom, i) /= {} THEN dom[Max(Captions(dom, i))].text
  ELSE html_table[Cardinality(Untitled(dom, dom[i].up) \cap (1..i))]

(* The td that lie in a row of a table, and where each belongs. *)
Tds(dom) ==
  {i \in DOMAIN dom :
     /\ HasChildren(dom, i)
     /\ \E tr, table \in DOMAIN dom :
          IsKid(dom, i, tr, "td") /\ IsKid(dom, tr, table, "tr") /\ dom[table].tag = "table"}

TableOf(dom, i) == dom[dom[i].up].up

Place(dom, i) == <<Title(dom, TableOf(dom, i)), <<Before(dom, dom[i].up), Before(dom, i)>>>>

(* A table in a td is read after the table that td belongs to. *)
HtmlHolds(dom) ==
  LET last == {i \in Tds(dom) : \A j \in Tds(dom) :
                 Place(dom, j) = Place(dom, i) => TableOf(dom, j) <= TableOf(dom, i)}
      text(i) == Content(dom, i)
  IN {Item(Place(dom, i)[1], Place(dom, i)[2],
           IF IsNumber(text(i)) THEN [val |-> strtod[Head(text(i))]] ELSE [label |-> text(i)]) :
        i \in last}

(* The sheets of a workbook up to the first whose part is missing. *)
PartsThere(file) ==
  {k \in DOMAIN file.sheets : file.styles /\ \A j \in 1..k : file.sheets[j].part = "there"}

XlsxItems(n, c) ==
  CASE Holds(c) = "label" -> {Item(n, c.at, [label |-> c.text])}
    [] Holds(c) = "number" -> {Item(n, c.at, [val |-> c.num])}
    [] Holds(c) = "date" -> {Item(n, c.at, [val |-> Date(c.num)])}
    [] Holds(c) = "formula" /\ c.f.kind = "number" -> {Item(n, c.at, [val |-> c.f.num])}
    [] OTHER -> {}

XlsxHolds(file) ==
  UNION {UNION {XlsxItems(file.sheets[k].name, c) : c \in ToSet(file.sheets[k].cells)} :
           k \in PartsThere(file)}

Held == [f \in DOMAIN Files |->
  IF ~Files[f].there THEN {}
  ELSE CASE Files[f].kind = "csv" -> CsvHolds(Files[f])
         [] Files[f].kind = "html" -> HtmlHolds(Files[f].dom)
         [] Files[f].kind = "xlsx" -> XlsxHolds(Files[f])]

(* The formulas of a workbook, with their places. *)
XlsxFormulas(file) ==
  UNION {{[sheet |-> file.sheets[k].name, at |-> c.at, f |-> c.f] :
            c \in {x \in ToSet(file.sheets[k].cells) : Holds(x) = "formula"}} :
           k \in PartsThere(file)}

Formulas == [f \in DOMAIN Files |->
  IF Files[f].there /\ Files[f].kind = "xlsx" THEN XlsxFormulas(Files[f]) ELSE {}]

Written == [f \in DOMAIN Files |-> {<<x.sheet, x.at>> : x \in Held[f] \cup Formulas[f]}]

Target(x, ref) == [sheet |-> IF ref.sheet = None THEN x.sheet ELSE ref.sheet, at |-> ref.at]

Referenced == [f \in DOMAIN Files |->
  UNION {{<<Target(x, r).sheet, r.at>> : r \in ToSet(x.f.refs)} : x \in Formulas[f]}]

OneTablePerSheet == [f \in DOMAIN Files |->
  Files[f].kind = "html" /\ Files[f].there =>
    \A i, j \in Tds(Files[f].dom) : Place(Files[f].dom, i) = Place(Files[f].dom, j) => i = j]

(* A step that loads a file and leaves the process alive. *)
Loads == loaded' /= loaded /\ status' = "up"

Has(d, n, p) == n \in DOMAIN d.cells /\ p \in DOMAIN d.cells[n]

-----------------------------------------------------------------------------
(* Properties *)

(* The document is well formed: a sheet is on the list once and has its cells
   and extents, and every cell is an entry (new_sheet, lookat). *)
TypeOK ==
  /\ ToSet(plug_ins) \subseteq Kinds
  /\ csv \in [line : Nat, col : Nat]
  /\ status \in {"up", "no file", "no caption text", "no such sheet", "no current sheet"}
  /\ loaded \in Seq(DOMAIN Files)
  /\ DOMAIN doc.cells = ToSet(doc.order)
  /\ DOMAIN doc.max = ToSet(doc.order)
  /\ Cardinality(ToSet(doc.order)) = Len(doc.order)
  /\ doc.cur \in ToSet(doc.order) \cup {None}
  /\ \A n \in DOMAIN doc.cells : \A p \in DOMAIN doc.cells[n] :
       doc.cells[n][p].flag \subseteq {"VAL", "RP_LABEL", "RP_FORMULA"}

(* Whatever was loaded in whatever order, also when a part of a workbook was
   missing: the cells a formula refers to are there (recalc reads through the
   pointers without looking), a reference without a sheet is to the sheet the
   formula is on, and no formula of a workbook named a sheet in vain. *)
FormulasBound ==
  /\ status /= "no such sheet"
  /\ \A n \in DOMAIN doc.cells : \A p \in DOMAIN doc.cells[n] :
       LET e == doc.cells[n][p]
       IN e.exp /= None =>
            /\ \A b \in ToSet(e.exp) : Has(doc, b.sheet, b.at)
            /\ \E f \in ToSet(loaded) : \E x \in Formulas[f] :
                 /\ x.sheet = n /\ x.at = p /\ x.f.text = e.formula
                 /\ e.exp = [k \in DOMAIN x.f.refs |-> Target(x, x.f.refs[k])]

(* What a load brought is what the dump shows: every label and number of the
   file stands at its row and column of its sheet, also where the document
   held something else before, was loaded from the same file already, or the
   read ended half way at a missing part (then: of the parts before it). *)
LoadedIsShown ==
  [][Loads => Held[Last(loaded')] \subseteq Shown(doc')]_vars

(* A load, complete or not, touches nothing but its own cells: all others keep
   contents and sheet, no other cell comes to be except blank ones that a
   formula refers to, and nothing the dump printed drops out of the extents. *)
LoadKeepsRest ==
  [][Loads =>
       LET f == Last(loaded')
       IN /\ IsPrefix(doc.order, doc'.order)
          /\ \A n \in DOMAIN doc'.cells : \A p \in DOMAIN doc'.cells[n] :
               \/ <<n, p>> \in Written[f]
               \/ Has(doc, n, p) /\ doc'.cells[n][p] = doc.cells[n][p]
               \/ ~Has(doc, n, p) /\ <<n, p>> \in Referenced[f] /\ doc'.cells[n][p] = BlankEnt
          /\ \A n \in DOMAIN doc.cells :
               /\ DOMAIN doc.cells[n] \subseteq DOMAIN doc'.cells[n]
               /\ \A k \in 1..2 : doc.max[n][k] <= doc'.max[n][k]]_vars

(* A sheet that a load creates shows the file and nothing else, apart from the
   formulas, whose values recalc computes; where two tables of an HTML file
   meet on one sheet (OneTablePerSheet) the cells of both are shown. *)
FreshIsExact ==
  [][Loads /\ OneTablePerSheet[Last(loaded')] =>
       \A x \in Shown(doc') :
         \/ x.sheet \in DOMAIN doc.cells
         \/ x \in Held[Last(loaded')]
         \/ \E y \in Formulas[Last(loaded')] : y.sheet = x.sheet /\ y.at = x.at]_vars
=============================================================================
