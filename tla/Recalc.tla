------------------------------- MODULE Recalc -------------------------------
(***************************************************************************)
(* calc.c under the calls of a Lua program (lua.c), which makes and selects *)
(* sheets, sets numbers, loads formulas from templates and calls recalc.   *)
(* The calls come from one thread, so each is one action (RecalcScan takes *)
(* the scan of the first recalc cell by cell).                             *)
(*                                                                         *)
(* A cell is named by its sheet and coordinates: Workbook shows that the   *)
(* pointer a formula or the cache holds is the cell a lookup of its        *)
(* coordinates finds.  Of the expressions, the ones that differ in what    *)
(* they read are kept: a number, a reference bound to its cell when the    *)
(* formula was parsed (plus one), and a range function, whose text is      *)
(* resolved again at every evaluation.                                     *)
(***************************************************************************)
EXTENDS Integers, FiniteSets, SequencesExt

CONSTANTS
  Sheets,      \* the sheets in the order the program makes them, a sequence
  Formulas,    \* <<address, text>>: the formulas a template may hold
  Inputs,      \* coordinates the program sets numbers at
  Modulus,     \* numbers are counted modulo this
  MaxFormulas, \* bound: formula cells
  MaxQuiet,    \* bound on quiet
  NULL

Numbers == 0..Modulus-1

(* A cell is named by its sheet, row and column.  A text is a number, a
   reference, whose sheet may be left out, a function of a range of rows in
   one column, which names no sheet, or one that the parser refuses after the
   lexer has read a reference in it, as that of a range on a named sheet. *)
Addresses == ToSet(Sheets) \X Nat \X Nat
Texts ==
  [type : {"number"}, val : Numbers]
  \cup [type : {"ref", "refused"}, sheet : ToSet(Sheets) \cup {NULL}, row : Nat, col : Nat]
  \cup [type : {"f"}, col : Nat, row1 : Nat, row2 : Nat]

ASSUME RecalcAssumption ==
  /\ Sheets \in Seq(ToSet(Sheets)) /\ Sheets /= <<>> /\ IsInjective(Sheets)
  /\ NULL \notin ToSet(Sheets)
  /\ \A f \in Formulas : f[1] \in Addresses /\ f[2] \in Texts
  /\ Inputs \subseteq Nat \X Nat
  /\ Modulus \in Nat \ {0} /\ MaxQuiet \in Nat

VARIABLES
  cells,    \* address -> struct Ent
  nsheets,  \* the sheets made so far, the first of Sheets
  cur_sh,
  cache,    \* p->cache[0 .. cache_nr-1]
  crashed   \* eval has read through a null pointer

(* What only the properties read of the past. *)
VARIABLES
  quiet,    \* recalcs since the program last changed a cell, up to MaxQuiet
  chosen,   \* what made a sheet current since the last recalc: Select or another
  late      \* a formula has been loaded after the cache was built

doc == <<cells, nsheets, cur_sh, cache, crashed>>
vars == <<doc, quiet, chosen, late>>

Made == {Sheets[i] : i \in 1..nsheets}
first_sh == IF nsheets = 0 THEN NULL ELSE Head(Sheets)

-----------------------------------------------------------------------------
BlankEnt == [val |-> 0, flag |-> {}, exp |-> NULL]

(* The cells do_sum walks: one column of the current sheet (the row is not
   reset: the columns after the first are never walked). *)
RangeCells(e, cur) == {<<cur, r, e.col>> : r \in e.row1..e.row2}

(* Seeded fault: the cells the range creates are marked as holding a value. *)
TouchedMarking(cs, area) ==
  [a \in DOMAIN cs \cup area |->
     IF a \in DOMAIN cs THEN cs[a] ELSE [BlankEnt EXCEPT !.flag = {"VAL"}]]

(* lookat on every cell of the range: one that is not there is made, blank. *)
Touched(cs, area) ==
  [a \in DOMAIN cs \cup area |-> IF a \in DOMAIN cs THEN cs[a] ELSE BlankEnt]

lookat(cs, a) == Touched(cs, {a})

Total(cs, area) ==
  LET counted == {a \in area \cap DOMAIN cs : "VAL" \in cs[a].flag}
  IN SumFunctionOnSet([a \in counted |-> cs[a].val], counted)

(* val = eval(p, exp, cell), cur being p->cur_sh. *)
Evaluated(cs, cur, a) ==
  LET e == cs[a].exp
      area == RangeCells(e, cur)
  IN IF e.type = "eENT"
     THEN [cs EXCEPT ![a].val = (cs[e.at].val + 1) % Modulus]
     ELSE [Touched(cs, area) EXCEPT ![a].val = Total(cs, area) % Modulus]

-----------------------------------------------------------------------------
(* recalc *)

Position(sh) == CHOOSE i \in DOMAIN Sheets : Sheets[i] = sh

(* The extents sh->row and sh->col: the largest coordinates looked up. *)
LastRow(cs, sh) == Max({0} \cup {a[2] : a \in {b \in DOMAIN cs : b[1] = sh}})
LastCol(cs, sh) == Max({0} \cup {a[3] : a \in {b \in DOMAIN cs : b[1] = sh}})

(* The cells the scan meets. *)
Scanned(cs) ==
  {a \in DOMAIN cs : a[2] <= LastRow(cs, a[1]) /\ a[3] <= LastCol(cs, a[1])}

(* Sheet by sheet, column by column, row by row. *)
ScanBefore(a, b) ==
  \/ Position(a[1]) < Position(b[1])
  \/ a[1] = b[1] /\ (a[3] < b[3] \/ (a[3] = b[3] /\ a[2] < b[2]))

Evaluable(cs) == {a \in DOMAIN cs : "RP_FORMULA" \in cs[a].flag /\ cs[a].exp /= NULL}

(* The formulas in the order the scan evaluates and caches them: the i-th has
   i-1 before it.  Cells that evaluation creates are blank, so it does not
   matter that the scan may still meet them. *)
Scan(cs) ==
  LET found == Scanned(cs) \cap Evaluable(cs)
      Place(a) == Cardinality({b \in found : ScanBefore(b, a)}) + 1
  IN [i \in 1..Cardinality(found) |-> CHOOSE a \in found : Place(a) = i]

(* The cells after the formulas of `order` have been evaluated one after the
   other, each with its sheet in cur as the current one. *)
EvaluatedInTurn(cs, order, cur) ==
  LET after[n \in 0..Len(order)] ==
        IF n = 0 THEN cs ELSE Evaluated(after[n-1], cur[order[n]], order[n])
  IN after[Len(order)]

(* First recalc: each formula is evaluated with its own sheet current. *)
EvaluatedByScan(cs) == EvaluatedInTurn(cs, Scan(cs), [a \in DOMAIN cs |-> a[1]])

(* Seeded fault: every formula reads the values of before the pass. *)
EvaluatedByCacheAtOnce(cs, cur) ==
  [a \in DOMAIN cs |-> IF a \in ToSet(cache) THEN Evaluated(cs, cur, a)[a] ELSE cs[a]]

(* Later recalcs: in the order of the cache, whatever sheet is current. *)
EvaluatedByCache(cs, cur) == EvaluatedInTurn(cs, cache, [a \in DOMAIN cs |-> cur])

(* The first recalc that finds a formula, and those before it.  From the 513th
   formula on realloc shrinks the cache to a single pointer: MaxFormulas stays
   below. *)
RecalcFromScan ==
  /\ cache = <<>>
  /\ cells' = EvaluatedByScan(cells)
  /\ cache' = Scan(cells)

RecalcFromCache ==
  /\ cache /= <<>>
  /\ \A a \in ToSet(cache) : cells[a].exp /= NULL
  /\ cells' = EvaluatedByCache(cells, cur_sh)
  /\ UNCHANGED cache

(* Seeded fault: the current sheet stays the one it was. *)
cur_shKept == cur_sh

(* p->cur_sh after recalc *)
cur_shAfter == first_sh

(* The end of both. *)
RecalcReturns ==
  /\ cur_sh' = cur_shAfter
  /\ quiet' = IF quiet < MaxQuiet THEN quiet + 1 ELSE quiet
  /\ chosen' = "none"
  /\ UNCHANGED <<nsheets, crashed, late>>

Recalc == (RecalcFromScan \/ RecalcFromCache) /\ RecalcReturns

(* A cached cell whose formula has become a number or is no longer accepted has
   no expression: eval reads through the null pointer. *)
RecalcCrashes ==
  /\ \E a \in ToSet(cache) : cells[a].exp = NULL
  /\ crashed' = TRUE
  /\ UNCHANGED <<cells, nsheets, cur_sh, cache, quiet, chosen, late>>

-----------------------------------------------------------------------------
(* The program's other calls *)

(* io_newsheet, which makes the sheet unless it is there, and its current *)
NewSheet(sh) ==
  /\ \/ sh \in Made /\ UNCHANGED nsheets
     \/ sh \notin Made /\ sh = Sheets[nsheets + 1] /\ nsheets' = nsheets + 1
  /\ cur_sh' = sh
  /\ chosen' = "other"
  /\ UNCHANGED <<cells, cache, crashed, quiet, late>>

(* io_sheet, with the name of a sheet that is there: another name leaves cur_sh
   null, and the program's next call that reads it goes wrong. *)
Select(sh) ==
  /\ sh \in Made
  /\ cur_sh' = sh
  /\ chosen' = "sheet"
  /\ UNCHANGED <<cells, nsheets, cache, crashed, quiet, late>>

(* Seeded fault: a number takes the place of the formula. *)
WithNumberOnly(e, v) == [val |-> v, flag |-> e.flag \cup {"VAL"}, exp |-> NULL]

WithNumber(e, v) == [val |-> v, flag |-> e.flag \cup {"VAL"}, exp |-> e.exp]

(* l_setnum on the current sheet *)
SetNum(p, v) ==
  LET a == <<cur_sh, p[1], p[2]>>
      made == lookat(cells, a)
  IN /\ cur_sh /= NULL
     /\ cells' = [made EXCEPT ![a] = WithNumber(made[a], v)]
     /\ quiet' = 0
     /\ UNCHANGED <<nsheets, cur_sh, cache, crashed, chosen, late>>

(* getAST: what the lexer and the parser make of a text; a reference is
   looked up on the spot, in the sheet it names or the current one. *)
Target(text, cur) == <<IF text.sheet = NULL THEN cur ELSE text.sheet, text.row, text.col>>

(* Seeded fault: the cell a reference names is not made. *)
BoundUnmade(cs, a, target) == [cs EXCEPT ![a].exp = [type |-> "eENT", at |-> target]]

(* createEnt on the cell lookat returned *)
Bound(cs, a, target) ==
  [lookat(cs, target) EXCEPT ![a].exp = [type |-> "eENT", at |-> target]]

(* The cell that has got a text, a constant folded into its value; of a
   refused text nothing stays but the cell the lexer has looked up. *)
Loaded(cs, a, text) ==
  CASE text.type = "number"  -> [cs EXCEPT ![a].val = text.val, ![a].exp = NULL]
    [] text.type = "ref"     -> Bound(cs, a, Target(text, a[1]))
    [] text.type = "refused" -> [lookat(cs, Target(text, a[1])) EXCEPT ![a].exp = NULL]
    [] OTHER                 -> [cs EXCEPT ![a].exp = text]

(* get_sheet_data (xlsx.c), a cell with a formula.  The sheet being loaded is
   current, and open_xlsx has made all sheets of the workbook before. *)
LoadFormula(a, text) ==
  LET made == lookat(cells, a)
      flagged == [made EXCEPT ![a].flag = made[a].flag \cup {"VAL", "RP_FORMULA"}]
  IN /\ a[1] \in Made
     /\ text.type \in {"ref", "refused"} => Target(text, a[1])[1] \in Made
     /\ Cardinality({b \in DOMAIN made : "RP_FORMULA" \in flagged[b].flag}) <= MaxFormulas
     /\ cells' = Loaded(flagged, a, text)
     /\ cur_sh' = a[1]
     /\ quiet' = 0
     /\ chosen' = "other"
     /\ late' = (late \/ cache /= <<>>)
     /\ UNCHANGED <<nsheets, cache, crashed>>

(* io_open *)
Init ==
  /\ cells = <<>>
  /\ nsheets = 0 /\ cur_sh = NULL
  /\ cache = <<>>
  /\ crashed = FALSE
  /\ quiet = 0 /\ chosen = "none" /\ late = FALSE

OtherCall ==
  \/ \E sh \in ToSet(Sheets) : NewSheet(sh) \/ Select(sh)
  \/ \E p \in Inputs, v \in Numbers : SetNum(p, v)
  \/ \E f \in Formulas : LoadFormula(f[1], f[2])

Next == ~crashed /\ (OtherCall \/ Recalc \/ RecalcCrashes)

Spec == Init /\ [][Next]_vars

-----------------------------------------------------------------------------
(* Properties *)

(* Every pointer points at a cell: the cache's and those of expressions. *)
TypeOK ==
  /\ \A a \in DOMAIN cells :
       /\ cells[a].val \in Numbers
       /\ cells[a].flag \subseteq {"VAL", "RP_FORMULA"}
       /\ cells[a].exp /= NULL /\ cells[a].exp.type = "eENT"
            => cells[a].exp.at \in DOMAIN cells
  /\ ToSet(cache) \subseteq DOMAIN cells /\ IsInjective(cache)
  /\ cur_sh \in Made \cup {NULL}

(* The cache is never brought up to date, and the program need not mind as long
   as it loads its templates first: unless a formula is loaded after the cache
   was built, it has every formula there is and no recalc crashes on it,
   whatever is written, created by range functions and evaluated in between. *)
CacheIsCurrent ==
  ~late => /\ ~crashed
           /\ cache /= <<>> \/ quiet > 0 => ToSet(cache) = Evaluable(cells)

(* The cells that hold the value their formula asks for after one more pass
   over the formulas of `order`, when those in S do before it: a formula that
   reads one evaluated earlier in the pass needs no pass of its own. *)
OnePass(cs, order, S) ==
  LET after[n \in 0..Len(order)] ==
        IF n = 0 THEN S
        ELSE IF /\ cs[order[n]].exp /= NULL
                /\ cs[order[n]].exp.type = "eENT"
                /\ cs[order[n]].exp.at \in after[n-1]
        THEN after[n-1] \cup {order[n]}
        ELSE after[n-1]
  IN after[Len(order)]

(* Those that do after so many passes. *)
Settled(cs, order, passes) ==
  LET known[n \in Nat] ==
        IF n = 0 THEN DOMAIN cs \ ToSet(order) ELSE OnePass(cs, order, known[n-1])
  IN known[passes]

(* recalc has no dependency order, it repeats: when nothing has changed for n
   recalcs, every chain of references that runs against the scan order at
   most n-1 times holds its final values. *)
SettlesInTime ==
  \A a \in ToSet(cache) :
    a \in Settled(cells, cache, quiet)
      => cells[a].val = (cells[cells[a].exp.at].val + 1) % Modulus

(* recalc, on its way and when it returns, writes the values of the formulas
   it evaluates; the numbers the program has set stay, and the cells it creates
   are blank: they hold no value for getnum, export or the range functions. *)
OnlyFormulasChange ==
  [][\/ \A a \in DOMAIN cells' \ (IF cache = <<>> THEN Evaluable(cells) ELSE ToSet(cache)) :
          cells'[a] = IF a \in DOMAIN cells THEN cells[a] ELSE BlankEnt
     \/ OtherCall]_vars

(* A range function names no sheet and reads the current one, and recalc leaves
   the first sheet current: when the program has not chosen a sheet since the
   recalc before, each range function, on whichever sheet it stands, shows what
   the cells of its range hold on the first sheet after this recalc, unless a
   formula among them is evaluated later in the pass. *)
RangesReadFirstSheet ==
  [][Recalc /\ cache /= <<>> /\ chosen = "none" =>
       \A n \in DOMAIN cache :
         LET a == cache[n]
             area == RangeCells(cells[a].exp, Head(Sheets))
         IN cells[a].exp.type = "f" /\ (\A m \in n..Len(cache) : cache[m] \notin area)
              => cells'[a].val = Total(cells', area) % Modulus]_vars

(* README.md:30, "Select Sheet and set it active": the sheet the program
   selected stays the active one until it selects or loads another, also when
   it sets numbers and recalculates in a loop, as in README.md:32. *)
SelectionKept ==
  [][RecalcFromCache /\ RecalcReturns /\ chosen = "sheet" => cur_sh' = cur_sh]_vars
=============================================================================
