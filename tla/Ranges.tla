------------------------------- MODULE Ranges -------------------------------
(***************************************************************************)
(* function.c: the functions of a formula that take a range, do_sum,       *)
(* do_prod, do_cnt, do_min, do_max, do_avg and do_stdev.  They share two   *)
(* nested loops, here one iteration per action, and differ in what they    *)
(* accumulate.  The range is text until the function is evaluated; the     *)
(* grammar lets no sheet name into it, so the cells are those of the       *)
(* current sheet.                                                          *)
(*                                                                         *)
(* The sheet has been filled by the Excel reader: the cell named <<s, r>>  *)
(* is at row r, column atocol(s).  Numbers are integers; a quotient is     *)
(* kept as a pair.                                                         *)
(***************************************************************************)
EXTENDS Columns, FiniteSetsExt

CONSTANTS
  Sheets,   \* the sheets a function is evaluated on: coordinates -> Ent
  Corners,  \* the cell names <<letters, row>> of ranges
  None      \* an Ent without the flag VAL

ASSUME RangesAssumption ==
  /\ Corners \subseteq Agreed \X Nat
  /\ \A s \in Sheets : DOMAIN s \subseteq Nat \X Nat
  /\ \A s \in Sheets : \A p \in DOMAIN s : s[p] \in Int \cup {None}
  /\ None \notin Int

Functions == {"SUM", "PRODUCT", "COUNT", "MIN", "MAX", "AVERAGE", "STDEV"}

VARIABLES
  call,        \* the function, the corners of its range and the sheet before
  cells,       \* the cells that exist on the sheet
  row1, col1,  \* the loop variables
  acc,         \* the local variables of the function
  result       \* <<>> until the function returns

vars == <<call, cells, row1, col1, acc, result>>

-----------------------------------------------------------------------------
Row2 == call.to[2]
Col2 == convert(call.to[1])

(* sum is 1 in do_prod; do_min and do_max use cnt as "a number was seen". *)
Start(fn) == [sum |-> IF fn = "PRODUCT" THEN 1 ELSE 0, squares |-> 0, cnt |-> 0]

(* Seeded fault: do_min and do_max start from 0 and not from the first number. *)
CountedFirst(fn, a, v) ==
  IF fn \in {"MIN", "MAX"} /\ ~(IF fn = "MIN" THEN v < a.sum ELSE v > a.sum) THEN a
  ELSE [sum |-> CASE fn = "PRODUCT" -> a.sum * v [] fn \in {"MIN", "MAX"} -> v
                  [] OTHER -> a.sum + v,
        squares |-> a.squares + v * v, cnt |-> a.cnt + 1]

(* The body of the loops for a cell that holds a number. *)
Counted(fn, a, v) ==
  CASE fn = "SUM" -> [a EXCEPT !.sum = @ + v]
    [] fn = "PRODUCT" -> [a EXCEPT !.sum = @ * v]
    [] fn = "COUNT" -> [a EXCEPT !.cnt = @ + 1]
    [] fn = "MIN" -> IF a.cnt = 0 THEN [a EXCEPT !.sum = v, !.cnt = 1]
                     ELSE IF v < a.sum THEN [a EXCEPT !.sum = v] ELSE a
    [] fn = "MAX" -> IF a.cnt = 0 THEN [a EXCEPT !.sum = v, !.cnt = 1]
                     ELSE IF v > a.sum THEN [a EXCEPT !.sum = v] ELSE a
    [] fn = "AVERAGE" -> [a EXCEPT !.sum = @ + v, !.cnt = @ + 1]
    [] fn = "STDEV" -> [sum |-> a.sum + v, squares |-> a.squares + v * v, cnt |-> a.cnt + 1]

(* What is returned, as numerator and denominator; of do_stdev, its square.
   The average of no number is 0 / 0, a NaN. *)
Value(fn, a) ==
  CASE fn = "COUNT" -> <<a.cnt, 1>>
    [] fn = "AVERAGE" -> <<a.sum, a.cnt>>
    [] fn = "STDEV" -> IF a.cnt \in {0, 1} THEN <<0, 1>>
                       ELSE <<a.cnt * a.squares - a.sum * a.sum, a.cnt * (a.cnt - 1)>>
    [] OTHER -> <<a.sum, 1>>

-----------------------------------------------------------------------------
Init ==
  /\ call \in [fn : Functions, from : Corners, to : Corners, sheet : Sheets]
  /\ cells = call.sheet
  /\ row1 = call.from[2]
  /\ col1 = convert(call.from[1])
  /\ acc = Start(call.fn)
  /\ result = <<>>

(* Seeded fault: the row after the range is read as well. *)
RowsLeftOneMore == row1 <= Row2 + 1

RowsLeft == row1 <= Row2

WithBlank(p) == [q \in DOMAIN cells \cup {p} |-> IF q = p THEN None ELSE cells[q]]

(* lookat makes the cell that is not there; a blank one is not counted. *)
Visit ==
  /\ col1 <= Col2 /\ RowsLeft
  /\ LET p == <<row1, col1>>
     IN IF p \in DOMAIN cells
        THEN /\ cells' = cells
             /\ acc' = IF cells[p] = None THEN acc ELSE Counted(call.fn, acc, cells[p])
        ELSE /\ cells' = WithBlank(p)
             /\ acc' = acc
  /\ row1' = row1 + 1
  /\ UNCHANGED <<call, col1, result>>

(* Seeded change: the rows of every column are walked. *)
RowKept == call.from[2]

(* The row is not reset. *)
RowOfNextColumn == row1

ColAfter == col1 + 1

NextColumn ==
  /\ col1 <= Col2 /\ ~RowsLeft
  /\ col1' = ColAfter
  /\ row1' = RowOfNextColumn
  /\ UNCHANGED <<call, cells, acc, result>>

Return ==
  /\ result = <<>>
  /\ col1 > Col2
  /\ result' = Value(call.fn, acc)
  /\ UNCHANGED <<call, cells, row1, col1, acc>>

Next == Visit \/ NextColumn \/ Return

Spec == Init /\ [][Next]_vars

-----------------------------------------------------------------------------
(* Properties *)

(* The cells a range of one column names, where the reader put them. *)
Column == {<<r, atocol(call.from[1])>> : r \in call.from[2]..Row2}

Named == IF atocol(call.from[1]) <= atocol(call.to[1]) THEN Column ELSE {}

Numbers == {p \in Named \cap DOMAIN call.sheet : call.sheet[p] /= None}

Total == SumFunctionOnSet(call.sheet, Numbers)
Product == FoldFunctionOnSet(LAMBDA x, y : x * y, 1, call.sheet, Numbers)
Values == {call.sheet[p] : p \in Numbers}

(* n times the deviation from the mean. *)
Spread == LET dev == [p \in Numbers |-> Cardinality(Numbers) * call.sheet[p] - Total]
          IN SumFunctionOnSet([p \in Numbers |-> dev[p] * dev[p]], Numbers)

IsRight(fn, r) ==
  LET n == Cardinality(Numbers)
  IN CASE fn = "SUM" -> r = <<Total, 1>>
       [] fn = "PRODUCT" -> r = <<Product, 1>>
       [] fn = "COUNT" -> r = <<n, 1>>
       [] fn = "MIN" -> r = <<IF n = 0 THEN 0 ELSE Min(Values), 1>>
       [] fn = "MAX" -> r = <<IF n = 0 THEN 0 ELSE Max(Values), 1>>
       [] fn = "AVERAGE" -> r = <<Total, n>>
       [] fn = "STDEV" -> IF n < 2 THEN r[1] = 0
                          ELSE r[1] * (n * n * (n - 1)) = Spread * r[2]

(* Every variable keeps its type, and the loop variables stay near the range:
   the row at most one past its end, the column as well. *)
TypeOK ==
  /\ DOMAIN cells \subseteq Nat \X Nat
  /\ row1 \in Nat /\ col1 \in Nat
  /\ row1 <= call.from[2] \/ row1 <= Row2 + 1
  /\ col1 <= convert(call.from[1]) \/ col1 <= Col2 + 1
  /\ DOMAIN acc = {"sum", "squares", "cnt"}
  /\ Len(result) \in {0, 2}

(* What a range function returns is the sum, product, number, least, greatest,
   mean or sample variance of the numbers in the first column of its range, at
   the very cells the reader gave those names, whatever the later columns, the
   blank cells and the cells that are not there. *)
ResultIsRight == result /= <<>> => IsRight(call.fn, result)

(* Evaluating a range writes no number: cells that are there stay as they are,
   and the ones it makes are blank and lie in the first column of the range. *)
ReadsOnly ==
  /\ \A p \in DOMAIN call.sheet : p \in DOMAIN cells /\ cells[p] = call.sheet[p]
  /\ \A p \in DOMAIN cells \ DOMAIN call.sheet : p \in Named /\ cells[p] = None
=============================================================================
