----------------------------- MODULE RecalcScan -----------------------------
(***************************************************************************)
(* The first recalc of calc.c cell by cell: three loops that evaluate the  *)
(* formulas they meet and put them in the cache, while the evaluation of a *)
(* range function makes cells that the loops then walk as well.  Recalc    *)
(* takes all of it in one step.  The rest of the calls are Recalc's.       *)
(***************************************************************************)
EXTENDS Recalc

(* What recalc holds on its way through the sheets besides cur_sh, which is a
   loop variable meanwhile: NULL when it does not run, else a record of
     x, y    the column and the row
     found   the cache so far, which cache_nr does not count yet
     before  the cells and the current sheet at the call, for the properties *)
VARIABLE scan

scanvars == <<vars, scan>>

-----------------------------------------------------------------------------
ScanBegins ==
  /\ scan = NULL /\ cache = <<>>
  /\ scan' = [x |-> 0, y |-> 0, found |-> <<>>,
              before |-> [cells |-> cells, cur_sh |-> cur_sh]]
  /\ cur_sh' = first_sh
  /\ UNCHANGED <<cells, nsheets, cache, crashed, quiet, chosen, late>>

(* The body of the loops: the cell is passed over, or evaluated and cached. *)
ScanCell ==
  LET a == <<cur_sh, scan.y, scan.x>>
  IN /\ scan /= NULL /\ cur_sh /= NULL
     /\ scan.x <= LastCol(cells, cur_sh) /\ scan.y <= LastRow(cells, cur_sh)
     /\ \/ /\ a \notin Evaluable(cells)
           /\ scan' = [scan EXCEPT !.y = scan.y + 1]
           /\ UNCHANGED cells
        \/ /\ a \in Evaluable(cells)
           /\ cells' = Evaluated(cells, cur_sh, a)
           /\ scan' = [scan EXCEPT !.y = scan.y + 1, !.found = Append(scan.found, a)]
     /\ UNCHANGED <<nsheets, cur_sh, cache, crashed, quiet, chosen, late>>

(* Seeded fault: the row is not reset. *)
ColumnAfterKept(s) == [s EXCEPT !.x = s.x + 1]

ColumnAfter(s) == [s EXCEPT !.x = s.x + 1, !.y = 0]

NextColumn ==
  /\ scan /= NULL /\ cur_sh /= NULL
  /\ scan.x <= LastCol(cells, cur_sh) /\ scan.y > LastRow(cells, cur_sh)
  /\ scan' = ColumnAfter(scan)
  /\ UNCHANGED vars

NextSheet ==
  /\ scan /= NULL /\ cur_sh /= NULL
  /\ scan.x > LastCol(cells, cur_sh)
  /\ cur_sh' = IF Position(cur_sh) < nsheets THEN Sheets[Position(cur_sh) + 1] ELSE NULL
  /\ scan' = [scan EXCEPT !.x = 0, !.y = 0]
  /\ UNCHANGED <<cells, nsheets, cache, crashed, quiet, chosen, late>>

ScanEnds ==
  /\ scan /= NULL /\ cur_sh = NULL
  /\ cache' = scan.found
  /\ scan' = NULL
  /\ RecalcReturns
  /\ UNCHANGED cells

(* The calls that are still one step: all but the first recalc. *)
WholeCall ==
  /\ scan = NULL
  /\ OtherCall \/ (RecalcFromCache /\ RecalcReturns) \/ RecalcCrashes
  /\ UNCHANGED scan

ScanInit == Init /\ scan = NULL

ScanNext ==
  ~crashed /\ (WholeCall \/ ScanBegins \/ ScanCell \/ NextColumn \/ NextSheet \/ ScanEnds)

ScanSpec == ScanInit /\ [][ScanNext]_scanvars

-----------------------------------------------------------------------------
(* Properties *)

Whole == INSTANCE Recalc WITH
  cells  <- IF scan = NULL THEN cells ELSE scan.before.cells,
  cur_sh <- IF scan = NULL THEN cur_sh ELSE scan.before.cur_sh

(* The three loops, which run over extents that grow while they run and test
   cells that did not exist when they began, evaluate and cache what one pass
   over the formulas of before the call does, each formula once and in order. *)
RecalcInOneStep == Whole!Spec
=============================================================================
