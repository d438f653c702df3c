------------------------------ MODULE Viewport ------------------------------
(***************************************************************************)
(* tui/tui.c: the part of the sheet the terminal shows and the cursor in   *)
(* it.  Rows and columns scroll by the same rule, so an axis is a record:  *)
(* the cursor (currow, curcol), the first cell shown (offscr_sc_rows,      *)
(* offscr_sc_cols) and the last one (mxrow, mxcol).  The cells are drawn   *)
(* again only when a key has moved the first cell shown; curses changes    *)
(* LINES and COLS when the terminal is resized, and nothing is drawn then. *)
(***************************************************************************)
EXTENDS Integers

CONSTANTS
  Heights,  \* numbers of rows the window can show: LINES - RESROW - 1
  Widths,   \* numbers of columns: (COLS - RESCOL) / FIXED_COLWIDTH
  MaxCell   \* bound: the cursor does not pass this row or column

ASSUME ViewportAssumption ==
  /\ Heights \subseteq Nat \ {0}
  /\ Widths \subseteq Nat \ {0}
  /\ MaxCell \in Nat

VARIABLES
  height, width,  \* of the terminal now
  row, col,       \* the two axes
  drawn,          \* the cells on the screen: the axes' off and mx
  shall_quit,
  resized         \* history: the terminal has been resized

view_vars == <<height, width, row, col, drawn, shall_quit, resized>>

Axis == [cur : Nat, off : Nat, mx : Int]

(* Seeded faults: scrolling up by one keeps the last cell shown; a cursor
   past the last cell is not followed. *)
calc_offscrKeepingEnd(a, size) ==
  IF a.off /= 0 /\ a.off <= a.cur /\ a.cur <= a.mx THEN a
  ELSE IF a.off /= 0 /\ a.cur = a.off - 1 THEN [a EXCEPT !.off = @ - 1]
  ELSE LET past == IF a.cur > size - 1 THEN a.cur - (size - 1) ELSE 0
       IN [a EXCEPT !.off = past, !.mx = size - 1 + past]

calc_offscrNotFollowing(a, size) ==
  IF a.off /= 0 /\ a.off <= a.cur /\ a.cur <= a.mx THEN a
  ELSE [a EXCEPT !.off = 0, !.mx = size - 1]

(* Seeded fault: a cursor that leaves the window is put in its middle. *)
calc_offscrCentering(a, size) ==
  IF a.off <= a.cur /\ a.cur <= a.mx THEN a
  ELSE LET first == IF a.cur > size \div 2 THEN a.cur - size \div 2 ELSE 0
       IN [a EXCEPT !.off = first, !.mx = first + size - 1]

(* calc_offscr_sc_rows, calc_offscr_sc_cols: a window that is scrolled and
   holds the cursor stays; one that the cursor leaves at its start follows by
   one; any other is recomputed from the origin, and moved until it holds the
   cursor. *)
calc_offscr(a, size) ==
  IF a.off /= 0 /\ a.off <= a.cur /\ a.cur <= a.mx THEN a
  ELSE IF a.off /= 0 /\ a.cur = a.off - 1
  THEN [a EXCEPT !.off = @ - 1, !.mx = @ - 1]
  ELSE LET past == IF a.cur > size - 1 THEN a.cur - (size - 1) ELSE 0
       IN [a EXCEPT !.off = past, !.mx = size - 1 + past]

Shown(a) == [off |-> a.off, mx |-> a.mx]

-----------------------------------------------------------------------------
Origin(size) == [cur |-> 0, off |-> 0, mx |-> size - 1]

(* main, after its first ui_update. *)
ViewInit ==
  /\ height \in Heights /\ width \in Widths
  /\ row = Origin(height) /\ col = Origin(width)
  /\ drawn = [rows |-> Shown(row), cols |-> Shown(col)]
  /\ shall_quit = FALSE /\ resized = FALSE

(* Seeded fault: only a move towards the end draws the cells again. *)
DrawnAgainForward(before, after) == after.off > before.off
DrawnAgain(before, after) == after.off /= before.off

(* The end of each arrow key of do_normalmode, the cursor having moved. *)
ScrollRows(moved) ==
  /\ row' = calc_offscr(moved, height)
  /\ drawn' = IF DrawnAgain(row, row')
              THEN [rows |-> Shown(row'), cols |-> Shown(col)] ELSE drawn
  /\ UNCHANGED <<height, width, col, shall_quit, resized>>

ScrollCols(moved) ==
  /\ col' = calc_offscr(moved, width)
  /\ drawn' = IF DrawnAgain(col, col')
              THEN [rows |-> Shown(row), cols |-> Shown(col')] ELSE drawn
  /\ UNCHANGED <<height, width, row, shall_quit, resized>>

(* Seeded fault: the guard against the first cell is missing. *)
BackUnguarded(a) == [a EXCEPT !.cur = @ - 1]

Further(a) == [a EXCEPT !.cur = @ + 1]
Back(a)    == [a EXCEPT !.cur = IF @ > 0 THEN @ - 1 ELSE @]

KeyJ == row.cur < MaxCell /\ ScrollRows(Further(row))
KeyK == ScrollRows(Back(row))
KeyL == col.cur < MaxCell /\ ScrollCols(Further(col))
KeyH == ScrollCols(Back(col))

(* u: ui_update *)
KeyU ==
  /\ col' = calc_offscr(col, width)
  /\ row' = calc_offscr(row, height)
  /\ drawn' = [rows |-> Shown(row'), cols |-> Shown(col')]
  /\ UNCHANGED <<height, width, shall_quit, resized>>

(* q, and SIGINT *)
KeyQ ==
  /\ shall_quit' = TRUE
  /\ UNCHANGED <<height, width, row, col, drawn, resized>>

Resize ==
  /\ height' \in Heights /\ width' \in Widths
  /\ resized' = TRUE
  /\ UNCHANGED <<row, col, drawn, shall_quit>>

ViewNext ==
  \/ ~shall_quit /\ (KeyJ \/ KeyK \/ KeyL \/ KeyH \/ KeyU \/ KeyQ)
  \/ ~shall_quit /\ Resize

ViewSpec == ViewInit /\ [][ViewNext]_view_vars

-----------------------------------------------------------------------------
(* Properties *)

ViewTypeOK ==
  /\ height \in Heights /\ width \in Widths
  /\ row \in Axis /\ col \in Axis
  /\ drawn \in [rows : [off : Nat, mx : Int], cols : [off : Nat, mx : Int]]
  /\ shall_quit \in BOOLEAN /\ resized \in BOOLEAN

Holds(a) == a.off <= a.cur /\ a.cur <= a.mx

(* Whatever keys are pressed and however the terminal is resized, the cell
   the cursor is on is one of those the window shows. *)
CursorShown == Holds(row) /\ Holds(col)

(* Until the terminal is resized the window is exactly as large as it. *)
WindowFits ==
  ~resized => /\ row.mx - row.off = height - 1
              /\ col.mx - col.off = width - 1

(* do_normalmode draws the cells again whenever it has to: until the terminal
   is resized, what is on the screen is what the window shows, and the first
   cell on the screen is the window's first even after. *)
ScreenIsCurrent ==
  /\ drawn.rows.off = row.off /\ drawn.cols.off = col.off
  /\ ~resized => drawn = [rows |-> Shown(row), cols |-> Shown(col)]

Near(m, n) == m - n \in {-1, 0, 1}

(* A key scrolls by at most one row or column, unless the terminal has been
   resized: the window follows the cursor and never jumps. *)
ScrollsByOne ==
  [][~resized => Near(row'.off, row.off) /\ Near(col'.off, col.off)]_view_vars
=============================================================================
