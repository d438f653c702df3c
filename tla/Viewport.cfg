\* Windows of one or three rows and of two or three columns, and a cursor that
\* leaves them all.
CONSTANTS
  Heights = {1, 3}
  Widths = {2, 3}
  MaxCell = 5
SPECIFICATION ViewSpec
INVARIANTS ViewTypeOK CursorShown WindowFits ScreenIsCurrent
PROPERTY ScrollsByOne
CHECK_DEADLOCK FALSE
