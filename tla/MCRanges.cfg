\* Ranges whose corners are in any order, over columns of three cells.
CONSTANTS
  Sheets <- MCSheets
  Corners <- MCCorners
  None = None
SPECIFICATION Spec
INVARIANTS TypeOK ResultIsRight ReadsOnly
CHECK_DEADLOCK FALSE
