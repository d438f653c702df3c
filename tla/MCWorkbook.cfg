\* Three sheets, so that the first, the middle and the last are deleted, and
\* two cells on one chain of each, at most two cells of the document at once.
CONSTANTS
  Sheets = {a1, a2, a3}
  Names = {m1, m2, m3}
  Places <- Colliding
  Vals = {v1}
  Labels = {t1}
  NULL = NULL
  HashNr = 2
  ShortBits = 2
SPECIFICATION Spec
INVARIANTS TypeOK ListSound CellsFindable
PROPERTY MapSpec
CONSTRAINT FewCells
CHECK_DEADLOCK FALSE
SYMMETRY Symmetry
