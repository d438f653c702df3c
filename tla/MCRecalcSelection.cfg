\* One formula cell.
CONSTANTS
  s1 = s1
  s2 = s2
  Sheets <- MCSheets
  Formulas <- MCFormulas
  Inputs <- MCInputs
  Modulus = 2
  MaxFormulas = 1
  MaxQuiet = 1
  NULL = NULL
SPECIFICATION ScanSpec
PROPERTY SelectionKept
CHECK_DEADLOCK FALSE
