\* Up to three formula cells on two sheets.
CONSTANTS
  s1 = s1
  s2 = s2
  Sheets <- MCSheets
  Formulas <- MCFormulas
  Inputs <- MCInputs
  Modulus = 2
  MaxFormulas = 3
  MaxQuiet = 3
  NULL = NULL
SPECIFICATION ScanSpec
INVARIANTS TypeOK SettlesInTime CacheIsCurrent
PROPERTIES RecalcInOneStep OnlyFormulasChange RangesReadFirstSheet
CHECK_DEADLOCK FALSE
