\* Eleven files, and a program that writes to one cell that the files share.
CONSTANTS
  Files <- MCFiles
  html_table <- MChtml_table
  strtod <- MCstrtod
  Names = {"Roman"}
  Cells <- Shared
  Nums = {5}
  Texts <- OneText
  MaxLoads = 3
  None = None
SPECIFICATION Spec
INVARIANTS TypeOK FormulasBound
PROPERTIES LoadedIsShown LoadKeepsRest FreshIsExact
CHECK_DEADLOCK FALSE
