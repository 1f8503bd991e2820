SPECIFICATION Spec
CONSTANTS
  Scripts <- AllScripts
  RunCount = 3
  ParserCanFail = TRUE
INVARIANTS RowsOfRuns ClosingLineTrue
PROPERTY BatchEnds
