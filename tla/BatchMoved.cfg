SPECIFICATION Spec
CONSTANTS
  Scripts <- Benchmark
  RunCount = 3
  ParserCanFail = FALSE
INVARIANT SummaryGenerated
