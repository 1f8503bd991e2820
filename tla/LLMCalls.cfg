SPECIFICATION Spec
CONSTANTS
  t1 = t1  t2 = t2
  Threads <- TwoThreads
  KeyCounts <- TwoOrFour
  MaxAttempts = 3
  Overloaded = TRUE
  Faulty = TRUE
  MaxCalls = 2
  NoKey = NoKey
INVARIANTS TypeOK GivesUpOnlyWhenExhausted OneRefusalAtMost
PROPERTY EveryCallEnds
