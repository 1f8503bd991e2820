SPECIFICATION Spec
CONSTANTS
  w1 = w1  w2 = w2  w3 = w3
  Workers <- ThreeWorkers
  Orchestrator = Orchestrator
  Nobody = Nobody
  Targets <- AnyTarget
  ChunkCounts = {0, 1, 3}
  LLMCanFail = TRUE
  SlowChain = TRUE
  None = None
INVARIANTS OneChain
PROPERTIES ImplementsChain ReturnStopsWorkers
