SPECIFICATION Spec
CONSTANTS
  w1 = w1  w2 = w2  w3 = w3
  Workers <- ThreeWorkers
  Orchestrator = Orchestrator
  Nobody = Nobody
  Targets <- AWorker
  ChunkCounts = {2}
  LLMCanFail = FALSE
  SlowChain = FALSE
  None = None
INVARIANT SuccessHasAnswer
