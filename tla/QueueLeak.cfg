SPECIFICATION Spec
CONSTANTS
  w1 = w1  w2 = w2  w3 = w3
  Workers <- TwoWorkers
  Orchestrator = Orchestrator
  Nobody = Nobody
  Targets <- AnyTarget
  ChunkCount = 2
  LLMCanFail = FALSE
  MaxEarly = 0
  None = None
PROPERTY WorkersShutDown
