SPECIFICATION Spec
CONSTANTS
  w1 = w1  w2 = w2  w3 = w3
  Workers <- ThreeWorkers
  Orchestrator = Orchestrator
  Nobody = Nobody
  Targets <- AnyTarget
  ChunkCount = 2
  LLMCanFail = TRUE
  MaxEarly = 1
  None = None
INVARIANTS TypeOK ChunkAccounted CollectedOnce DuplicateBound GivesUpForALostChunk
PROPERTIES NoWorkForCollected ImplementsMapReduce OneSurvivorEnough ReturnStopsWorkers
