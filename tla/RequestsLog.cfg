SPECIFICATION Spec
CONSTANTS
  TotalRequests = 3
  MaxConcurrent = 3
  PoolSize = 2
  Architectures <- AllArchitectures
INVARIANTS CompletedCounted LatencyBasis
PROPERTY RunEnds
