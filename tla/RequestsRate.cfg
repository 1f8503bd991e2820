SPECIFICATION Spec
CONSTANTS
  TotalRequests = 2
  MaxConcurrent = 2
  PoolSize = 2
  Architectures <- QueueBased
INVARIANT SuccessRateTrue
