SPECIFICATION Spec
CONSTANTS
  Configs <- AllConfigs
  Master = Master
  Nobody = Nobody
  LLMCanFail = TRUE
PROPERTIES HandoffHonoured ImplementsChain CrashDecides
