SPECIFICATION Spec
CONSTANTS
  Scenarios <- AllScenarios
INVARIANTS TypeOK ToolsAgree BusyTrue ExecutionsTrue WaitsTrue InferenceTrue ActiveMeansWorking RetryDelays
