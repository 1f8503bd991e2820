------------------------------ MODULE MCBatch ------------------------------
(* Small instances of Batch for TLC. *)
EXTENDS Batch

AllScripts ==
  {BatchRun, BatchRunV6, StressTest, MissingFaultTolerance, MonolithicScaling,
   RealBatch, RealBatchMono, MissingExperiments, SweepLatency, TaskBScaling,
   Phase2A, Phase2C, AllExperiments}

\* The script whose summary is never written.
Benchmark == {Phase2A}
=============================================================================
