-------------------------- MODULE MCQueueMapReduce --------------------------
(* Small instances of QueueMapReduce for TLC. *)
EXTENDS QueueMapReduce

CONSTANTS w1, w2, w3   \* worker threads

TwoWorkers == {w1, w2}
ThreeWorkers == {w1, w2, w3}

\* Every target run_experiment.py may draw, and none.
AnyTarget == Workers \cup {Orchestrator, Nobody}
=============================================================================
