---------------------------- MODULE MCQueueChain ----------------------------
(* Small instances of QueueChain for TLC. *)
EXTENDS QueueChain

CONSTANTS w1, w2, w3   \* worker threads

ThreeWorkers == {w1, w2, w3}

AnyTarget == Workers \cup {Orchestrator, Nobody}
AWorker == Workers
=============================================================================
