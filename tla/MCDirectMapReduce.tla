------------------------- MODULE MCDirectMapReduce -------------------------
(* Small instances of DirectMapReduce for TLC. *)
EXTENDS DirectMapReduce

Config(a, n, t) == [architecture |-> a, workers |-> n, target |-> t]

\* Fewer workers than chunks, and more; the monolithic loop has one worker whatever
\* worker_count says.  run_experiment.py draws a target for
\* master_worker; for the other two a configuration may name one.
AllConfigs ==
  {Config("master_worker", n, t) : n \in {2, 4}, t \in 1 .. 4 \cup {Master, Nobody}}
  \cup {Config("swarm", n, t) : n \in {2, 4}, t \in 1 .. 4 \cup {Nobody}}
  \cup {Config("monolithic", n, t) : n \in {1, 2}, t \in 1 .. 2 \cup {Nobody}}

\* Articles shorter than the chunks are many, and longer, with and without a
\* remainder.
Articles == 0 .. 7
=============================================================================
