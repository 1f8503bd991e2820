----------------------------- MODULE MCHandoff -----------------------------
(* Small instances of Handoff for TLC. *)
EXTENDS Handoff

Config(a, n, s, t) == [architecture |-> a, workers |-> n, steps |-> s, target |-> t]

\* Fewer workers than steps, and more; the monolithic loop has one worker whatever
\* worker_count says.  A chain of one step, and of none where it can be begun.
AllConfigs ==
  {Config("master_worker", n, s, t) : n \in {3, 5}, s \in {0, 1, 4}, t \in 1 .. 5 \cup {Master, Nobody}}
  \cup {Config("swarm", n, s, t) : n \in {3, 5}, s \in {1, 4}, t \in 1 .. 5 \cup {Nobody}}
  \cup {Config("monolithic", n, s, t) : n \in {1, 2}, s \in {0, 1, 4}, t \in 1 .. 2 \cup {Nobody}}
=============================================================================
