----------------------------- MODULE MCRequests -----------------------------
(* Small instances of Requests for TLC. *)
EXTENDS Requests

\* The three kinds of logs: master_worker and swarm write the same events.
AllArchitectures == {"queue_based", "swarm", "monolithic"}
QueueBased == {"queue_based"}
=============================================================================
