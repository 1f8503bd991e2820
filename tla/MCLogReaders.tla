---------------------------- MODULE MCLogReaders ----------------------------
(* Small instances of LogReaders for TLC. *)
EXTENDS LogReaders

Scenario(a, t, h, js) ==
  [architecture |-> a, target |-> t, horizon |-> h, jobs |-> js, late |-> {}]
J(r, c, w) == [trace |-> r, task |-> c, kind |-> "chunk", worker |-> w]
R(r, c, w) == [trace |-> r, task |-> c, kind |-> "retry", worker |-> w]
A(r, w) == [trace |-> r, task |-> 0, kind |-> "aggregation", worker |-> w]

NoTarget == 0

\* A request whose thread begins when another one is under way.
Late(s) == [s EXCEPT !.late = {<<2, 1>>}]

\* Two requests of a run with the same chunk on the same worker id.  With two queues
\* the clock stands still: what time makes of a shared id is in the other ones.
TwoRequests(a, t, h) == Scenario(a, t, h, <<J(1, 1, 1), J(2, 1, 1)>>)

\* Two chunks of one request: on one worker id, and on two.
OneId(a, t) == Scenario(a, t, 2, <<J(1, 1, 1), J(1, 2, 1)>>)
TwoIds(a, t, h) == Scenario(a, t, h, <<J(1, 1, 1), J(1, 2, 2)>>)

\* A chunk published again, whoever takes it, and one published twice again.
Again(w) == Scenario("queue_based", NoTarget, 1, <<J(1, 1, 1), R(1, 1, w)>>)
AgainTwice == Scenario("queue_based", 1, 1, <<J(1, 1, 1), R(1, 1, 2), R(1, 1, 2)>>)

\* Two requests that aggregate under the worker's id.
Aggregated(a, t) == Scenario(a, t, 1, <<J(1, 1, 1), A(1, 1), J(2, 1, 1), A(2, 1)>>)

AllScenarios ==
  {TwoRequests("queue_based", NoTarget, 0), Late(TwoRequests("queue_based", 1, 1)),
   Late(Scenario("queue_based", NoTarget, 2, <<J(1, 1, 1)>>))}
  \cup {TwoRequests(a, t, 2) : a \in {"swarm", "monolithic"}, t \in {NoTarget, 1}}
  \cup {OneId(a, t) : a \in {"queue_based", "master_worker", "monolithic"}, t \in {NoTarget, 1}}
  \cup {TwoIds("queue_based", t, 1) : t \in {NoTarget, 1}}
  \cup {TwoIds("master_worker", t, 2) : t \in {NoTarget, 1}}
  \cup {Again(w) : w \in 1 .. 2} \cup {AgainTwice}
  \cup {Aggregated(a, t) : a \in {"swarm", "monolithic"}, t \in {NoTarget, 1}}
=============================================================================
