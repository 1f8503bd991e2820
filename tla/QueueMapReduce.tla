--------------------------- MODULE QueueMapReduce ---------------------------
(***************************************************************************)
(* One Task A request in the queue-based architecture                      *)
(* (architectures/queue_based/executor.py): an orchestrator publishes the  *)
(* chunks on a task queue, worker threads take them, summarise them and    *)
(* put the summaries on a result queue; when no result arrives for ten     *)
(* seconds the orchestrator publishes every pending chunk again.           *)
(*                                                                         *)
(* Time is abstracted.  A timeout is possible whenever the queue it waits  *)
(* on is empty.  A timeout of the orchestrator is LATE when no answer can   *)
(* come any more (Quiet below), and EARLY when an answer is merely slow    *)
(* (the LLM client alone may back off for twenty seconds).                  *)
(* The code puts no limit on either; MaxEarly bounds the early ones.       *)
(***************************************************************************)
EXTENDS Naturals, FiniteSets, Functions, Sequences

CONSTANTS Workers,       \* the worker threads of the request
          Orchestrator,  \* the id of the thread that runs execute()
          Nobody,        \* no crash is injected
          Targets,       \* the crash targets the configuration may name
          ChunkCount,    \* workload.chunk_count
          LLMCanFail,    \* whether an LLM call may raise
          MaxEarly,      \* BOUND: early timeouts of the orchestrator
          None           \* no message

Chunks == 0 .. ChunkCount - 1

\* A message on either queue: the task id is the chunk's, with "-retry" after
\* it when the orchestrator published the chunk again.
Messages == [chunk : Chunks, retry : BOOLEAN]

ASSUME ConstantsAssumption ==
  /\ ChunkCount \in Nat \ {0}
  /\ MaxEarly \in Nat
  /\ LLMCanFail \in BOOLEAN
  /\ Targets \subseteq Workers \cup {Orchestrator, Nobody}
  /\ Orchestrator \notin Workers /\ Nobody \notin Workers
  /\ None \notin Messages

VARIABLES
  target,    \* failure_injection.target_worker_id, when the mode is "crash"
  opc,       \* where the orchestrator is
  toPut,     \* chunks it has still to put in the publishing loop it is in
  pending,   \* keys of pending_chunks
  results,   \* the results list: the chunks it holds the summary of
  early,     \* early timeouts so far
  stop,      \* stop_event
  taskQ,     \* broker.task_queue
  resQ,      \* broker.result_queue
  wpc,       \* where each worker is
  held       \* the message each worker took last and has not answered

orchVars   == <<target, opc, toPut, pending, results, early, stop>>
workerVars == <<wpc, held>>
vars       == <<orchVars, taskQ, resQ, workerVars>>

Over == {"returned", "crashed", "gaveUp", "reduceFailed"}
Dead == {"exited", "dead"}
AllDead == \A w \in Workers : wpc[w] \in Dead

\* No answer can come: none is queued, no worker is at work on one, and no
\* message waits for a worker, or no worker is left to take it.
Quiet == /\ resQ = <<>>
         /\ \A w \in Workers : wpc[w] # "handling"
         /\ taskQ = <<>> \/ AllDead

TypeOK ==
  /\ target \in Targets
  /\ opc \in Over \cup {"start", "publish", "check", "get", "requeue",
                        "reduce", "join"}
  /\ toPut \subseteq Chunks
  /\ pending \subseteq Chunks
  /\ results \in Seq(Chunks)
  /\ early \in 0 .. MaxEarly
  /\ stop \in BOOLEAN
  /\ taskQ \in Seq(Messages)
  /\ resQ \in Seq(Messages)
  /\ wpc \in [Workers -> Dead \cup {"loop", "poll", "handling"}]
  /\ held \in [Workers -> Messages \cup {None}]

\* The worker threads are started before the orchestrator does anything else.
Init ==
  /\ target \in Targets
  /\ opc = "start"
  /\ toPut = {} /\ pending = {} /\ results = <<>>
  /\ early = 0
  /\ stop = FALSE
  /\ taskQ = <<>> /\ resQ = <<>>
  /\ wpc = [w \in Workers |-> "loop"]
  /\ held = [w \in Workers |-> None]

-----------------------------------------------------------------------------
(* The orchestrator. *)

\* The injected crash of the orchestrator: execute() raises at once.
OrchestratorCrashes ==
  /\ opc = "start" /\ target = Orchestrator
  /\ opc' = "crashed"
  /\ UNCHANGED <<target, toPut, pending, results, early, stop, taskQ, resQ,
                 workerVars>>

\* The chunks the first loop publishes.
Published_FromOne == 1 .. ChunkCount - 1
Published == Chunks

\* TaskAAdapter.split gives ChunkCount chunks, all of them to be published.
Split ==
  /\ opc = "start" /\ target # Orchestrator
  /\ opc' = "publish"
  /\ toPut' = Published
  /\ pending' = Chunks
  /\ UNCHANGED <<target, results, early, stop, taskQ, resQ, workerVars>>

\* The message for a chunk in the publishing loop the orchestrator is in.
Task_NoId(c) == [chunk |-> c]
Task(c) == [chunk |-> c, retry |-> opc = "requeue"]

\* One turn of either publishing loop: both go through the chunks in order.
Put ==
  /\ opc \in {"publish", "requeue"}
  /\ \E c \in toPut :
       /\ \A d \in toPut : c <= d
       /\ taskQ' = Append(taskQ, Task(c))
       /\ toPut' = toPut \ {c}
       /\ opc' = IF toPut = {c} THEN "check" ELSE opc
  /\ UNCHANGED <<target, pending, results, early, stop, resQ, workerVars>>

\* The head of the waiting loop: done, nobody left to wait for, or wait.
Check ==
  /\ opc = "check"
  /\ opc' = IF pending = {} THEN "reduce" ELSE IF AllDead THEN "gaveUp" ELSE "get"
  /\ UNCHANGED <<target, toPut, pending, results, early, stop, taskQ, resQ,
                 workerVars>>

\* A result counts when its chunk is pending, under the chunk's own id or
\* under the id of its retry.
Counts_RetryAlways(m) == m.retry \/ m.chunk \in pending
Counts_RetryNever(m) == ~m.retry /\ m.chunk \in pending
Counts(m) == m.chunk \in pending

\* A result that does not count is dropped.
Receive ==
  /\ opc = "get" /\ resQ # <<>>
  /\ LET m == Head(resQ)
     IN IF Counts(m)
        THEN results' = Append(results, m.chunk) /\ pending' = pending \ {m.chunk}
        ELSE UNCHANGED <<results, pending>>
  /\ resQ' = Tail(resQ)
  /\ opc' = "check"
  /\ UNCHANGED <<target, toPut, early, stop, taskQ, workerVars>>

\* The chunks a timeout publishes again.
Requeued_Everything == Chunks
Requeued == pending

\* queue.Empty after ten seconds.
Timeout ==
  /\ opc = "get" /\ resQ = <<>>
  /\ Quiet \/ early < MaxEarly
  /\ early' = IF Quiet THEN early ELSE early + 1
  /\ toPut' = Requeued
  /\ opc' = "requeue"
  /\ UNCHANGED <<target, pending, results, stop, taskQ, resQ, workerVars>>

\* The aggregation answers, and the workers are told to stop.
Reduce ==
  /\ opc = "reduce"
  /\ stop' = TRUE
  /\ opc' = "join"
  /\ UNCHANGED <<target, toPut, pending, results, early, taskQ, resQ,
                 workerVars>>

\* The aggregation's own LLM call raises out of execute().
ReduceFails ==
  /\ opc = "reduce" /\ LLMCanFail
  /\ opc' = "reduceFailed"
  /\ UNCHANGED <<target, toPut, pending, results, early, stop, taskQ, resQ,
                 workerVars>>

\* Every join has a timeout of its own: execute() returns, the workers
\* stopped or not.
Return ==
  /\ opc = "join"
  /\ opc' = "returned"
  /\ UNCHANGED <<target, toPut, pending, results, early, stop, taskQ, resQ,
                 workerVars>>

OrchestratorStep ==
  \/ OrchestratorCrashes \/ Split \/ Put \/ Check \/ Receive \/ Timeout
  \/ Reduce \/ ReduceFails \/ Return

-----------------------------------------------------------------------------
(* A worker thread, queue_worker_loop. *)

CheckStop_Never(w) ==
  /\ wpc[w] = "loop"
  /\ wpc' = [wpc EXCEPT ![w] = "poll"]
  /\ UNCHANGED <<orchVars, taskQ, resQ, held>>
CheckStop(w) ==
  /\ wpc[w] = "loop"
  /\ wpc' = [wpc EXCEPT ![w] = IF stop THEN "exited" ELSE "poll"]
  /\ UNCHANGED <<orchVars, taskQ, resQ, held>>

\* No message for 0.1 s: back to the head of the loop.
PollEmpty(w) ==
  /\ wpc[w] = "poll" /\ taskQ = <<>>
  /\ wpc' = [wpc EXCEPT ![w] = "loop"]
  /\ UNCHANGED <<orchVars, taskQ, resQ, held>>

Take_Peek(w) ==
  /\ wpc[w] = "poll" /\ taskQ # <<>>
  /\ held' = [held EXCEPT ![w] = Head(taskQ)]
  /\ wpc' = [wpc EXCEPT ![w] = "handling"]
  /\ UNCHANGED <<orchVars, taskQ, resQ>>
Take(w) ==
  /\ wpc[w] = "poll" /\ taskQ # <<>>
  /\ held' = [held EXCEPT ![w] = Head(taskQ)]
  /\ taskQ' = Tail(taskQ)
  /\ wpc' = [wpc EXCEPT ![w] = "handling"]
  /\ UNCHANGED <<orchVars, resQ>>

\* The injected crash, or an exception of the LLM call, which nothing in the
\* loop catches: the thread ends and the message it took is dropped.
Die(w) ==
  /\ wpc[w] = "handling"
  /\ w = target \/ LLMCanFail
  /\ wpc' = [wpc EXCEPT ![w] = "dead"]
  /\ UNCHANGED <<orchVars, taskQ, resQ, held>>

\* The summary goes to the result queue under the task id of the message.
Deliver(w) ==
  /\ wpc[w] = "handling" /\ w # target
  /\ resQ' = Append(resQ, held[w])
  /\ held' = [held EXCEPT ![w] = None]
  /\ wpc' = [wpc EXCEPT ![w] = "loop"]
  /\ UNCHANGED <<orchVars, taskQ>>

WorkerStep(w) ==
  CheckStop(w) \/ PollEmpty(w) \/ Take(w) \/ Die(w) \/ Deliver(w)

\* execute() is over: nothing of the request moves but its workers.
Done == opc \in Over /\ AllDead /\ UNCHANGED vars

Next == OrchestratorStep \/ (\E w \in Workers : WorkerStep(w)) \/ Done

SafeSpec == Init /\ [][Next]_vars

\* Every thread keeps running: the interpreter schedules them all, and an LLM
\* call returns or raises in the end.
Spec == /\ SafeSpec
        /\ WF_vars(OrchestratorStep)
        /\ \A w \in Workers : WF_vars(WorkerStep(w))

-----------------------------------------------------------------------------
(* Properties. *)

InQueue(q, c) == \E i \in 1 .. Len(q) : q[i].chunk = c

Holds(w, c) == held[w] # None /\ held[w].chunk = c

\* No chunk gets lost but in the hands of a worker: as long as its summary is
\* awaited, it is still to be published, queued, held by a worker, dead ones
\* included, or its summary is on its way back.
ChunkAccounted ==
  \A c \in pending : \/ c \in toPut
                     \/ InQueue(taskQ, c) \/ InQueue(resQ, c)
                     \/ \E w \in Workers : Holds(w, c)

\* Whatever retries and late answers do, a summary enters the results list at
\* most once, and the list and the pending chunks always make up the document.
CollectedOnce ==
  /\ IsInjective(results)
  /\ Range(results) \cap pending = {}
  /\ opc \notin {"start", "crashed"} => Range(results) \cup pending = Chunks

CopiesIn(q, c) == Cardinality({i \in 1 .. Len(q) : q[i].chunk = c})

\* The places where a copy of the chunk can still cause an LLM call or be an answer.
Copies(c) == CopiesIn(taskQ, c) + CopiesIn(resQ, c)
             + Cardinality({w \in Workers : wpc[w] = "handling" /\ Holds(w, c)})
             + (IF c \in toPut THEN 1 ELSE 0)

\* Only an early timeout duplicates work: a chunk has one copy in the system, one
\* more for each timeout that gave up on an answer still to come, and one more
\* when the last worker died: the orchestrator notices that only after it has
\* published the chunk once again.
DuplicateBound ==
  \A c \in Chunks : Copies(c) <= 1 + early + (IF AllDead THEN 1 ELSE 0)

\* The orchestrator looks at the workers before it looks at the results, and may
\* give up with answers on the queue; but unless a timeout came early, a request
\* is given up only when a chunk it awaits is not among them.
GivesUpForALostChunk ==
  opc = "gaveUp" /\ early = 0 => \E c \in pending : ~InQueue(resQ, c)

\* A chunk whose summary was gathered is never published again.
NoWorkForCollected ==
  [][\A c \in Range(results) : CopiesIn(taskQ', c) <= CopiesIn(taskQ, c)]_vars

\* What the caller of execute() sees of the request.
Outcome == CASE opc \in {"join", "returned"} -> "answered"
             [] opc \in {"crashed", "gaveUp", "reduceFailed"} -> "failed"
             [] OTHER -> "running"

\* The request keeps the promise of every Task A request, and is decided in
\* the end, whoever dies: no answer without every chunk, each gathered once.
MR == INSTANCE MapReduce WITH gathered <- results, status <- Outcome
ImplementsMapReduce == MR!Spec

\* A request that returned leaves no worker behind, although the joins time
\* out: each worker takes one more message at most and then ends.
ReturnStopsWorkers == opc = "returned" ~> AllDead

\* A single worker left is enough: crashes and failed LLM calls of the others
\* lose their messages, and the request still gathers every summary, unless all
\* its workers die.
OneSurvivorEnough ==
  target # Orchestrator =>
    <>(Range(results) = Chunks \/ \A w \in Workers : wpc[w] = "dead")

\* "# Shutdown workers" (queue_based/executor.py:188): however the request
\* ends, its workers end too.
WorkersShutDown == opc \in Over ~> AllDead
=============================================================================
