----------------------------- MODULE QueueChain -----------------------------
(***************************************************************************)
(* One Task B request in the queue-based architecture                      *)
(* (architectures/queue_based/executor.py): the orchestrator puts the      *)
(* initial state of the chain on the task queue; whichever worker takes a  *)
(* state performs one step and puts the next state on the task queue, or   *)
(* the complete one on the result queue.  The orchestrator waits for it    *)
(* once, for thirty seconds.                                               *)
(*                                                                         *)
(* A state of the chain is its current_step: the other fields follow from  *)
(* it (context has one insight per step done).  Time is abstracted: the    *)
(* wait may run out when the result queue is empty, and SlowChain says     *)
(* whether it may also do so while the chain still makes progress.         *)
(***************************************************************************)
EXTENDS Naturals, FiniteSets, Sequences

CONSTANTS Workers,       \* the worker threads of the request
          Orchestrator,  \* the id of the thread that runs execute()
          Nobody,        \* no crash is injected
          Targets,       \* the crash targets the configuration may name
          ChunkCounts,   \* the values workload.chunk_count may have
          LLMCanFail,    \* whether an LLM call may raise
          SlowChain,     \* whether a chain may outlast the thirty seconds
          None           \* no state

ASSUME ConstantsAssumption ==
  /\ ChunkCounts \subseteq Nat
  /\ LLMCanFail \in BOOLEAN /\ SlowChain \in BOOLEAN
  /\ Targets \subseteq Workers \cup {Orchestrator, Nobody}
  /\ Orchestrator \notin Workers /\ Nobody \notin Workers
  /\ None \notin Nat

VARIABLES
  total_steps,  \* of the adapter: workload.chunk_count
  target,  \* failure_injection.target_worker_id, when the mode is "crash"
  opc,     \* where the orchestrator is
  answer,  \* final_result
  stop,    \* stop_event
  taskQ,   \* broker.task_queue
  resQ,    \* broker.result_queue
  wpc,     \* where each worker is
  held     \* the state each worker took last and has not passed on

workerVars == <<wpc, held>>
vars == <<total_steps, target, opc, answer, stop, taskQ, resQ, workerVars>>

Over == {"returned", "crashed"}
Dead == {"exited", "dead"}
AllDead == \A w \in Workers : wpc[w] \in Dead

\* No answer can come any more.
Quiet == /\ resQ = <<>>
         /\ \A w \in Workers : wpc[w] # "handling"
         /\ taskQ = <<>> \/ AllDead

\* current_step of the states of the chain: even a chain of no steps takes one.
States == 0 .. IF total_steps = 0 THEN 1 ELSE total_steps

TypeOK ==
  /\ total_steps \in ChunkCounts
  /\ target \in Targets
  /\ opc \in Over \cup {"start", "publish", "get", "join"}
  /\ answer \in States \cup {None}
  /\ stop \in BOOLEAN
  /\ taskQ \in Seq(States) /\ resQ \in Seq(States)
  /\ wpc \in [Workers -> Dead \cup {"loop", "poll", "handling"}]
  /\ held \in [Workers -> States \cup {None}]

Init ==
  /\ total_steps \in ChunkCounts
  /\ target \in Targets
  /\ opc = "start"
  /\ answer = None
  /\ stop = FALSE
  /\ taskQ = <<>> /\ resQ = <<>>
  /\ wpc = [w \in Workers |-> "loop"]
  /\ held = [w \in Workers |-> None]

-----------------------------------------------------------------------------
(* The orchestrator. *)

OrchestratorCrashes ==
  /\ opc = "start" /\ target = Orchestrator
  /\ opc' = "crashed"
  /\ UNCHANGED <<total_steps, target, answer, stop, taskQ, resQ, workerVars>>

\* create_initial_state, and the one message the orchestrator ever puts.
Publish ==
  /\ opc = "start" /\ target # Orchestrator
  /\ taskQ' = Append(taskQ, 0)
  /\ opc' = "get"
  /\ UNCHANGED <<total_steps, target, answer, stop, resQ, workerVars>>

\* The complete state arrives; the workers are told to stop.
Receive ==
  /\ opc = "get" /\ resQ # <<>>
  /\ answer' = Head(resQ)
  /\ resQ' = Tail(resQ)
  /\ stop' = TRUE
  /\ opc' = "join"
  /\ UNCHANGED <<total_steps, target, taskQ, workerVars>>

\* queue.Empty: final_result stays None, and execute() goes on as if it had one.
Timeout ==
  /\ opc = "get" /\ resQ = <<>>
  /\ SlowChain \/ Quiet
  /\ stop' = TRUE
  /\ opc' = "join"
  /\ UNCHANGED <<total_steps, target, answer, taskQ, resQ, workerVars>>

Return ==
  /\ opc = "join"
  /\ opc' = "returned"
  /\ UNCHANGED <<total_steps, target, answer, stop, taskQ, resQ, workerVars>>

OrchestratorStep ==
  OrchestratorCrashes \/ Publish \/ Receive \/ Timeout \/ Return

-----------------------------------------------------------------------------
(* A worker thread, queue_worker_loop. *)

CheckStop_Never(w) ==
  /\ wpc[w] = "loop"
  /\ wpc' = [wpc EXCEPT ![w] = "poll"]
  /\ UNCHANGED <<total_steps, target, opc, answer, stop, taskQ, resQ, held>>
CheckStop(w) ==
  /\ wpc[w] = "loop"
  /\ wpc' = [wpc EXCEPT ![w] = IF stop THEN "exited" ELSE "poll"]
  /\ UNCHANGED <<total_steps, target, opc, answer, stop, taskQ, resQ, held>>

\* No message for 0.1 s: back to the head of the loop.
PollEmpty(w) ==
  /\ wpc[w] = "poll" /\ taskQ = <<>>
  /\ wpc' = [wpc EXCEPT ![w] = "loop"]
  /\ UNCHANGED <<total_steps, target, opc, answer, stop, taskQ, resQ, held>>

Take(w) ==
  /\ wpc[w] = "poll" /\ taskQ # <<>>
  /\ held' = [held EXCEPT ![w] = Head(taskQ)]
  /\ taskQ' = Tail(taskQ)
  /\ wpc' = [wpc EXCEPT ![w] = "handling"]
  /\ UNCHANGED <<total_steps, target, opc, answer, stop, resQ>>

\* The injected crash, or an exception of the LLM call: the chain is dropped.
Die(w) ==
  /\ wpc[w] = "handling"
  /\ w = target \/ LLMCanFail
  /\ wpc' = [wpc EXCEPT ![w] = "dead"]
  /\ UNCHANGED <<total_steps, target, opc, answer, stop, taskQ, resQ, held>>

\* is_complete of the state after the step.
Complete_OneLess(n) == n + 1 >= total_steps
Complete(n) == n >= total_steps

\* process_step, and the new state on the queue its completeness calls for.
\* The worker does not look at stop_event in between.
Step_NoElse(w) ==
  /\ wpc[w] = "handling" /\ w # target
  /\ LET new == held[w] + 1
     IN /\ taskQ' = Append(taskQ, new)
        /\ resQ' = IF Complete(new) THEN Append(resQ, new) ELSE resQ
  /\ held' = [held EXCEPT ![w] = None]
  /\ wpc' = [wpc EXCEPT ![w] = "loop"]
  /\ UNCHANGED <<total_steps, target, opc, answer, stop>>
Step(w) ==
  /\ wpc[w] = "handling" /\ w # target
  /\ LET new == held[w] + 1
     IN IF Complete(new)
        THEN resQ' = Append(resQ, new) /\ UNCHANGED taskQ
        ELSE taskQ' = Append(taskQ, new) /\ UNCHANGED resQ
  /\ held' = [held EXCEPT ![w] = None]
  /\ wpc' = [wpc EXCEPT ![w] = "loop"]
  /\ UNCHANGED <<total_steps, target, opc, answer, stop>>

WorkerStep(w) ==
  CheckStop(w) \/ PollEmpty(w) \/ Take(w) \/ Die(w) \/ Step(w)

\* execute() is over: nothing of the request moves but its workers.
Done == opc \in Over /\ AllDead /\ UNCHANGED vars

Next == OrchestratorStep \/ (\E w \in Workers : WorkerStep(w)) \/ Done

SafeSpec == Init /\ [][Next]_vars

\* Every thread keeps running, and an LLM call returns or raises in the end.
Spec == /\ SafeSpec
        /\ WF_vars(OrchestratorStep)
        /\ \A w \in Workers : WF_vars(WorkerStep(w))

-----------------------------------------------------------------------------
(* Properties. *)

Holders == {w \in Workers : held[w] # None}

Copies == Len(taskQ) + Len(resQ) + Cardinality(Holders)
          + (IF answer = None THEN 0 ELSE 1)

\* Once published, the chain is in exactly one place: a queue, the hands of one
\* worker (dead, if the chain is lost) or the orchestrator's.
OneChain == Copies = IF opc \in {"start", "crashed"} THEN 0 ELSE 1

\* The newest state of the chain, wherever it is.
Newest == CASE taskQ # <<>>   -> Head(taskQ)
            [] resQ # <<>>    -> Head(resQ)
            [] Holders # {}   -> held[CHOOSE w \in Holders : TRUE]
            [] answer # None  -> answer
            [] OTHER          -> 0

\* What happened to the request, whatever the caller of execute() is told.
Outcome == CASE opc \in {"join", "returned"} ->
                  (IF answer = None THEN "failed" ELSE "answered")
             [] opc = "crashed" -> "failed"
             [] OTHER -> "running"

\* The request keeps the promise of every Task B request: steps in order, one
\* at a time, whichever workers take them and however late, an answer only for
\* a complete chain, and a decision in the end.
CH == INSTANCE Chain WITH total <- total_steps, step <- Newest, status <- Outcome
ImplementsChain == CH!Spec

\* A request that returned leaves no worker behind: a worker already past its
\* test of stop_event does one more step and then ends.
ReturnStopsWorkers == opc = "returned" ~> AllDead

\* "final_result = None  # Chain failed" (queue_based/executor.py:182), and
\* run_experiment.py:41 logs {"status": "success"} for a request that returned:
\* a success has an answer.
SuccessHasAnswer == opc = "returned" => answer # None
=============================================================================
