------------------------------ MODULE Requests ------------------------------
(***************************************************************************)
(* One run of an experiment (runner/run_experiment.py) and what the        *)
(* metrics parser (parser/metrics_parser.py) makes of its log.  An asyncio *)
(* loop creates the requests in order, a semaphore admits some of them at  *)
(* a time, and an admitted request runs execute() in the default thread    *)
(* pool, which may have fewer threads than the semaphore has permits.      *)
(*                                                                         *)
(* execute() is one of the other modules; here it only ends in one of      *)
(* Endings, or raises before its first event, and leaves its own events in *)
(* the log.  The log is in the order of the timestamps, as the parser      *)
(* sorts it.  The pool and the semaphore are not part of the repository:   *)
(* both are first come, first served.                                      *)
(***************************************************************************)
EXTENDS Naturals, FiniteSets, Sequences, FiniteSetsExt

CONSTANTS TotalRequests,  \* workload.total_requests
          MaxConcurrent,  \* workload.max_concurrent_requests
          PoolSize,       \* threads of the default executor of asyncio
          Architectures   \* the architectures of the runs

Requests == 0 .. TotalRequests - 1

ASSUME ConstantsAssumption ==
  /\ TotalRequests \in Nat /\ MaxConcurrent \in Nat \ {0} /\ PoolSize \in Nat \ {0}
  /\ Architectures \subseteq {"queue_based", "master_worker", "swarm", "monolithic"}

VARIABLES
  architecture,  \* experiment.architecture
  rpc,    \* where each request is
  log,    \* the TASK_RECEIVED and TASK_COMPLETED events of the requests
  exit    \* the exit code, once there is one

vars == <<architecture, rpc, log, exit>>

\* Whether execute() logs a TASK_RECEIVED of its own: the master, the
\* orchestrator and the first agent do.
Announces == architecture # "monolithic"

\* Where execute() looks at its input before that: only the orchestrator of the
\* queue announces itself first.
LooksFirst == architecture \in {"master_worker", "swarm"}

\* execute() returns, raises, or raises because all its queue workers are dead:
\* only then does it log a TASK_COMPLETED of its own.
Endings == {"returned", "raised"}
           \cup IF architecture = "queue_based" THEN {"allDead"} ELSE {}

\* by is who logs the event: the runner or execute().
Event(r, e, b, s) == [request |-> r, type |-> e, by |-> b, status |-> s]
Events == [request : Requests, type : {"received", "completed"},
           by : {"runner", "execute"}, status : {"none", "success", "failed"}]

In(states) == {r \in Requests : rpc[r] \in states}
Ended == {"returned", "raised", "allDead"}
Started == {"announcing", "running", "ending"}

TypeOK ==
  /\ architecture \in Architectures
  /\ rpc \in [Requests -> Started \cup Ended \cup {"none", "waiting", "admitted", "done"}]
  /\ log \in Seq(Events)
  /\ exit \in {"none", "0"}

Init ==
  /\ architecture \in Architectures
  /\ rpc = [r \in Requests |-> "none"]
  /\ log = <<>>
  /\ exit = "none"

IsFirst(r, states) == r \in In(states) /\ \A q \in In(states) : r <= q

-----------------------------------------------------------------------------
(* The event loop. *)

\* create_task, at the configured rate.
Create(r) ==
  /\ IsFirst(r, {"none"})
  /\ rpc' = [rpc EXCEPT ![r] = "waiting"]
  /\ UNCHANGED <<architecture, log, exit>>

\* The permits of the semaphore are held until TASK_COMPLETED is logged.
Holding == {"admitted"} \cup Started \cup Ended

\* A permit: the receipt is logged, and the request queues for a thread.
Admit(r) ==
  /\ IsFirst(r, {"waiting"})
  /\ Cardinality(In(Holding)) < MaxConcurrent
  /\ rpc' = [rpc EXCEPT ![r] = "admitted"]
  /\ log' = Append(log, Event(r, "received", "runner", "none"))
  /\ UNCHANGED <<architecture, exit>>

\* to_thread is back, with a result or with any exception; the request is
\* completed either way and gives its permit back.
Finish_RetriesFailed(r) ==
  /\ rpc[r] \in Ended
  /\ IF rpc[r] = "returned"
     THEN /\ rpc' = [rpc EXCEPT ![r] = "done"]
          /\ log' = Append(log, Event(r, "completed", "runner", "success"))
     ELSE rpc' = [rpc EXCEPT ![r] = "running"] /\ UNCHANGED log
  /\ UNCHANGED <<architecture, exit>>
Finish(r) ==
  /\ rpc[r] \in Ended
  /\ rpc' = [rpc EXCEPT ![r] = "done"]
  /\ log' = Append(log, Event(r, "completed", "runner",
                              IF rpc[r] = "returned" THEN "success" ELSE "failed"))
  /\ UNCHANGED <<architecture, exit>>

\* gather is over: "completed successfully", whatever became of the requests.
Exit ==
  /\ exit = "none" /\ In({"done"}) = Requests
  /\ exit' = "0"
  /\ UNCHANGED <<architecture, rpc, log>>

LoopStep == (\E r \in Requests : Create(r) \/ Admit(r) \/ Finish(r)) \/ Exit

-----------------------------------------------------------------------------
(* A thread of the pool. *)

Start_AlwaysAnnounces(r) ==
  /\ IsFirst(r, {"admitted"})
  /\ Cardinality(In(Started)) < PoolSize
  /\ rpc' = [rpc EXCEPT ![r] = "announcing"]
  /\ UNCHANGED <<architecture, log, exit>>
Start(r) ==
  /\ IsFirst(r, {"admitted"})
  /\ Cardinality(In(Started)) < PoolSize
  /\ rpc' = [rpc EXCEPT ![r] = IF Announces THEN "announcing" ELSE "running"]
  /\ UNCHANGED <<architecture, log, exit>>

\* The TASK_RECEIVED of the master, the orchestrator or the first agent.
Announce(r) ==
  /\ rpc[r] = "announcing"
  /\ rpc' = [rpc EXCEPT ![r] = "running"]
  /\ log' = Append(log, Event(r, "received", "execute", "none"))
  /\ UNCHANGED <<architecture, exit>>

\* The dataset cannot be read or split, there is no worker or no chunk to start
\* with, the type of the task is unknown: no event of execute() is in the log.
RaiseEarly(r) ==
  /\ rpc[r] = "announcing" /\ LooksFirst
  /\ rpc' = [rpc EXCEPT ![r] = "raised"]
  /\ UNCHANGED <<architecture, log, exit>>

End(r) ==
  /\ rpc[r] = "running"
  /\ \/ \E e \in Endings \ {"allDead"} : rpc' = [rpc EXCEPT ![r] = e]
     \/ "allDead" \in Endings /\ rpc' = [rpc EXCEPT ![r] = "ending"]
  /\ UNCHANGED <<architecture, log, exit>>

\* "orchestrator-fail", before the exception.
AllDead(r) ==
  /\ rpc[r] = "ending"
  /\ rpc' = [rpc EXCEPT ![r] = "allDead"]
  /\ log' = Append(log, Event(r, "completed", "execute", "failed"))
  /\ UNCHANGED <<architecture, exit>>

ThreadStep(r) == Start(r) \/ Announce(r) \/ RaiseEarly(r) \/ End(r) \/ AllDead(r)

Next == \/ LoopStep \/ (\E r \in Requests : ThreadStep(r))
        \/ (exit = "0" /\ UNCHANGED vars)

SafeSpec == Init /\ [][Next]_vars

\* The loop and the threads keep running, and execute() ends, as the modules
\* of the architectures show.
Spec == /\ SafeSpec
        /\ WF_vars(LoopStep)
        /\ \A r \in Requests : WF_vars(ThreadStep(r))

-----------------------------------------------------------------------------
(* compute_metrics, on the events it has seen so far. *)

\* request_start_times at event i: the last receipt of a request replaces the
\* one before.
ReceiptsBefore(i) == {j \in 1 .. i - 1 : /\ log[j].type = "received"
                                         /\ log[j].request = log[i].request}
StartOf_First(i) == Min(ReceiptsBefore(i))
StartOf(i) == Max(ReceiptsBefore(i))

\* The TASK_COMPLETED events that count: every one of a request with a start.
Completions_Runner == {i \in 1 .. Len(log) : /\ log[i].type = "completed"
                                             /\ log[i].by = "runner"}
Completions == {i \in 1 .. Len(log) : /\ log[i].type = "completed"
                                      /\ ReceiptsBefore(i) # {}}

completed_requests == Cardinality(Completions)
total_requests ==
  Cardinality({log[i].request : i \in {j \in 1 .. Len(log) : log[j].type = "received"}})

-----------------------------------------------------------------------------
(* Properties. *)

\* What the metric completed_requests says: the requests that are over, failed
\* ones included, and those whose queue workers all died counted twice.
CompletedCounted ==
  completed_requests =
    Cardinality(In({"done"}))
    + Cardinality({i \in 1 .. Len(log) : log[i] \in
                     [request : Requests, type : {"completed"},
                      by : {"execute"}, status : {"failed"}]})

\* What a latency measures.  It is counted from execute()'s own receipt if and
\* only if there is one, wherever in the log that is, and all successful requests
\* of a run are measured alike: without the wait for a thread of the pool, but in
\* the monolithic architecture with it.  Only a request that raised before it
\* announced itself is measured otherwise than the successes of its run.
LatencyBasis ==
  \A i \in Completions :
    LET from == log[StartOf(i)].by
    IN  /\ from = "execute" <=>
             \E j \in 1 .. Len(log) : /\ log[j].type = "received" /\ log[j].by = "execute"
                                      /\ log[j].request = log[i].request
        /\ log[i].status = "success" \/ log[i].by = "execute" =>
             from = IF Announces THEN "execute" ELSE "runner"

\* A run always ends, however its requests end.
RunEnds == <>(exit = "0")

\* "Success Rate" (analyzer/failure_analyzer.py:84) is completed_requests over
\* total_requests: only requests that succeeded count as completed.
SuccessRateTrue ==
  exit = "0" => completed_requests =
    Cardinality({i \in 1 .. Len(log) : log[i].status = "success"})
=============================================================================
