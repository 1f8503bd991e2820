----------------------------- MODULE LogReaders -----------------------------
(***************************************************************************)
(* What three programs read from the log of EventLog:                      *)
(* parser/metrics_parser.py, analyzer/data_extractor.py and                *)
(* analyzer/swarm_bottleneck_analyzer.py.  Each of them sorts the events   *)
(* by their timestamps, which is the order they were written in, and goes  *)
(* through them once.  All of them are applied to every log of EventLog,   *)
(* so also to the log of a run that is cut short between two steps of its  *)
(* threads.                                                                *)
(*                                                                         *)
(* A dictionary of start times is given by what it holds when an event is  *)
(* read: the time of the last event with the same key.                     *)
(***************************************************************************)
EXTENDS EventLog, Integers, FiniteSetsExt, Functions, SequencesExt

EndTime == IF log = <<>> THEN 0 ELSE Last(log).at

Indices(what) == {i \in DOMAIN log : log[i].what = what}

\* What Op makes of the events of s, one after the other: FoldLeft by recursion
\* over the position, which TLC evaluates in one pass.
ReadThrough(Op(_, _), base, s) ==
  LET read[k \in 0 .. Len(s)] == IF k = 0 THEN base ELSE Op(read[k - 1], s[k])
  IN read[Len(s)]

-----------------------------------------------------------------------------
(* compute_metrics of the parser. *)

\* uniq_key: the request and the task id.  RETRY_START and RETRY_END have the
\* id of the chunk, the other events that of the message.
Key_NoTrace(i) == <<Job(log[i].job).task,
                    Retry(log[i].job) /\ log[i].what \notin {"RETRY_START", "RETRY_END"}>>
Key(i) == <<Job(log[i].job).trace, Job(log[i].job).task,
            Retry(log[i].job) /\ log[i].what \notin {"RETRY_START", "RETRY_END"}>>

\* The start that the dictionary of start events holds at event i, if any.
StartsBefore(i, start) == {k \in Indices(start) : k < i /\ Key(k) = Key(i)}
StartAt(i, start) == Max(StartsBefore(i, start))

\* The events a duration is appended for: no entry is ever removed.
Measured(start, end) == {i \in Indices(end) : StartsBefore(i, start) # {}}
Duration(i, start) == log[i].at - log[StartAt(i, start)].at

queue_wait_times == Measured("QUEUED", "DEQUEUED")
execution_times == Measured("EXECUTION_START", "EXECUTION_END")
aggregation_times == Measured("AGGREGATION_START", "AGGREGATION_END")
retry_times == Measured("RETRY_START", "RETRY_END")

\* active_workers counts both kinds of starts and never goes below 0.
NoneActive == [w \in Workers |-> 0]

CountActive(n, e) ==
  CASE e.what \in {"INFERENCE_START", "EXECUTION_START"} -> [n EXCEPT ![e.worker] = @ + 1]
    [] e.what \in {"INFERENCE_END", "EXECUTION_END"} /\ n[e.worker] > 0 ->
         [n EXCEPT ![e.worker] = @ - 1]
    [] OTHER -> n

active_workers == ReadThrough(CountActive, NoneActive, log)

\* worker_state_transitions[w]: the indices of its events.
Transitions(w) == {i \in DOMAIN log : log[i].worker = w /\ log[i].what \in States}

\* A state lasts until the worker's next event, the last one until the end.
Lasts_NotLast(i) ==
  LET next == {k \in Transitions(log[i].worker) : k > i}
  IN IF next = {} THEN 0 ELSE log[Min(next)].at - log[i].at
Lasts(i) ==
  LET next == {k \in Transitions(log[i].worker) : k > i}
  IN (IF next = {} THEN EndTime ELSE log[Min(next)].at) - log[i].at

TimeIn(w, state) ==
  SumFunction([i \in {k \in Transitions(w) : log[k].what = state} |-> Lasts(i)])
worker_times(state) == SumFunction([w \in Workers |-> TimeIn(w, state)])

-----------------------------------------------------------------------------
(* extract_metrics_from_log of the data extractor. *)

\* An entry of the dictionary worker_states: the state of the worker, since when,
\* and the time spent in each state before.
Unseen == [state |-> "none", last_ts |-> 0, spent |-> [s \in States |-> 0]]

\* The time since the last event is booked on the state before it.
Book(prev, at) ==
  IF prev.state = "none" THEN prev
  ELSE [prev EXCEPT !.spent[prev.state] = @ + (at - prev.last_ts)]

Enter(prev, e) == [prev EXCEPT !.state = e.what, !.last_ts = e.at]

Extract_NewState(states, e) ==
  IF e.what \notin States THEN states
  ELSE [states EXCEPT ![e.worker] =
          [Book([@ EXCEPT !.state = e.what], e.at) EXCEPT !.last_ts = e.at]]
Extract(states, e) ==
  IF e.what \notin States THEN states
  ELSE [states EXCEPT ![e.worker] = Enter(Book(@, e.at), e)]

worker_states ==
  LET read == ReadThrough(Extract, [w \in Workers |-> Unseen], log)
  IN [w \in Workers |-> Book(read[w], EndTime)]

-----------------------------------------------------------------------------
(* analyze_log of the swarm bottleneck analyzer. *)

\* weighted is busy_distribution summed up: the time with k agents busy, times k.
NoAgents == [busy_agents |-> {}, last_ts |-> 0, weighted |-> 0]

Spend(a, at) == [a EXCEPT !.weighted = @ + Cardinality(a.busy_agents) * (at - a.last_ts),
                          !.last_ts = at]
Follow_KeepsBlocked(a, e) ==
  IF e.what \notin States THEN a
  ELSE [Spend(a, e.at) EXCEPT !.busy_agents =
          IF e.what = "idle" THEN @ \ {e.worker} ELSE @ \cup {e.worker}]
Follow(a, e) ==
  IF e.what \notin States THEN a
  ELSE [Spend(a, e.at) EXCEPT !.busy_agents =
          IF e.what = "busy" THEN @ \cup {e.worker} ELSE @ \ {e.worker}]

busy_distribution == Spend(ReadThrough(Follow, NoAgents, log), EndTime)

\* inference_start_times: the task id is the key, whatever the request, and an
\* end removes the entry.
NoInference == [open |-> <<>>, total |-> 0]
TaskId_NoRetry(e) == <<Job(e.job).task, FALSE>>
TaskId(e) == <<Job(e.job).task, Retry(e.job)>>
Drop(f, k) == [x \in DOMAIN f \ {k} |-> f[x]]
Put(f, k, v) == [x \in DOMAIN f \cup {k} |-> IF x = k THEN v ELSE f[x]]

Infer(a, e) ==
  LET id == TaskId(e) IN
  CASE e.what = "INFERENCE_START" -> [a EXCEPT !.open = Put(@, id, e.at)]
    [] e.what = "INFERENCE_END" /\ id \in DOMAIN a.open ->
         [open |-> Drop(a.open, id), total |-> a.total + (e.at - a.open[id])]
    [] OTHER -> a

total_inference_time == ReadThrough(Infer, NoInference, log).total

-----------------------------------------------------------------------------
(* What really happened. *)

\* The time from event i of a job to its next event in S, or to the end.
Until(i, S) ==
  LET next == {k \in DOMAIN log : k > i /\ log[k].job = log[i].job /\ log[k].what \in S}
  IN (IF next = {} THEN EndTime ELSE log[Min(next)].at) - log[i].at

\* The time a job is in a state that it reported; a job that was lost stays in it.
JobTime(j, state) ==
  SumFunction([i \in {k \in Indices(state) : log[k].job = j} |-> Until(i, States)])

SameWorker(w) == {j \in JobIds : Job(j).worker = w}

\* The job runs from its first state to its last, or until now when it is at work.
Runs(j) ==
  LET own == {i \in DOMAIN log : log[i].job = j /\ log[i].what \in States}
  IN IF own = {} THEN {}
     ELSE Min(own) .. (IF Working(j) THEN Len(log) ELSE Max(own))

\* No two jobs of the worker's id run at a time, no thread of that id begins
\* while one runs, and none is lost.
Alone(w) ==
  /\ \A i, j \in SameWorker(w) : i # j => Runs(i) \cap Runs(j) = {}
  /\ \A i \in Transitions(w), j \in SameWorker(w) : log[i].job = NoJob => i \notin Runs(j)
  /\ \A j \in SameWorker(w) : phase[j] \notin Lost

-----------------------------------------------------------------------------
(* Properties. *)

\* Two programs report the utilisation of the workers and a third one how many
\* agents are busy; they go different ways through the log and agree, whatever
\* its threads did, and share out the whole time of each worker, from its first
\* event to the end of the log.
ToolsAgree ==
  LET times == [busy |-> worker_times("busy"), idle |-> worker_times("idle"),
                blocked |-> worker_times("blocked")]
      extracted == worker_states
  IN /\ \A s \in States :
          times[s] = SumFunction([w \in Workers |-> extracted[w].spent[s]])
     /\ busy_distribution.weighted = times["busy"]
     /\ SumFunction(times) =
          SumFunction([w \in {v \in Workers : Transitions(v) # {}} |->
                         EndTime - log[Min(Transitions(w))].at])

\* The busy time of an id never exceeds that of the jobs behind it, and is
\* theirs when the id stands for one job at a time; concurrent requests, and the
\* chunks of one id in a pool, hide busy time.
BusyTrue ==
  \A w \in Workers :
    LET real == SumFunction([j \in SameWorker(w) |-> JobTime(j, "busy")])
        busy == TimeIn(w, "busy")
    IN busy <= real /\ (Alone(w) => busy = real)

\* The starts of executions are kept per request: each execution that ends is
\* measured, and in full unless a retry of the same chunk runs beside it.  So is
\* each aggregation, which waits for the chunks of its own request only.
ExecutionsTrue ==
  /\ execution_times = Indices("EXECUTION_END")
  /\ aggregation_times = Indices("AGGREGATION_END")
  /\ \A i \in aggregation_times :
       log[StartAt(i, "AGGREGATION_START")].job = log[i].job
  /\ \A i \in execution_times :
       LET own == Max({k \in Indices("EXECUTION_START") : log[k].job = log[i].job})
       IN StartAt(i, "EXECUTION_START") # own => Retry(log[i].job)

\* A wait is measured for each message whose QUEUED event comes before its
\* DEQUEUED; a worker may be faster than the event, and then the wait is missing,
\* but for a retry: its start may be that of another retry of the chunk.
WaitsTrue ==
  LET measured == queue_wait_times
  IN /\ ~Queue => measured = Indices("DEQUEUED")
     /\ \A i \in Indices("DEQUEUED") :
          LET own == {k \in Indices("QUEUED") : k < i /\ log[k].job = log[i].job}
          IN /\ own # {} => i \in measured
             /\ i \in measured /\ StartAt(i, "QUEUED") \notin own =>
                  \E j \in JobIds \ {log[i].job} :
                    /\ Retry(j) /\ Retry(log[i].job)
                    /\ Job(j).trace = Job(log[i].job).trace /\ Job(j).task = Job(log[i].job).task

\* The starts of inferences are kept per task id alone: requests that run at a
\* time overwrite each other's, and the total falls short of the real one.
InferenceTrue ==
  LET Real(S) == SumFunction([i \in S |-> Until(i, {"INFERENCE_END"})])
      starts == Indices("INFERENCE_START")
      total == total_inference_time
  IN /\ total <= Real(starts)
     /\ (\A i, j \in JobIds : i # j => \/ Job(i).task # Job(j).task
                                      \/ Retry(i) # Retry(j)) =>
          total =
            Real({i \in starts : /\ phase[log[i].job] \in {"answered", "received"}
                                 /\ log[i].job \notin leaving})

\* A worker counts as active, twice, for each job it is at, and for ever for a job
\* whose LLM call raised; once for a job that is answered and not yet left; an
\* injected crash leaves nothing behind.
ActiveMeansWorking ==
  LET active == active_workers
  IN \A w \in Workers :
       active[w] =
         2 * Cardinality({j \in SameWorker(w) : ~Aggregation(j) /\
                                                phase[j] \in AtWork \cup {"raised"}})
         + Cardinality({j \in SameWorker(w) : j \in leaving})

\* A retry delay is measured for each chunk gathered through a retry, once, and
\* from a publication no earlier than the retry's own; a retry that the late
\* original overtook has none.
RetryDelays ==
  /\ retry_times = Indices("RETRY_END")
  /\ \A i, k \in retry_times : Key(i) = Key(k) => i = k
  /\ \A i \in retry_times :
       \A k \in Indices("RETRY_START") :
         log[k].job = log[i].job => Duration(i, "RETRY_START") <= log[i].at - log[k].at
=============================================================================
