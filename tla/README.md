# A formal model of the distributed agent simulation

This directory holds TLA+ modules of the simulation framework of this
repository, the TLC configurations that check them on small instances, and
proofs that TLAPS checks for every instance.  It is meant to be read beside the
code: `PROJECT.json` says for each definition which lines it translates.

The framework runs one workload under four orchestration architectures and
compares them, also under injected crashes.  What can go wrong is mostly in the
orchestration: messages that are lost with a crashed worker, answers that come
twice or too late, threads that outlive their request, exceptions that are
swallowed, and metrics that count something else than they say.

## 1. Inventory

| Component | State | Operations | What is hard | Correct when |
|---|---|---|---|---|
| Queue-based executor, Task A (`architectures/queue_based/executor.py`) | task and result queue, stop event, `pending_chunks`, `results`, one program counter per thread | publish, wait, receive, time out and publish again, aggregate, stop; worker: poll, take, die, answer | timeouts race late answers; a dead worker keeps its message; nobody bounds the retries; exceptions leave the workers behind | each summary counts once; no chunk is lost; duplicates are bounded; the request is decided and leaves no thread behind |
| Queue-based executor, Task B | the same queues, one message that is the whole chain | publish once, wait once; worker: one step, pass it on | the chain dies with a worker; the wait runs out while the chain lives | one chain, steps in order, an answer only for a complete chain |
| Master-worker, swarm, monolithic, Task A | futures of a thread pool (none in the monolithic loop), results list | submit all, take the results (as completed, or in order), or process one after the other; aggregate | an exception leaves the loop while the pool goes on; the monolithic loop swallows the crash; worker ids are labels, not threads | no answer without all chunks; nothing outlives the request |
| Master-worker, swarm, monolithic, Task B | the state of the chain, a step counter | dispatch, step, announce the handoff, return | what a crash does differs by architecture; the handoff is computed twice | steps in order; the announced agent is the real one |
| Task A adapter (`workloads/task_a`) | none | `split`, `process_chunk`, `aggregate` | rounding | every paragraph in one chunk, in order |
| Task B adapter (`workloads/task_b`) | none | `create_initial_state`, `process_step` | completion at the boundary | as the chain |
| LLM client (`core/llm_client.py`) | current key, attempts per call | get a client, call, rotate, back off | two threads rotate for one exhausted key; a client outlives the rotation; five attempts for up to nine keys | no attempt of a lone call is spent on a key that refused it; every call ends |
| Experiment runner (`runner/run_experiment.py`) | semaphore, tasks, thread pool, log | create, admit, execute, complete, exit | the pool is smaller than the semaphore; every exception becomes a log line; a request may raise before it has logged anything of its own | the run ends, each request is completed once |
| Metrics parser (`parser/metrics_parser.py`) | counters and dictionaries over the log | one branch per event type, worker times at the end | several events of one type per request; ids that several threads share; starts without an end | the counters and durations say what their names say |
| Failure injection (`core/failure_injection.py`) | the configured target | `check_crash`, `get_effective_latency` | a target that no thread has the id of | crash exactly at the target |
| Logger, null logger, log schema (`core/logger.py`, ...) | one instance per name, the log file | construct, one writer per event | which thread writes when | the events of a thread come in the order of its code |
| Configuration loader (`core/config.py`) | none | parse | defaults | not modelled: pure parsing |
| Batch runners (`runner/*.py`, `run_task_b_scaling.py`) | list of finished runs, summary file | run a subprocess per configuration, parse all logs, report | a failed run, a lost run id, an interrupted batch, a log that is elsewhere | the summary has each run that counts, once, in order |
| Log analyzers (`analyzer/data_extractor.py`, `analyzer/swarm_bottleneck_analyzer.py`) | a record per worker, a set of busy agents, open inferences | one branch per event type | the same events as the parser's, counted another way | they agree with the parser and with what the workers did |
| Other analyzers, plots, reports, mock LLM | files | compute, plot, serve | none of state | not modelled: arithmetic over finished files, a stateless handler |

How they interact: the runner draws a crash target, creates the requests and
runs `execute()` of the configured architecture for each of them on a thread of
the event loop's default pool.  `execute()` starts threads or a pool of its own
for that one request; these call the workload adapters, which call the LLM
client.  The LLM client's key manager and the logger are the only state that
requests share.  All components write to the log, which the parser reads after
the run, the analyzers after the parser.

## 2. Plan

Done, in this order:

1. `MapReduce`, `Chain`: what a Task A and a Task B request promise whatever the
   architecture.  Every architecture module implements one of them.
2. `QueueMapReduce`, the concurrent core of the program, and its proofs.
3. `QueueChain`.
4. `DirectMapReduce` (Task A) and `Handoff` (Task B), each for the three
   architectures without a broker.
5. `LLMClient`, the state shared by all requests.
6. `Requests`, the runner with its log and the request metrics of the parser.
7. `TaskASplit`, the split of an article, which `DirectMapReduce` uses.
8. `Batch`, the thirteen batch scripts over runs, parsers and reports.
9. `EventLog`, what the workers write, and `LogReaders`, what the parser and two
   analyzers make of it.
10. Proofs about `DirectMapReduce`, `Handoff`, `QueueChain`, `Batch` and
    `Requests`, and of `DuplicateBound` and `GivesUpForALostChunk`.
11. Proofs about `LLMClient`, about `EventLog` with most of `LogReaders`, and of
    what a request makes of the paragraphs of an article.
12. Proofs about the sums of `LogReaders` (`ToolsAgree`, `BusyTrue`,
    `InferenceTrue`), and of the safety the liveness properties rest on: every
    invariant of a passing run is a theorem.

Next:

13. The logger singleton; the reproducibility check, which runs experiments too.
14. A composition of `Requests` with two `QueueMapReduce` requests over one
    `LLMClient`, to count leaked threads over a run.

## 3. The modules

`MapReduce` and `Chain` are the abstract specifications.  A request gathers
summaries, each once, and answers only with all of them; or it advances a chain
step by step and answers only with a complete one.  It may fail at any time and
is decided in the end.

`QueueMapReduce` has the state of one `execute()` call: `opc` is the line the
orchestrator is at, `toPut` what is left of the publishing loop it is in,
`pending` and `results` are `pending_chunks` and `results`, `taskQ` and `resQ`
the broker's queues, `wpc` and `held` the workers.  A worker tests the stop
event, polls, takes a message and dies or delivers in separate actions, since
other threads act between them.  A dead worker keeps `held`: the code has lost
that message, and the invariant can say so.  A task id is the chunk with a
retry flag.  Log calls, latencies and the text of the summaries are left out.

Time is abstracted in `Timeout`.  When no answer can come any more (`Quiet`) the
timeout may always fire; when an answer is merely slow it may fire too, at most
`MaxEarly` times.  Early timeouts are real: the LLM client alone may sleep
4 + 4 + 4 + 8 seconds in one call, twice the wait of the orchestrator.

`QueueChain` is the other branch of the same functions.  A state of the chain
is its `current_step`, because the other fields follow from it.  The number of
steps is drawn per run: `process_step` looks whether the chain is complete only
after a step, so a chain of no steps takes one all the same.  `SlowChain`
allows the thirty-second wait to run out while the chain is alive, which
`reports/final_report.md` (line 24) reports from the experiments.

`DirectMapReduce` is the Task A branch of the architectures without a broker.
In the two with a pool the request's thread submits one future per chunk, the
pool runs them in order on anonymous threads, and the request's thread takes
them as they complete (master-worker) or in order (swarm).  Leaving the `with`
block waits for all futures (`Drained`); the pool is the library's, modelled
from its use.  The monolithic loop has no pool and skips the chunks of a crash
(`ProcessChunk`, `Crashed`): it returns, but its `Outcome` is then a failure.

`Handoff` is the Task B branch of the same three, where one thread walks the
chain.  The monolithic loop leaves early on a crash, and its `Outcome` is then a
failure, whatever is logged.  In both modules the variable `config` is the
configuration of the run: architecture, number of workers, crash target and, in
`Handoff`, number of steps; `Turns` are the turns of a loop that nothing cuts
short.  Both take the dataset to be readable and their input to be accepted; the
exceptions before that are in `Requests`.

`LLMClient` is `generate_content` called by several threads: the lock of the key
manager makes `get_client` and `rotate_key` atomic, and the attempt between them
is not.  The service is external: it refuses exhausted keys and may be
overloaded or fail.  Quotas do not change during the calls of a run.  `callers`
are the threads of the run that make calls, `key_count` the keys its environment
holds; `refusals` is a history variable, the attempts of a call that ended with a
429.

`Requests` is `execute_all_requests` with the log of request events.  What
`execute()` does is reduced to the event it logs at its start (all architectures
but the monolithic one), to the event of an orchestrator whose workers are all
dead, and to how it ends; what of this may happen depends on `architecture`.  The
master and the first agent announce themselves only after they have read and
split the dataset, built the routing table or found that they do not know the
type of the task, and no value of the configuration is checked before; so a
request of theirs may raise with no event of its own (`RaiseEarly`).  The last
section computes what `compute_metrics` makes of the log.

`TaskASplit` is `split` as a function: a paragraph is its index, an article the
number of its paragraphs.  `split` draws an article at random for each request,
and no step of a request depends on which; so it is not part of the state of
`DirectMapReduce`, whose properties are about every article of `ArticleSizes`.

`Batch` is the thirteen scripts that run experiments: a script is a record of
what it does about a failed run, of where it looks for the logs and of the
report it makes, and everything else is the same loop.  A run is a subprocess
that ends in one of four ways, told apart by the exit code and by whether the
line with the run id got out.  Two of the scripts look for the logs where the
runner no longer writes them (`Located` is false for them): they parse nothing, and
`BatchMoved` shows what one of them says all the same.  The configurations and their iterations are
numbered through.  `unparsed` is a history variable.

`EventLog` is what the workers of all architectures write while they work.  A
job is one pass of the worker code over one message, chunk or aggregation.  Log
calls that follow each other in one thread, with nothing in between that waits or
that another thread can see, are one step; so a log is cut short between two steps
of its threads, and not between any two events.  A queue worker puts its answer on
the result queue before it logs the end of the inference (`Answer`, then `Leave`),
and the orchestrator may log the end of a retry in between; in which order the
answers of two threads were put is known only as far as their log calls tell
(`FirstAnswer`).  A thread may also begin when other requests are under way (`late`
of a scenario).  The clock may tick wherever a worker sleeps, waits for the LLM or
for a message.  The log names ids and the model knows the job, so that the properties can compare
what is read from the log with what happened.  A scenario is an architecture, a
crash target and a list of jobs with their requests, chunks and worker ids, and
`horizon` bounds its clock.  A request has each of its chunks and its aggregation
once (`ConstantsAssumption`), since `split` numbers the chunks; a chunk may be
published again any number of times.

`LogReaders` extends it with what three programs compute from the log: the
durations, active workers (the counter behind `max_active_workers`, not its
maximum) and worker times of the parser, the worker states of
`data_extractor.py`, the busy agents and the inference time of
`swarm_bottleneck_analyzer.py`; `ReadThrough` is the loop over the sorted events.
The properties say where these are the truth (`ExecutionsTrue`), where they can only be too small and when they are exact
(`BusyTrue`, `InferenceTrue`), and which measurements are missing or mixed up
(`WaitsTrue`, `RetryDelays`).  These deviations are properties and not findings:
no document of the repository promises otherwise.

Each `...Proofs` module extends the module it is about.

The `MC` modules only give names to sets of model values and bounds.  An
operator named after another one with a suffix (`Counts_RetryAlways`) is a
variant with a plausible bug; replacing the original by it must make the
property named in `PROJECT.json` fail.

## 4. The runs

| Run | Question | Result |
|---|---|---|
| `QueueFaults` | three workers, two chunks, every crash target, failing LLM calls, one early timeout: is anything lost, counted twice, published in vain, left running, undecided? is one surviving worker enough? does the orchestrator give up only when a dead worker really took a chunk with it? | holds |
| `QueueLeak` | do the workers end however the request ends? | violated: not when the orchestrator is the crash target |
| `ChainFaults` | a chain of no step, one and three: is it in one place, in order, decided, and do the workers of a request that returned stop? | holds |
| `ChainSuccess` | does a request that returns have an answer? | violated: not when a crashed worker took the chain with it |
| `DirectFaults` | do the architectures without a broker implement the abstract request, is an answer made from every paragraph once and in order, what do they leave behind, which crash targets decide them? | holds |
| `HandoffSteps` | with four steps, one and none: do the single-threaded loops implement the chain, are handoffs as announced, which crash targets decide them? | holds |
| `LLMCalls` | does every call end, does a lone caller waste an attempt on a key that refused it, do concurrent refusals cost a call more than one attempt? | holds |
| `RequestsLog` | what do `completed_requests` and the latencies measure, early exceptions included; does the run end? | holds |
| `RequestsRate` | is `completed_requests / total_requests` a success rate? | violated: failed requests are completed too |
| `BatchRuns` | for each batch script, whatever its runs and parsers do: which runs have a row in the summary, in which order, is the script's last line true, and does the batch end? | holds |
| `BatchMoved` | does the Phase 2A script parse the runs it completed before it says that the summary is generated? | violated: it looks where the logs no longer are |
| `LogReaders` | do the programs that read the log agree with each other, and which of their times are those of the workers, under crashes, LLM exceptions, retries, late threads and concurrent requests? | holds |

The violated properties state what a comment or a document of the repository
says; `PROJECT.json` quotes each under `findings`.

**Bounds.** Two chunks are the least with which a message of one worker races a
retry taken by another; the third worker leaves two after the injected crash.
One early timeout makes every kind of duplicate (both copies queued, one held,
both answered).  The code bounds neither the early timeouts nor the copies;
`DuplicateBound` says that each such timeout adds one copy at most, and its theorem
says so for any number of them.
Pools and chains have fewer workers than chunks or steps, and more, since the
round robin reaches only some workers in the second case; both are
configurations of one run.  So are chains of one step and of none, the two ends of
the loops (none in the swarm, which cannot begin one).  The monolithic loop has one worker id whatever
`worker_count` says, and is configured with one and with two.  The articles of
`DirectFaults` have 0 to 7 paragraphs for three chunks: none, fewer than chunks,
and more, with each remainder.  `LLMCalls` scales the five attempts of the code
down to three, and its up to nine keys to two and four: with two the rotation
wraps around within a call, with four a call gives up while keys are left, and
there are more keys than callers.  `RequestsLog` has
a semaphore larger than the pool, as the defaults of the code are, and one log
per kind of architecture.  `BatchRuns` has three runs per batch: one may fail
between two that complete, and the rows before and after it are told apart.
`LogReaders` has two jobs per scenario where two suffice: two chunks of a
request on one id or on two, one chunk of two requests on the same id, or of one
request beside a thread that begins late, a chunk and its retry; three for a second retry, four for two requests that aggregate.
The clock goes to 1 or 2: one tick makes any two points of the log differ in
time, two put time before and after an event in between.  For two requests with
a queue each it stands still, since the orders alone are many: what depends on them
(`ActiveMeansWorking`, the keys) is checked there, and what time makes of an id that
two threads share in the other scenarios, a queue with a late thread among them.  A run that is cut
short at the horizon is a log like any other, and the readers are applied after
each step of a thread.

**Fairness.**  All liveness properties assume weak fairness of each thread (the
orchestrator or request thread, each worker, the pool, the event loop).  The
interpreter schedules every runnable thread, and each blocking call of the code
has a timeout or is answered: `queue.get` times out, an LLM call returns or
raises after at most five attempts (`EveryCallEnds`), and locks are held over a few
assignments.  No fairness is assumed between the outcomes of a step: an LLM call
that may fail may always fail.  Fairness is per thread and not per action.  In
`Batch` the script and its subprocess are the threads; a run ends because of
`RunEnds`, and an interruption is never owed.

## 5. The proofs

All theorems are about the safety part of a specification (`SafeSpec`; the `Spec`
of `EventLog` has no other), for all values of the constants that satisfy the
module's `ConstantsAssumption`.  The type invariants of `QueueChain`, `Handoff`,
`Requests` and `Batch` are proved and therefore no run checks them.

`QueueMapReduceProofs`, for any set of workers, also an infinite one, any
positive number of chunks, any targets and any `MaxEarly`:

- `TypeCorrect`: `[]TypeOK`.  `TypeOK` is not inductive, since a worker
  delivers what it holds: the invariant `TypeInv` adds that a worker that is
  handling holds a message (`HeldWhileHandling`).
- `EachSummaryOnce`: `[]CollectedOnce`.  The strengthening `CollectedInv` adds
  what each phase of the orchestrator knows of `toPut`, `pending` and `results`
  (`PhaseInv`): before the split nothing, in the loops that `toPut` is a part of
  `pending`, at the aggregation that nothing is pending.
- `NoChunkLost`: `[]ChunkAccounted`, with lemmas on where a chunk is after an
  element is appended to or taken from a queue.
- `NoRepublication`: the action property `NoWorkForCollected`, from the same
  invariant and from lemmas that count the copies of a chunk in a queue.
- `BoundedDuplicates`: `[]DuplicateBound`, the number of copies of a chunk
  relative to the timeouts: one and one for each early one, and one more when all
  workers are dead.  `BoundInv` adds that finitely many workers are
  handling, without which the copies cannot be counted, and that there is
  nothing before the request starts.  One lemma says that no worker makes a
  copy, another that a step of the orchestrator makes at most as many as
  the bound grows by.
- `GivenUpForLost`: `[]GivesUpForALostChunk`.  `LostInv` adds that, without early
  timeouts, a gathered chunk has no copy left, so that with `BoundInv` the message
  of the last death is the only copy of an awaited chunk; and that it stays lost,
  since no worker is left to answer.
- `Implementation`: `SafeSpec => MR!SafeSpec`, each action being a `Gather`, an
  `Answer`, a `Fail` or a stutter of `MapReduce`.
- `OnlyDeathPreventsIt`, the safety half of `OneSurvivorEnough`: a request that is
  over has every summary, or its workers died.  The orchestrator gives up only when
  no worker is left (`LostInv`), and none leaves its loop before `stop` (`EndedBy`).
- `StopHeard`, the safety half of `ReturnStopsWorkers`: a returned request has set
  `stop`, for good, and every step of a worker is nearer to its end from then on.

`DirectMapReduceProofs`, for any configurations:

- `TypeCorrect`, `NoThreadLeftBehind` (`NoWorkAfterRequest`) and `Implementation`
  (`SafeSpec => MR!SafeSpec`), from one invariant.  `Submission` says which chunks
  each phase of the request has submitted, `Pool` that a future that is not over
  has a request that goes on, `Gathered` that the results are those of finished
  chunks, each once, and `Ordered` that those of the swarm and of the loop are the
  smallest numbers in order.  The last two need the first: only a chunk that was
  submitted is ever in a result.
- `ArticleSummarised` (`EachParagraphOnce`) and `AggregatedInOrder`
  (`OrderOfTheText`) join the request and `split`, for every article and number of
  chunks: the aggregation is given the summary of each chunk once (`AllGathered`),
  and each paragraph is in one chunk, in order (`EveryParagraph`, `ChunksApart`),
  from the two inequalities of integer division and the monotonicity of
  multiplication.
- `CrashNotSurvived`, the safety half of `CrashDecides`: the target has a chunk
  (`ChunkOfTarget`), no summary is made of it (`NothingFromTarget`), and an answer
  needs it.
- `SomeoneGoesOn` and `OnlyForward`: until the request is over, its thread or the
  pool has an action whose guard holds, and each step uses up one of 4n + 4.
  `Unfinished` says what the loops have left to do; in the swarm, a future that is
  waited for is over as soon as the pool has nothing to run.

`QueueChainProofs`, for any set of workers and any length:

- `TypeCorrect`, `NeverForked` (`OneChain`) and `Implementation`
  (`SafeSpec => CH!SafeSpec`).  `OneChain` counts and is not inductive;
  `OnePlace` says where the one message is, and that nothing is anywhere else.
- `StopHeard`, as for `QueueMapReduce`.

`HandoffProofs`, for any configurations and length:

- `TypeCorrect`, `AnnouncedNext` (`HandoffHonoured`) and `Implementation`
  (`SafeSpec => CH!SafeSpec`).  `Walk` ties the step counter to the state and the
  announced agent to the one the counter leads to.
- `CrashNotSurvived`, the safety half of `CrashDecides`, and `RunsOut`, a bound of
  2n + 2 on the steps of the thread for n turns.  `NeverPast` keeps the chain before the turn of
  the crash target.

`RequestsProofs`, for any number of requests, permits and threads:

- `TypeCorrect`; `CompletedIsOver` (`CompletedCounted`): the completed requests
  are those that are over and those whose orchestrator reported dead workers;
  `OneLatencyBasis` (`LatencyBasis`): a latency is counted from `execute()`'s own
  receipt if and only if the request has one, and those of all successes of a run
  from the same kind of receipt; a request that raised early has only the runner's.
  A property of the log is not inductive by itself: `Receipts`
  says how many receipts of which kind the log has at each point of a request,
  and in which order, `CompletionsFollow` that a completion comes after them, and
  `DoneLogged` that the runner has logged one per request that is over.
- `SomeoneGoesOn` and `OnlyForward`: permits and threads are never all held by
  requests that wait, and no request is run again.

`BatchProofs`, for any of the scripts and any number of runs:

- `TypeCorrect`, `RowsInOrder` (`RowsOfRuns`) and `LastLineTrue`
  (`ClosingLineTrue`, for the scripts that look where the logs are).  `Rows` keeps the rows, the runs to be parsed and the runs
  to come in this order; `Kept` follows a completed run until it has a row.
- `SomeoneGoesOn` and `OnlyForward`: a script waits only for a run it has started,
  and starts none again.

`LLMClientProofs`, for any finite set of threads, any numbers of keys and attempts
and any quotas:

- `TypeCorrect` (`TypeOK`), with `Progress`: what a thread knows of its own call.
- `GivesUpLast` (`GivesUpOnlyWhenExhausted`).  `Alone` says that the keys a lone
  caller was refused by are those last left behind, as many as it was refused;
  `Behind` counts the rotations since a key was the current one.  At the last
  attempt these are all keys, or as many as there are attempts.
- `RefusedOnce` (`OneRefusalAtMost`).  Each rotation past the exhausted key is paid
  for by a thread that held it: in `Rotation`, the threads that have yet to move on
  from that key and the distance of the current key from it are together at most
  the number of callers, which is less than the number of keys.
- `CallsRunOut`: a call has at most 3 `MaxAttempts` + 1 steps, and the steps of other
  threads, rotations included, leave it where it is.

`LogReadersProofs`, for any scenarios: any number of requests, chunks, workers and
retries, and any horizon:

- `TypeCorrect` (`TypeOK`, with the order of the log in time).
- `WaitsMeasured` (`WaitsTrue`), `ExecutionsMeasured` (`ExecutionsTrue`) and
  `DelaysMeasured` (`RetryDelays`).  The log only grows: lemmas say what each step
  appends.  `Origin` says where the job of an event is by now, `Started` which
  events a job at its place must have, `Paired` that what ends has begun, and `Once`
  that no job begins twice and no chunk has two retries that end.
- `ActiveCounted` (`ActiveMeansWorking`).  The dictionary of the parser is a fold
  over the log.  `FoldRun` turns the fold into a run of counts, one per prefix of
  the log, so that appending an event adds one count; `Counted` is then inductive.
  The count of an id is twice the number of its jobs at work and once that of the
  jobs answered and not yet left, and no end finds it at zero, which the code would
  pass over silently.
- `TimesAgree` (`ToolsAgree`).  The three programs go different ways through the
  log, and all are compared with one description: what each of them holds after the
  k-th line, in terms of the times the states of each worker have lasted up to that
  line (`TimeTo`).  `Extracted` and `Followed` say so of the two folds, `TimeAtEnd`
  of the parser's sum over intervals.  The weighted number of busy agents is the sum
  over the workers because at each line the busy agents are the workers whose last
  state is "busy"; and the states share out a worker's time because it is in one of
  them from its first line on (`Shared`).
- `BusyReported` (`BusyTrue`).  A "busy" line counts until the next line, of its
  worker id for the parser and of its job in truth (`UpTo`).  The lines of the job
  are among those of the id (`NextOfJob`, `NextOfWorker`), so the parser counts no
  longer than is true; `SumParts` sums the lines job by job.  When the id stands for
  one job at a time its next line is the job's (`AloneNext`).  `Settled` is needed
  here: a job that is over, and not lost, has written its "idle" line.
- `InferencesReported` (`InferenceTrue`).  `Pending` are the starts the analyzer
  still holds, the last one of each task id; an end closes the one of its id, and no
  start is closed twice (`CloseOnce`), so that what it adds up are different calls,
  none of them for longer than it took.  With distinct task ids the start an end
  closes is that of its own job (`OwnEnd`).

These three compute with sums over sets of lines, of jobs and of workers.
`SumFunction` of the community modules folds over a set in an order it chooses.
`SumsExist` and `SumsAny` show that the fold exists and that the order does not
matter; from these follow that one more index adds one term (`SumAdd`), and that
sums are monotonic (`SumGrows`) and add up over disjoint parts (`SumUnion`,
`SumParts`).

Induction is over sets throughout.  The library's theorems on induction take an
operator as a parameter, which no prover at hand can instantiate; `AllNumbers` and
`AllSubsets` say the same of the set of numbers, or of subsets of a finite set, for
which a formula holds, and follow from `WFMin`.

Only model-checked: the liveness properties `ReturnStopsWorkers`, `EveryCallEnds`,
`RunEnds`, `BatchEnds`, `OneSurvivorEnough` and `CrashDecides`, and the progress half
of the refinements, "a request is decided in the end".  The provers have no rule for
fairness and `ENABLED`.  What they rest on is proved: that nothing else than what
they promise can be the end (`CrashNotSurvived`, `OnlyDeathPreventsIt`), that every
step uses up one of finitely many (`OnlyForward`, `RunsOut`, `CallsRunOut`,
`StopHeard`), and that there is always a guard that holds (`SomeoneGoesOn`).  What is
left to TLC is the step from such a guard to `ENABLED`, and from there with weak
fairness to the end.  For `OneSurvivorEnough` it is more: the workers of the queue
poll, so that no bound on steps exists, and that a chunk published again is
summarised in the end is only checked.

## 6. Not modelled

Configuration parsing, directories and metadata (I/O without state); wording of
prompts and reports; latencies and jitter (only their order matters, and every
order is allowed); the dispatch times, queue depths, profiling, means and
quantiles of the parser; the logger singleton and its handlers;
`reproducibility_check.py`; the other analyzers and plots, which compute over
finished files; the mock LLM server, which no architecture calls.  A chunk count
of zero is excluded for `DirectMapReduce`, and for the swarm of `Handoff`, which
raises a `KeyError` at `swarm/executor.py:67` or 141 (`RaiseEarly` of `Requests`).
An environment without
any API key is excluded from `LLMClient`.

What was met while modelling and is no property, because it needs no
interleaving and no sequence of steps to show:

- `analyzer/failure_analyzer.py:50` searches the log for text without the space
  that `json.dumps` writes after a colon, so it finds no crash.
- `runner/run_all_experiments.py:19` names crash targets (`monolithic-1`,
  `worker-2`) that are the ids of no worker, so those runs have no crash.
- `runner/failure_run_phase2c.py:95` sets `combined_mode` and
  `straggler_target_id`, which nothing reads.
- `architectures/swarm/executor.py:114` catches `CrashSimulationError` without
  importing it.
