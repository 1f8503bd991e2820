------------------------------ MODULE EventLog ------------------------------
(***************************************************************************)
(* What the workers of a run write to events.jsonl, through core/logger.py, *)
(* while they work: the queue workers of architectures/queue_based, the    *)
(* pool tasks of architectures/master_worker and architectures/swarm, and  *)
(* the loop of architectures/monolithic.                                   *)
(*                                                                         *)
(* A JOB is one pass of that code over one message or chunk, or the        *)
(* aggregation where it has a worker's id.  The log names the worker by    *)
(* its id, and an id is not a thread: the concurrent requests of a run     *)
(* have the same ids, and a pool runs two chunks of one id at a time.      *)
(* Which job an event comes from is known here and not to those who read   *)
(* the log (LogReaders).  What the orchestrator and the master report of   *)
(* themselves has ids of its own and is left out.                          *)
(*                                                                         *)
(* Time is a counter and passes while a worker sleeps (it always does,     *)
(* get_effective_latency is never 0), waits for the LLM or for a message.  *)
(* Log calls that follow each other in one thread, with nothing between    *)
(* them that waits or that another thread can see, are one step: a log is  *)
(* cut short between the steps of its threads, not between any two events. *)
(***************************************************************************)
EXTENDS Naturals, Sequences, FiniteSets, SequencesExt

CONSTANT Scenarios   \* an architecture, a crash target and the jobs of a run, the
                     \* queue threads that begin when it is under way, and how
                     \* far the clock goes, a BOUND of the model

Architectures == {"queue_based", "master_worker", "swarm", "monolithic"}

\* A job: its request, its task, whether that is a chunk, a chunk that a timeout
\* published again, or the aggregation, and the worker that does it.  A request
\* has each of its chunks and its aggregation once, besides the retries.
Jobs == [trace : Nat, task : Nat, kind : {"chunk", "retry", "aggregation"},
         worker : Nat \ {0}]

ASSUME ConstantsAssumption ==
  \A s \in Scenarios :
    /\ s.architecture \in Architectures
    /\ s.target \in Nat /\ s.horizon \in Nat
    /\ s.jobs \in Seq(Jobs)
    /\ s.late \subseteq Nat \X (Nat \ {0}) /\ IsFiniteSet(s.late)
    /\ \A j \in DOMAIN s.jobs :
         /\ s.jobs[j].kind = "retry" => s.architecture = "queue_based"
         /\ s.jobs[j].kind = "aggregation" => s.architecture \in {"swarm", "monolithic"}
    /\ \A i, j \in DOMAIN s.jobs :
         /\ s.jobs[i].trace = s.jobs[j].trace /\ s.jobs[i].task = s.jobs[j].task
         /\ s.jobs[i].kind = s.jobs[j].kind /\ s.jobs[i].kind # "retry"
         => i = j

VARIABLES
  scenario,   \* the scenario of the run
  now,        \* the clock
  phase,      \* where each job is
  announced,  \* the jobs with a QUEUED event
  awake,      \* the queue threads, as request and worker, that have begun
  leaving,    \* the jobs of queue threads that have put their answer on the
              \* result queue and not yet logged that they have ended
  log         \* the events

vars == <<scenario, now, phase, announced, awake, leaving, log>>

JobIds == DOMAIN scenario.jobs
Job(j) == scenario.jobs[j]
Retry(j) == Job(j).kind = "retry"
Aggregation(j) == Job(j).kind = "aggregation"
Workers == {Job(j).worker : j \in JobIds} \cup {t[2] : t \in scenario.late}
Thread(j) == <<Job(j).trace, Job(j).worker>>

\* A queue thread may be there and never have a job.
Threads == {Thread(j) : j \in JobIds} \cup scenario.late

Queue == scenario.architecture = "queue_based"
Pool == scenario.architecture \in {"master_worker", "swarm"}
Monolithic == scenario.architecture = "monolithic"

States == {"busy", "idle", "blocked"}
EventTypes == {"QUEUED", "DEQUEUED", "WORKER_CRASH", "INFERENCE_START", "INFERENCE_END",
               "EXECUTION_START", "EXECUTION_END", "RETRY_START", "RETRY_END",
               "AGGREGATION_START", "AGGREGATION_END"}

AtWork == {"blocked", "answering"}
Lost == {"crashed", "raised"}
Ended == Lost \cup {"answered", "received"}

\* A worker is at the job.
Working(j) == phase[j] \in AtWork \/ j \in leaving

\* Nothing but the clock moves any more.
Over == (leaving = {} /\ \A j \in JobIds : phase[j] \in Ended) \/ now = scenario.horizon

\* NoJob writes the first event of a queue thread.
NoJob == 0

\* A WORKER_STATE event is told from the others by its state.
TypeOK ==
  /\ scenario \in Scenarios
  /\ now \in 0 .. scenario.horizon
  /\ phase \in [JobIds -> {"new", "queued"} \cup AtWork \cup Ended]
  /\ announced \subseteq JobIds
  /\ awake \subseteq Threads
  /\ leaving \subseteq JobIds
  /\ \A i \in DOMAIN log :
       /\ log[i].at \in 0 .. now
       /\ log[i].job \in JobIds \cup {NoJob}
       /\ log[i].worker \in Workers
       /\ log[i].what \in EventTypes \cup States
       /\ i > 1 => log[i - 1].at <= log[i].at

Line_RoundedUp(j, w, what) == [at |-> now + 1, job |-> j, worker |-> w, what |-> what]
Line(j, w, what) == [at |-> now, job |-> j, worker |-> w, what |-> what]

\* All queue threads but the late ones have begun: those of a later request begin
\* while the others are at work.
Init ==
  /\ scenario \in Scenarios
  /\ now = 0
  /\ phase = [j \in JobIds |-> "new"]
  /\ announced = {}
  /\ leaving = {}
  /\ awake = IF Queue THEN Threads \ scenario.late ELSE {}
  /\ log = [i \in 1 .. Cardinality(awake) |-> Line(NoJob, SetToSeq(awake)[i][2], "idle")]

\* The events, in this order.
Write(j, events) ==
  log' = log \o [i \in 1 .. Len(events) |-> Line(j, Job(j).worker, events[i])]

Move(j, to) == phase' = [phase EXCEPT ![j] = to]

Earlier(j) == {i \in JobIds : i < j /\ Job(i).trace = Job(j).trace}

-----------------------------------------------------------------------------
(* The orchestrator, the master or the first agent. *)

\* A chunk is published again only as long as its summary is awaited.
Awaited(j) ==
  \A i \in JobIds : ~(/\ Job(i).trace = Job(j).trace /\ Job(i).task = Job(j).task
                      /\ phase[i] = "received")

\* A message is put on the task queue, a chunk submitted to the pool, in the
\* order of the jobs; the queue's QUEUED event comes after the put.
Publish(j) ==
  /\ ~Monolithic /\ ~Aggregation(j) /\ phase[j] = "new"
  /\ \A i \in Earlier(j) : i \in announced
  /\ Retry(j) => Awaited(j)
  /\ Move(j, "queued")
  /\ Write(j, IF Retry(j) THEN <<"RETRY_START">>
              ELSE IF Queue THEN <<>> ELSE <<"QUEUED">>)
  /\ announced' = IF Queue THEN announced ELSE announced \cup {j}
  /\ UNCHANGED <<scenario, now, awake, leaving>>

Announce(j) ==
  /\ Queue /\ j \notin announced /\ phase[j] # "new"
  /\ Write(j, <<"QUEUED">>)
  /\ announced' = announced \cup {j}
  /\ UNCHANGED <<scenario, now, phase, awake, leaving>>

Retried(j) ==
  \E i \in JobIds : Retry(i) /\ Job(i).trace = Job(j).trace /\ Job(i).task = Job(j).task

\* The orchestrator takes an answer off the result queue: a retry ends when its
\* answer is the first one for the chunk.  The answer for a chunk that is never
\* published again leaves no trace, so its collection is left out.
EndOfRetry_Always(j) == IF Retry(j) THEN <<"RETRY_END">> ELSE <<>>
EndOfRetry(j) == IF Retry(j) /\ Awaited(j) THEN <<"RETRY_END">> ELSE <<>>

\* Answers are taken in the order they were put on the result queue, each somewhere
\* between the two ends that its thread logs.
EndAt(j, what) == CHOOSE k \in DOMAIN log : log[k].job = j /\ log[k].what = what
FirstAnswer(j) ==
  \A i \in JobIds : /\ Job(i).trace = Job(j).trace
                     /\ Retried(i) /\ phase[i] = "answered" /\ i \notin leaving
                     => EndAt(j, "EXECUTION_END") < EndAt(i, "INFERENCE_END")

Collect(j) ==
  /\ Retried(j) /\ phase[j] = "answered" /\ FirstAnswer(j)
  /\ \A i \in JobIds : Job(i).trace = Job(j).trace /\ phase[i] # "new" => i \in announced
  /\ Write(j, EndOfRetry(j))
  /\ Move(j, "received")
  /\ UNCHANGED <<scenario, now, announced, awake, leaving>>

-----------------------------------------------------------------------------
(* The workers. *)

\* A queue thread says that it is idle before it looks at the queue.
Wake(t) ==
  /\ Queue /\ t \notin awake
  /\ log' = Append(log, Line(NoJob, t[2], "idle"))
  /\ awake' = awake \cup {t}
  /\ UNCHANGED <<scenario, now, phase, announced, leaving>>

\* Messages and futures are taken in order.  A queue thread does one job after
\* the other until it dies; the pool has a free thread for every job; the
\* monolithic loop goes on after a crash, and not after an exception.
Free(j) ==
  IF Monolithic
  THEN /\ phase[j] = "new" /\ ~Aggregation(j)
       /\ \A i \in Earlier(j) : phase[i] \in Ended \ {"raised"}
  ELSE /\ phase[j] = "queued"
       /\ \A i \in Earlier(j) : phase[i] # "queued"
       /\ Queue => /\ Thread(j) \in awake
                   /\ \A i \in JobIds : Thread(i) = Thread(j) =>
                        ~Working(i) /\ phase[i] \notin Lost

Begins == IF Queue
          THEN <<"DEQUEUED", "INFERENCE_START", "busy", "EXECUTION_START", "blocked">>
          ELSE IF Pool
          THEN <<"busy", "DEQUEUED", "INFERENCE_START", "EXECUTION_START", "blocked">>
          ELSE <<"busy", "INFERENCE_START", "EXECUTION_START", "blocked">>

\* The job is taken, and the worker sleeps for its latency.
Begin(j) ==
  /\ Free(j) /\ Job(j).worker # scenario.target
  /\ Write(j, Begins)
  /\ Move(j, "blocked")
  /\ UNCHANGED <<scenario, now, announced, awake, leaving>>

Crashes == IF Queue THEN <<"DEQUEUED", "WORKER_CRASH">>
           ELSE IF Pool THEN <<"busy", "DEQUEUED", "WORKER_CRASH">>
           ELSE <<"busy", "WORKER_CRASH", "idle">>

\* The injected crash, before anything is begun.
Crash(j) ==
  /\ Free(j) /\ Job(j).worker = scenario.target
  /\ Write(j, Crashes)
  /\ Move(j, "crashed")
  /\ UNCHANGED <<scenario, now, announced, awake, leaving>>

\* After the sleep comes the call of the LLM.
Call(j) ==
  /\ phase[j] = "blocked"
  /\ Write(j, <<"busy">>)
  /\ Move(j, "answering")
  /\ UNCHANGED <<scenario, now, announced, awake, leaving>>

Answers_NoEnd(j) == <<"EXECUTION_END", "idle">>
Answers(j) == IF Aggregation(j) THEN <<"AGGREGATION_END", "idle">>
              ELSE IF Queue THEN <<"EXECUTION_END">>
              ELSE <<"EXECUTION_END", "INFERENCE_END", "idle">>

\* The job is done; a queue thread puts the answer on the result queue.
Answer(j) ==
  /\ phase[j] = "answering"
  /\ Write(j, Answers(j))
  /\ Move(j, "answered")
  /\ leaving' = IF Queue THEN leaving \cup {j} ELSE leaving
  /\ UNCHANGED <<scenario, now, announced, awake>>

\* It logs the end of the job when the answer may have been taken already.
Leave(j) ==
  /\ j \in leaving
  /\ Write(j, <<"INFERENCE_END", "idle">>)
  /\ leaving' = leaving \ {j}
  /\ UNCHANGED <<scenario, now, phase, announced, awake>>

\* The aggregation calls the LLM too, once the chunks are done: the swarm needs
\* all of them, the monolithic loop has skipped those of a crash.
Aggregate(j) ==
  /\ Aggregation(j) /\ phase[j] = "new"
  /\ \A i \in Earlier(j) : \/ phase[i] = "answered"
                           \/ Monolithic /\ phase[i] = "crashed"
  /\ Write(j, <<"busy", "AGGREGATION_START">>)
  /\ Move(j, "answering")
  /\ UNCHANGED <<scenario, now, announced, awake, leaving>>

\* The LLM call raises: nothing is logged, and nothing else of the job either.
Raise(j) ==
  /\ phase[j] = "answering"
  /\ Move(j, "raised")
  /\ UNCHANGED <<scenario, now, announced, awake, leaving, log>>

JobStep(j) == \/ Publish(j) \/ Announce(j) \/ Collect(j)
              \/ Begin(j) \/ Crash(j) \/ Call(j) \/ Aggregate(j) \/ Answer(j) \/ Leave(j)
              \/ Raise(j)

\* The clock starts with the log.
Tick ==
  /\ now < scenario.horizon /\ log # <<>> /\ ~Over
  /\ now' = now + 1
  /\ UNCHANGED <<scenario, phase, announced, awake, leaving, log>>

Next == \/ \E j \in JobIds : JobStep(j)
        \/ \E t \in Threads : Wake(t)
        \/ Tick
        \/ (Over /\ UNCHANGED vars)

Spec == Init /\ [][Next]_vars
=============================================================================
