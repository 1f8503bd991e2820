-------------------------- MODULE DirectMapReduce --------------------------
(***************************************************************************)
(* One Task A request in the three architectures without a broker:         *)
(* architectures/master_worker/executor.py, which has a master that may    *)
(* crash, runs the chunks on a concurrent.futures.ThreadPoolExecutor of    *)
(* worker_count threads and takes the results as they complete;            *)
(* architectures/swarm/executor.py, which has no master and takes them in  *)
(* the order of the chunks; and architectures/monolithic/executor.py,      *)
(* which runs the chunks itself, one after the other, and skips those of a *)
(* crash.                                                                  *)
(*                                                                         *)
(* A worker or agent is a number written on a chunk when it is submitted,  *)
(* round robin; the pool's threads are anonymous, and any of them runs the *)
(* chunk.  The executor itself is not part of the repository: submitted    *)
(* futures start in order, at most one per thread, and leaving the `with'  *)
(* block waits for all of them, after an exception too.                    *)
(***************************************************************************)
EXTENDS TaskASplit, Naturals, FiniteSets, Functions, Sequences

CONSTANTS Configs,      \* the configurations: architecture, worker_count and
                        \* failure_injection.target_worker_id
          ChunkCount,   \* workload.chunk_count
          ArticleSizes, \* the numbers of paragraphs an article may have
          Master,       \* the id of the master, where there is one
          Nobody,       \* no crash is injected
          LLMCanFail    \* whether an LLM call may raise

Chunks == 0 .. ChunkCount - 1
WorkerIds == Nat \ {0}

\* The dataset is readable: what is raised before the request has announced itself
\* is in Requests.
ASSUME ConstantsAssumption ==
  /\ Configs \subseteq [architecture : {"master_worker", "swarm", "monolithic"},
                        workers : WorkerIds,
                        target : WorkerIds \cup {Master, Nobody}]
  /\ ChunkCount \in Nat \ {0} /\ ArticleSizes \subseteq Nat /\ LLMCanFail \in BOOLEAN
  /\ Master \notin WorkerIds /\ Nobody \notin WorkerIds

VARIABLES
  config,   \* the configuration of the run
  pc,       \* where the thread of the request is
  future,   \* the state of each chunk, of its future where there is a pool
  taken,    \* the chunks whose outcome was looked at
  results   \* the results list: the chunks it holds the summary of

vars == <<config, pc, future, taken, results>>

Pooled == config.architecture \in {"master_worker", "swarm"}
InOrder == config.architecture = "swarm"
MasterIsTarget == config.architecture = "master_worker" /\ config.target = Master

Over == {"returned", "failed"}
Finished == {"done", "raised"}
In(states) == {c \in Chunks : future[c] \in states}
Least(S) == {c \in S : \A d \in S : c <= d}

TypeOK ==
  /\ config \in Configs
  /\ pc \in Over \cup {"start", "submit", "gather", "unwind", "chunk", "reduce"}
  /\ future \in [Chunks -> Finished \cup {"unsubmitted", "queued", "running"}]
  /\ taken \subseteq Chunks
  /\ results \in Seq(Chunks)

Init ==
  /\ config \in Configs
  /\ pc = "start"
  /\ future = [c \in Chunks |-> "unsubmitted"]
  /\ taken = {}
  /\ results = <<>>

\* The worker or agent a chunk is assigned to: worker_id of the master's
\* submission loop, _build_routing_table of the swarm, "mono-worker-1".
AssignedTo_OneWorker(c) == 1
AssignedTo(c) == IF Pooled THEN (c % config.workers) + 1 ELSE 1

-----------------------------------------------------------------------------
(* The thread of the request. *)

MasterCrashes ==
  /\ pc = "start" /\ MasterIsTarget
  /\ pc' = "failed"
  /\ UNCHANGED <<config, future, taken, results>>

Split ==
  /\ pc = "start" /\ ~MasterIsTarget
  /\ pc' = IF Pooled THEN "submit" ELSE "chunk"
  /\ UNCHANGED <<config, future, taken, results>>

\* The next chunk goes to the pool; after the last one the results are taken.
Submit ==
  /\ pc = "submit"
  /\ \E c \in Least(In({"unsubmitted"})) :
       /\ future' = [future EXCEPT ![c] = "queued"]
       /\ pc' = IF c = ChunkCount - 1 THEN "gather" ELSE pc
  /\ UNCHANGED <<config, taken, results>>

\* The futures whose outcome may be taken next.
NextUp_AnyOrder == In(Finished) \ taken
NextUp == {c \in In(Finished) \ taken : InOrder => c \in Least(Chunks \ taken)}

\* The result of a future is appended; an exception it raised leaves the loop.
GatherOne_Skips(c) ==
  /\ taken' = taken \cup {c}
  /\ results' = IF future[c] = "done" THEN Append(results, c) ELSE results
  /\ pc' = IF taken' = Chunks THEN "reduce" ELSE pc
GatherOne_KeepsException(c) ==
  /\ taken' = taken \cup {c}
  /\ results' = Append(results, IF future[c] = "done" THEN c ELSE ChunkCount)
  /\ pc' = IF taken' = Chunks THEN "reduce" ELSE pc
GatherOne(c) ==
  /\ taken' = taken \cup {c}
  /\ IF future[c] = "done"
     THEN /\ results' = Append(results, c)
          /\ pc' = IF taken' = Chunks THEN "reduce" ELSE pc
     ELSE pc' = "unwind" /\ UNCHANGED results

Gather ==
  /\ pc = "gather"
  /\ \E c \in NextUp : GatherOne(c)
  /\ UNCHANGED <<config, future>>

\* The exception reaches the caller only when the pool has run everything that
\* was submitted to it: nothing is cancelled.
Drained_Cancelled == In({"running"}) = {}
Drained_Abandoned == TRUE
Drained == In({"queued", "running"}) = {}

Unwind ==
  /\ pc = "unwind" /\ Drained
  /\ pc' = "failed"
  /\ UNCHANGED <<config, future, taken, results>>

\* The monolithic loop: the next chunk is summarised, or skipped when the worker
\* crashes; after the last one comes the aggregation of what there is.
Crashed_Counts(c) == results' = Append(results, c)
Crashed(c) == UNCHANGED results

ProcessChunk ==
  /\ pc = "chunk"
  /\ \E c \in Least(In({"unsubmitted"})) :
       /\ \/ /\ AssignedTo(c) = config.target
             /\ Crashed(c)
             /\ future' = [future EXCEPT ![c] = "raised"]
          \/ /\ AssignedTo(c) # config.target
             /\ results' = Append(results, c)
             /\ future' = [future EXCEPT ![c] = "done"]
       /\ pc' = IF c = ChunkCount - 1 THEN "reduce" ELSE pc
  /\ UNCHANGED <<config, taken>>

\* An exception of the LLM call is not caught.
ChunkFails ==
  /\ pc = "chunk" /\ LLMCanFail
  /\ AssignedTo(0) # config.target
  /\ pc' = "failed"
  /\ UNCHANGED <<config, future, taken, results>>

\* The aggregation, by the master, the last agent or the only worker.
Reduce ==
  /\ pc = "reduce"
  /\ \/ pc' = "returned"
     \/ LLMCanFail /\ pc' = "failed"
  /\ UNCHANGED <<config, future, taken, results>>

RequestStep == \/ MasterCrashes \/ Split \/ Submit \/ Gather \/ Unwind
               \/ ProcessChunk \/ ChunkFails \/ Reduce

-----------------------------------------------------------------------------
(* The pool. *)

\* An idle thread of the pool takes the oldest future.
Start ==
  /\ Cardinality(In({"running"})) < config.workers
  /\ \E c \in Least(In({"queued"})) : future' = [future EXCEPT ![c] = "running"]
  /\ UNCHANGED <<config, pc, taken, results>>

Complete(c) ==
  /\ future[c] = "running" /\ AssignedTo(c) # config.target
  /\ future' = [future EXCEPT ![c] = "done"]
  /\ UNCHANGED <<config, pc, taken, results>>

\* The injected crash of the assigned worker, or an exception of the LLM call.
Raise(c) ==
  /\ future[c] = "running"
  /\ AssignedTo(c) = config.target \/ LLMCanFail
  /\ future' = [future EXCEPT ![c] = "raised"]
  /\ UNCHANGED <<config, pc, taken, results>>

Done == pc \in Over /\ Drained /\ UNCHANGED vars

Next == \/ RequestStep \/ Start
        \/ \E c \in Chunks : Complete(c) \/ Raise(c)
        \/ Done

SafeSpec == Init /\ [][Next]_vars

\* Every thread keeps running, and an LLM call returns or raises in the end.
Spec == /\ SafeSpec
        /\ WF_vars(RequestStep) /\ WF_vars(Start)
        /\ \A c \in Chunks : WF_vars(Complete(c) \/ Raise(c))

-----------------------------------------------------------------------------
(* Properties. *)

\* What became of the document: a return is an answer, but for the monolithic
\* loop only if no chunk was skipped, whatever the log says.
Outcome == CASE pc = "returned" ->
                  IF Pooled \/ Len(results) = ChunkCount THEN "answered" ELSE "failed"
             [] pc = "failed"   -> "failed"
             [] OTHER           -> "running"

\* The request keeps the promise of every Task A request: an answer only with
\* the summary of every chunk, each gathered once, and a decision in the end.
MR == INSTANCE MapReduce WITH gathered <- results, status <- Outcome
ImplementsMapReduce == MR!Spec

\* Unlike the queue's, the workers of a pool never outlive their request: when
\* execute() returns or raises, no chunk is being or will be worked on.  A failed
\* one has still worked on every chunk: one that crashed or raised does not stop
\* the others, whose LLM calls are made and whose summaries are thrown away.
NoWorkAfterRequest ==
  /\ pc \in Over => In({"queued", "running"}) = {}
  /\ Pooled /\ pc = "failed" /\ ~MasterIsTarget => In(Finished) = Chunks

\* The paragraphs of an article of P that the i-th summary is of.  No step of the
\* request depends on them, so the properties are about every article.
Summarised(P, i) == split(P, ChunkCount)[results[i]]

\* An answer is made from every paragraph of the article, and from none twice.
EachParagraphOnce ==
  Outcome = "answered" =>
    \A P \in ArticleSizes : \A p \in 0 .. P - 1 :
      Cardinality({i \in 1 .. Len(results) : p \in Summarised(P, i)}) = 1

\* The swarm and the monolithic loop hand the summaries to the aggregation in
\* the order of the text; the master takes them as they complete.
OrderOfTheText ==
  config.architecture # "master_worker" =>
    \A P \in ArticleSizes : \A i, k \in 1 .. Len(results) :
      i < k => \A p \in Summarised(P, i), q \in Summarised(P, k) : p < q

\* A crash target that is given a chunk: one of the first ChunkCount workers or
\* agents, of which the monolithic loop has one, or the master, who comes first.
Reached ==
  LET ids == 1 .. IF Pooled THEN config.workers ELSE 1
  IN MasterIsTarget \/ (config.target \in ids /\ config.target <= ChunkCount)

\* How its crash ends the request: by an exception, but the monolithic loop
\* skips the chunk and may return without an answer.
FailedByCrash == IF Pooled THEN pc = "failed" ELSE Outcome = "failed"

\* A crash target the round robin reaches decides the request: a pool's fails,
\* however the futures are taken, and the monolithic one never answers.
CrashDecides == Reached => <>FailedByCrash
=============================================================================
