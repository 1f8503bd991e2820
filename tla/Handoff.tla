------------------------------ MODULE Handoff ------------------------------
(***************************************************************************)
(* One Task B request in the three architectures where a single thread     *)
(* walks the chain: architectures/master_worker/executor.py, whose master  *)
(* may crash and hands each step to a pool it waits for,                   *)
(* architectures/swarm/executor.py, whose agents follow a routing table,   *)
(* and architectures/monolithic/executor.py, which has one worker and      *)
(* leaves the loop when that worker crashes.                               *)
(*                                                                         *)
(* A worker or agent is the number in its id.  A state of the chain is its *)
(* current_step: the other fields follow from it.                          *)
(***************************************************************************)
EXTENDS Naturals

CONSTANTS Configs,      \* the configurations: architecture, worker_count,
                        \* workload.chunk_count (the steps of the chain) and
                        \* failure_injection.target_worker_id
          Master,       \* the id of the master of master_worker
          Nobody,       \* no crash is injected, no worker is meant
          LLMCanFail    \* whether an LLM call may raise

WorkerIds == Nat \ {0}

\* The swarm's routing table has an entry for every step, so a chain of no
\* steps is the one it cannot start.  The dataset is readable: what is raised
\* before the request has announced itself is in Requests.
ASSUME ConstantsAssumption ==
  /\ Configs \subseteq [architecture : {"master_worker", "swarm", "monolithic"},
                        workers : WorkerIds, steps : Nat,
                        target : WorkerIds \cup {Master, Nobody}]
  /\ \A c \in Configs : c.architecture = "swarm" => c.steps # 0
  /\ LLMCanFail \in BOOLEAN
  /\ Master \notin WorkerIds /\ Nobody \notin WorkerIds

VARIABLES
  config,     \* the configuration of the run
  pc,         \* where the thread of the request is
  state,      \* current_step of the newest state
  counter,    \* step_counter
  agent,      \* the worker or agent the step under way was given to
  announced   \* the target named by the last HANDOFF event

vars == <<config, pc, state, counter, agent, announced>>

MasterIsTarget == config.architecture = "master_worker" /\ config.target = Master

Over == {"returned", "failed"}

\* The turns of a loop that nothing cuts short: is_complete is only ever set by a
\* step, so that even a chain of no steps takes one.
Turns == IF config.steps = 0 THEN 1 ELSE config.steps

TypeOK ==
  /\ config \in Configs
  /\ pc \in Over \cup {"start", "loop", "executing"}
  /\ state \in 0 .. Turns /\ counter \in 0 .. Turns
  /\ agent \in 1 .. config.workers \cup {Nobody}
  /\ announced \in 1 .. config.workers \cup {Nobody}

Init ==
  /\ config \in Configs
  /\ pc = "start" /\ state = 0 /\ counter = 0
  /\ agent = Nobody /\ announced = Nobody

-----------------------------------------------------------------------------

RoundRobin_First(n) == 1
RoundRobin(n) == (n % config.workers) + 1

\* _build_routing_table
RoutingTable == [n \in 0 .. config.steps - 1 |-> RoundRobin(n)]

\* routing_table.get(n, ...): past the table, round robin again.
Routed(n) == IF n \in DOMAIN RoutingTable THEN RoutingTable[n] ELSE RoundRobin(n)

\* The worker or agent of the n-th turn of the loop.
AgentOf(n) == CASE config.architecture = "monolithic"    -> 1
                [] config.architecture = "master_worker" -> RoundRobin(n)
                [] config.architecture = "swarm"         -> Routed(n)

MasterCrashes ==
  /\ pc = "start" /\ MasterIsTarget
  /\ pc' = "failed"
  /\ UNCHANGED <<config, state, counter, agent, announced>>

Begin ==
  /\ pc = "start" /\ ~MasterIsTarget
  /\ pc' = "loop"
  /\ UNCHANGED <<config, state, counter, agent, announced>>

\* is_complete of the state after n steps.
Complete_OneMore(n) == n > Turns
Complete(n) == n >= Turns

\* The step goes to the next worker, agent, or to the only worker.
Dispatch ==
  /\ pc = "loop" /\ ~Complete(state)
  /\ agent' = AgentOf(counter)
  /\ pc' = "executing"
  /\ UNCHANGED <<config, state, counter, announced>>

Return ==
  /\ pc = "loop" /\ Complete(state)
  /\ pc' = "returned"
  /\ UNCHANGED <<config, state, counter, agent, announced>>

\* Whom a HANDOFF event names when the turn after turn n is not the last.
NextAgent_Same(n) == AgentOf(n)
NextAgent(n) == AgentOf(n + 1)

\* process_step; a HANDOFF event names the next worker unless the chain is
\* complete.
Step ==
  /\ pc = "executing" /\ agent # config.target
  /\ state' = state + 1
  /\ counter' = counter + 1
  /\ pc' = "loop"
  /\ announced' = IF Complete(state + 1) \/ config.architecture = "monolithic"
                  THEN announced ELSE NextAgent(counter)
  /\ UNCHANGED <<config, agent>>

\* The injected crash: an exception, but the monolithic loop catches it and
\* goes on after the loop, with the chain as it is.
AgentCrashes ==
  /\ pc = "executing" /\ agent = config.target
  /\ pc' = IF config.architecture = "monolithic" THEN "returned" ELSE "failed"
  /\ UNCHANGED <<config, state, counter, agent, announced>>

LLMFails ==
  /\ pc = "executing" /\ agent # config.target /\ LLMCanFail
  /\ pc' = "failed"
  /\ UNCHANGED <<config, state, counter, agent, announced>>

Act == \/ MasterCrashes \/ Begin \/ Dispatch \/ Return \/ Step
       \/ AgentCrashes \/ LLMFails

Next == Act \/ (pc \in Over /\ UNCHANGED vars)

SafeSpec == Init /\ [][Next]_vars

\* The thread keeps running, and an LLM call returns or raises in the end.
Spec == SafeSpec /\ WF_vars(Act)

-----------------------------------------------------------------------------
(* Properties. *)

\* What happened to the chain, whatever the caller of execute() is told: an
\* execute() that returns early has not answered.
Outcome == CASE pc = "returned" -> IF state >= Turns THEN "answered" ELSE "failed"
             [] pc = "failed"   -> "failed"
             [] OTHER           -> "running"

\* The request keeps the promise of every Task B request: an answer only for a
\* complete chain, and a decision in the end.
CH == INSTANCE Chain WITH total <- config.steps, step <- state, status <- Outcome
ImplementsChain == CH!Spec

\* The HANDOFF events tell the truth: the step goes to the worker or agent the
\* event before it named.
HandoffHonoured ==
  [][pc = "loop" /\ pc' = "executing" /\ announced # Nobody
       => agent' = announced]_vars

\* A crash target that gets a turn before the chain is complete: one of the first
\* Turns workers or agents, of which the monolithic loop has one, or the
\* master, who comes before them all.
Reached ==
  LET ids == 1 .. IF config.architecture = "monolithic" THEN 1 ELSE config.workers
  IN MasterIsTarget \/ (config.target \in ids /\ config.target <= Turns)

\* How its crash ends the request: by an exception, but the monolithic request
\* returns with the chain as it was begun.
FailedByCrash ==
  IF config.architecture = "monolithic" THEN pc = "returned" /\ state = 0 ELSE pc = "failed"

\* A crash target the round robin reaches decides the request: the chain
\* never gets past its turn, and no request with such a target answers.
CrashDecides == Reached => <>FailedByCrash
=============================================================================
