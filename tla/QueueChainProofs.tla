-------------------------- MODULE QueueChainProofs --------------------------
(***************************************************************************)
(* Proofs about QueueChain, for any set of workers, even an infinite one,  *)
(* and any number of steps.  They use the safety part of the specification *)
(* only.                                                                   *)
(***************************************************************************)
EXTENDS QueueChain, SequenceTheorems, FiniteSetTheorems, TLAPS

-----------------------------------------------------------------------------
(* The invariant. *)

\* The places the state n of the chain can be in.  OneChain counts copies; that
\* it is preserved follows only when one knows where the copy is.
Nowhere ==
  taskQ = <<>> /\ resQ = <<>> /\ Holders = {} /\ answer = None
AtTaskQueue(n) ==
  taskQ = <<n>> /\ resQ = <<>> /\ Holders = {} /\ answer = None
AtResultQueue(n) ==
  taskQ = <<>> /\ resQ = <<n>> /\ Holders = {} /\ answer = None
AtWorker(w, n) ==
  taskQ = <<>> /\ resQ = <<>> /\ Holders = {w} /\ held[w] = n /\ answer = None
AtOrchestrator(n) ==
  taskQ = <<>> /\ resQ = <<>> /\ Holders = {} /\ answer = n

\* What is on the task queue or with a worker needs a step, and what is on the
\* result queue or with the orchestrator needs none.
OnePlace ==
  IF opc \in {"start", "crashed"}
  THEN Nowhere
  ELSE \E n \in States :
         IF CH!Complete(n)
         THEN AtResultQueue(n) \/ (AtOrchestrator(n) /\ opc \in {"join", "returned"})
         ELSE AtTaskQueue(n) \/ \E w \in Workers : AtWorker(w, n)

\* A worker holds a state from when it takes it until it passes the next on, and
\* for ever when it dies over it.
HeldWhileHandling ==
  \A w \in Workers : held[w] # None <=> wpc[w] \in {"handling", "dead"}

IInv == TypeOK /\ HeldWhileHandling /\ OnePlace

\* One step more of an unfinished chain is a state of the chain.
LEMMA NextState ==
  ASSUME TypeOK, NEW n \in States, ~CH!Complete(n)
  PROVE  n + 1 \in States /\ (Complete(n + 1) <=> CH!Complete(n + 1))
  BY ConstantsAssumption DEF TypeOK, States, CH!Complete, Complete

\* The length of the chain is the configuration's, and so are its states.
LEMMA LengthFixed ==
  ASSUME [Next]_vars
  PROVE  /\ total_steps' = total_steps /\ States' = States
         /\ \A n : CH!Complete(n)' <=> CH!Complete(n)
<1>1. total_steps' = total_steps
  BY DEF Next, OrchestratorStep, OrchestratorCrashes, Publish, Receive, Timeout, Return,
         WorkerStep, CheckStop, PollEmpty, Take, Die, Step, Done, vars
<1> QED
  BY <1>1 DEF States, CH!Complete

\* A state is a number.
LEMMA StatesAreNumbers ==
  ASSUME TypeOK
  PROVE  States \subseteq Nat /\ 0 \in States /\ ~CH!Complete(0) /\ None \notin States
  BY ConstantsAssumption DEF TypeOK, States, CH!Complete

LEMMA Invariance == SafeSpec => []IInv
<1>1. Init => IInv
  <2> SUFFICES ASSUME Init
               PROVE  IInv
    OBVIOUS
  <2>1. <<>> \in Seq(States)
    BY EmptySeq
  <2>2. TypeOK
    BY <2>1 DEF Init, TypeOK
  <2>3. HeldWhileHandling /\ OnePlace
    BY DEF Init, HeldWhileHandling, OnePlace, Nowhere, Holders
  <2> QED
    BY <2>2, <2>3 DEF IInv
<1>2. IInv /\ [Next]_vars => IInv'
  <2> SUFFICES ASSUME IInv, [Next]_vars
               PROVE  IInv'
    OBVIOUS
  <2> USE DEF IInv
  <2>0. /\ TypeOK /\ HeldWhileHandling /\ OnePlace
        /\ States \subseteq Nat /\ 0 \in States /\ ~CH!Complete(0) /\ None \notin States
        /\ total_steps' = total_steps /\ States' = States
        /\ \A n : CH!Complete(n)' <=> CH!Complete(n)
    BY LengthFixed, StatesAreNumbers
  <2>1. CASE OrchestratorCrashes
    BY <2>0, <2>1 DEF OrchestratorCrashes, workerVars, TypeOK, Over, HeldWhileHandling,
                OnePlace, Nowhere, Holders
  <2>2. CASE Publish
    <3>1. taskQ' = <<0>> /\ 0 \in States /\ ~CH!Complete(0)
      BY <2>0, <2>2 DEF Publish, OnePlace, Nowhere
    <3>2. <<0>> \in Seq(States)
      BY <3>1
    <3>3. TypeOK' /\ HeldWhileHandling'
      BY <2>0, <2>2, <3>1, <3>2 DEF Publish, workerVars, TypeOK, HeldWhileHandling
    <3>4. AtTaskQueue(0)'
      BY <2>0, <2>2, <3>1 DEF Publish, workerVars, OnePlace, Nowhere, AtTaskQueue, Holders
    <3>5. OnePlace'
      BY <2>0, <2>2, <3>1, <3>4 DEF Publish, OnePlace
    <3> QED
      BY <3>3, <3>5
  <2>3. CASE Receive
    <3>1. PICK n \in States : AtResultQueue(n) /\ CH!Complete(n)
      BY <2>0, <2>3 DEF Receive, OnePlace, AtTaskQueue, AtWorker, AtOrchestrator
    <3>2. answer' = n /\ resQ' = <<>>
      BY <2>3, <3>1 DEF Receive, AtResultQueue
    <3>3. TypeOK' /\ HeldWhileHandling'
      BY <2>0, <2>3, <3>2 DEF Receive, workerVars, TypeOK, HeldWhileHandling
    <3>4. AtOrchestrator(n)'
      BY <2>3, <3>1, <3>2 DEF Receive, workerVars, AtResultQueue, AtOrchestrator, Holders
    <3>5. OnePlace'
      BY <2>0, <2>3, <3>1, <3>4 DEF Receive, OnePlace
    <3> QED
      BY <3>3, <3>5
  <2>4. CASE Timeout
    BY <2>0, <2>4 DEF Timeout, workerVars, TypeOK, HeldWhileHandling, OnePlace,
                      AtResultQueue, AtTaskQueue, AtWorker, AtOrchestrator, Holders
  <2>5. CASE Return
    BY <2>0, <2>5 DEF Return, workerVars, TypeOK, Over, HeldWhileHandling, OnePlace,
                      AtResultQueue, AtTaskQueue, AtWorker, AtOrchestrator, Holders
  <2>6. ASSUME NEW w \in Workers, CheckStop(w) \/ PollEmpty(w) \/ Die(w)
        PROVE  IInv'
    <3>1. TypeOK' /\ HeldWhileHandling'
      BY <2>0, <2>6 DEF CheckStop, PollEmpty, Die, TypeOK, Dead, HeldWhileHandling
    <3>2. UNCHANGED <<opc, answer, taskQ, resQ, held>>
      BY <2>6 DEF CheckStop, PollEmpty, Die
    <3>3. OnePlace'
      BY <2>0, <3>2 DEF OnePlace, Nowhere, AtResultQueue, AtTaskQueue, AtWorker,
                        AtOrchestrator, Holders
    <3> QED
      BY <3>1, <3>3
  <2>7. ASSUME NEW w \in Workers, Take(w)
        PROVE  IInv'
    <3>1. PICK n \in States : AtTaskQueue(n) /\ ~CH!Complete(n)
      BY <2>0, <2>7 DEF Take, OnePlace, Nowhere, AtResultQueue, AtWorker, AtOrchestrator
    <3>2. held' = [held EXCEPT ![w] = n] /\ taskQ' = <<>>
      BY <2>7, <3>1 DEF Take, AtTaskQueue
    <3>3. TypeOK' /\ HeldWhileHandling'
      BY <2>0, <2>7, <3>2 DEF Take, TypeOK, HeldWhileHandling
    <3>4. AtWorker(w, n)'
      BY <2>0, <2>7, <3>1, <3>2 DEF Take, AtTaskQueue, AtWorker, Holders, TypeOK
    <3>5. OnePlace'
      BY <2>0, <2>7, <3>1, <3>4 DEF Take, OnePlace, Nowhere, AtTaskQueue
    <3> QED
      BY <3>3, <3>5
  <2>8. ASSUME NEW w \in Workers, Step(w)
        PROVE  IInv'
    <3>1. held[w] # None /\ w \in Holders
      BY <2>0, <2>8 DEF Step, HeldWhileHandling, Holders
    <3>2. PICK n \in States : AtWorker(w, n) /\ ~CH!Complete(n)
      BY <2>0, <3>1 DEF OnePlace, Nowhere, AtResultQueue, AtTaskQueue, AtWorker,
                        AtOrchestrator
    <3>3. n + 1 \in States /\ (Complete(n + 1) <=> CH!Complete(n + 1))
      BY <2>0, <3>2, NextState
    <3>4. \/ Complete(n + 1) /\ resQ' = <<n + 1>> /\ taskQ' = <<>>
          \/ ~Complete(n + 1) /\ resQ' = <<>> /\ taskQ' = <<n + 1>>
      BY <2>8, <3>2 DEF Step, AtWorker
    <3>5. <<n + 1>> \in Seq(States) /\ <<>> \in Seq(States)
      BY <3>3
    <3>6. TypeOK' /\ HeldWhileHandling'
      BY <2>0, <2>8, <3>4, <3>5 DEF Step, TypeOK, HeldWhileHandling
    <3>7. Holders' = {} /\ answer' = None /\ opc \notin {"start", "crashed"}
      BY <2>0, <2>8, <3>1, <3>2 DEF Step, AtWorker, Holders, TypeOK, OnePlace, Nowhere
    <3>8. OnePlace'
      BY <2>0, <2>8, <3>3, <3>4, <3>7 DEF Step, OnePlace, AtResultQueue, AtTaskQueue
    <3> QED
      BY <3>6, <3>8
  <2>9. CASE UNCHANGED vars
    BY <2>0, <2>9 DEF vars, workerVars, TypeOK, HeldWhileHandling, OnePlace, Nowhere,
                      AtResultQueue, AtTaskQueue, AtWorker, AtOrchestrator, Holders
  <2> QED
    BY <2>1, <2>2, <2>3, <2>4, <2>5, <2>6, <2>7, <2>8, <2>9
    DEF Next, OrchestratorStep, WorkerStep, Done
<1> QED
  BY <1>1, <1>2, PTL DEF SafeSpec

-----------------------------------------------------------------------------
(* What follows from it. *)

\* Every reachable state has the types the code gives it: no worker takes the
\* chain past its last step.
THEOREM TypeCorrect == SafeSpec => []TypeOK
  BY Invariance, PTL DEF IInv

\* However many workers wait on the task queue, and whichever of them dies, the
\* chain is never forked, and never lost but in the hands of a dead worker.
THEOREM NeverForked == SafeSpec => []OneChain
<1>1. IInv => OneChain
  <2> SUFFICES ASSUME IInv
               PROVE  OneChain
    OBVIOUS
  <2>0. /\ Cardinality({}) = 0 /\ \A w : Cardinality({w}) = 1
        /\ None \notin States /\ Len(<<>>) = 0 /\ \A n : Len(<<n>>) = 1
    BY FS_EmptySet, FS_Singleton, StatesAreNumbers DEF IInv
  <2>1. CASE opc \in {"start", "crashed"}
    BY <2>0, <2>1 DEF IInv, OnePlace, Nowhere, OneChain, Copies
  <2>2. CASE opc \notin {"start", "crashed"}
    <3>1. PICK n \in States : \/ AtTaskQueue(n) \/ AtResultQueue(n)
                              \/ (\E w \in Workers : AtWorker(w, n)) \/ AtOrchestrator(n)
      BY <2>2 DEF IInv, OnePlace
    <3>2. CASE AtTaskQueue(n)
      BY <2>0, <2>2, <3>2 DEF OneChain, Copies, AtTaskQueue
    <3>3. CASE AtResultQueue(n)
      BY <2>0, <2>2, <3>3 DEF OneChain, Copies, AtResultQueue
    <3>4. CASE \E w \in Workers : AtWorker(w, n)
      <4>1. PICK w \in Workers : AtWorker(w, n)
        BY <3>4
      <4>2. Cardinality(Holders) = 1
        BY <2>0, <4>1 DEF AtWorker
      <4> QED
        BY <2>0, <2>2, <4>1, <4>2 DEF OneChain, Copies, AtWorker
    <3>5. CASE AtOrchestrator(n)
      BY <2>0, <2>2, <3>5 DEF OneChain, Copies, AtOrchestrator
    <3> QED
      BY <3>1, <3>2, <3>3, <3>4, <3>5
  <2> QED
    BY <2>1, <2>2
<1> QED
  BY <1>1, Invariance, PTL

\* Every behaviour of the request is one of the abstract chain: the steps come
\* one at a time and in order, also after the orchestrator has given up, and an
\* answer is a complete chain.
THEOREM Implementation == SafeSpec => CH!SafeSpec
<1>1. Init => CH!Init
  BY ConstantsAssumption DEF Init, CH!Init, Newest, Outcome, Holders
<1>2. IInv /\ IInv' /\ [Next]_vars => [CH!Next]_(CH!vars)
  <2> SUFFICES ASSUME IInv, IInv', [Next]_vars
               PROVE  CH!Next \/ UNCHANGED <<Newest, Outcome>>
    BY LengthFixed DEF CH!vars
  <2>0. /\ TypeOK /\ OnePlace /\ OnePlace'
        /\ States \subseteq Nat /\ 0 \in States /\ None \notin States
        /\ total_steps' = total_steps /\ States' = States
    BY LengthFixed, StatesAreNumbers DEF IInv
  <2> USE DEF AtTaskQueue, AtResultQueue, AtWorker, AtOrchestrator
  \* Where the chain is decides which state is the newest.
  <2>1. ASSUME NEW n \in States
        PROVE  /\ AtTaskQueue(n) \/ AtResultQueue(n) \/ AtOrchestrator(n) => Newest = n
               /\ \A w \in Workers : AtWorker(w, n) => Newest = n
    BY <2>0, <2>1 DEF Newest
  <2>2. ASSUME NEW n \in States
        PROVE  /\ (AtTaskQueue(n) \/ AtResultQueue(n) \/ AtOrchestrator(n))' => Newest' = n
               /\ \A w \in Workers : AtWorker(w, n)' => Newest' = n
    BY <2>0, <2>2 DEF Newest
  <2>3. CASE OrchestratorCrashes
    BY <2>0, <2>3 DEF OrchestratorCrashes, workerVars, Newest, Holders, Outcome, CH!Next, CH!Fail
  <2>4. CASE Publish
    <3>1. Newest = 0
      BY <2>0, <2>4 DEF Publish, OnePlace, Nowhere, Newest
    <3>2. AtTaskQueue(0)' /\ 0 \in States
      BY <2>0, <2>4 DEF Publish, workerVars, OnePlace, Nowhere, Holders
    <3> QED
      BY <2>2, <2>4, <3>1, <3>2 DEF Publish, Outcome
  <2>5. CASE Receive
    <3>1. PICK n \in States : AtResultQueue(n) /\ CH!Complete(n)
      BY <2>0, <2>5 DEF Receive, OnePlace
    <3>2. AtOrchestrator(n)'
      BY <2>5, <3>1 DEF Receive, workerVars, Holders
    <3>3. Newest = n /\ Newest' = n
      BY <2>1, <2>2, <3>1, <3>2
    <3> QED
      BY <2>0, <2>5, <3>1, <3>2, <3>3 DEF Receive, Outcome, CH!Next, CH!Answer
  <2>6. CASE Timeout
    <3>1. answer = None
      BY <2>0, <2>6 DEF Timeout, OnePlace
    <3>2. UNCHANGED Newest
      BY <2>6 DEF Timeout, workerVars, Newest, Holders
    <3> QED
      BY <2>0, <2>6, <3>1, <3>2 DEF Timeout, Outcome, CH!Next, CH!Fail
  <2>7. CASE Return
    BY <2>7 DEF Return, workerVars, Newest, Holders, Outcome
  <2>8. ASSUME NEW w \in Workers, CheckStop(w) \/ PollEmpty(w) \/ Die(w)
        PROVE  UNCHANGED <<Newest, Outcome>>
    BY <2>8 DEF CheckStop, PollEmpty, Die, Newest, Holders, Outcome
  <2>9. ASSUME NEW w \in Workers, Take(w)
        PROVE  UNCHANGED <<Newest, Outcome>>
    <3>1. PICK n \in States : AtTaskQueue(n)
      BY <2>0, <2>9 DEF Take, OnePlace, Nowhere
    <3>2. AtWorker(w, n)'
      BY <2>0, <2>9, <3>1 DEF Take, Holders, IInv, TypeOK
    <3> QED
      BY <2>1, <2>2, <2>9, <3>1, <3>2 DEF Take, Outcome
  <2>10. ASSUME NEW w \in Workers, Step(w)
         PROVE  CH!Next
    <3>1. w \in Holders
      BY <2>10 DEF Step, IInv, HeldWhileHandling, Holders
    <3>2. PICK n \in States : AtWorker(w, n) /\ ~CH!Complete(n)
      BY <2>0, <3>1 DEF OnePlace, Nowhere
    <3>3. Newest = n /\ n + 1 \in States
      BY <2>0, <2>1, <3>2, NextState
    <3>4. AtTaskQueue(n + 1)' \/ AtResultQueue(n + 1)'
      BY <2>0, <2>10, <3>2 DEF Step, Holders, IInv, TypeOK
    <3>5. Newest' = n + 1
      BY <2>2, <3>3, <3>4
    <3>6. UNCHANGED Outcome /\ Outcome # "answered"
      BY <2>10, <3>2 DEF Step, Outcome
    <3> QED
      BY <2>0, <3>2, <3>3, <3>5, <3>6 DEF CH!Next, CH!Advance
  <2>11. CASE UNCHANGED vars
    BY <2>11 DEF vars, workerVars, Newest, Holders, Outcome
  <2> QED
    BY <2>3, <2>4, <2>5, <2>6, <2>7, <2>8, <2>9, <2>10, <2>11
    DEF Next, OrchestratorStep, WorkerStep, Done
<1> QED
  BY <1>1, <1>2, Invariance, PTL DEF SafeSpec, CH!SafeSpec

-----------------------------------------------------------------------------
(* The workers after stop_event is set. *)

\* The steps of a worker from its place to its end, when it finds stop_event set
\* at the head of its loop.
StepsToEnd(w) == CASE wpc[w] = "poll"     -> 3
                   [] wpc[w] = "handling" -> 2
                   [] wpc[w] = "loop"     -> 1
                   [] wpc[w] \in Dead     -> 0

\* A request that has returned has set stop_event, for good, and from then on
\* each step of a worker brings it nearer to its end, three steps away at most: it
\* takes the chain one step further at most.  This is the
\* safety half of ReturnStopsWorkers.
THEOREM StopHeard ==
  SafeSpec => /\ [](opc = "returned" => stop)
              /\ [][stop => /\ stop'
                            /\ \A w \in Workers : \/ UNCHANGED wpc[w]
                                                  \/ StepsToEnd(w)' < StepsToEnd(w)]_vars
<1> DEFINE Told == opc \in {"join", "returned"} => stop
<1>1. Init => Told
  BY DEF Init
<1>2. Told /\ [Next]_vars => Told'
  BY DEF Next, OrchestratorStep, OrchestratorCrashes, Publish, Receive, Timeout, Return,
         WorkerStep, CheckStop, PollEmpty, Take, Die, Step, Done, vars
<1>3. Told => (opc = "returned" => stop)
  OBVIOUS
<1>4. TypeOK /\ [Next]_vars =>
        [stop => /\ stop'
                 /\ \A w \in Workers : \/ UNCHANGED wpc[w]
                                       \/ StepsToEnd(w)' < StepsToEnd(w)]_vars
  <2> SUFFICES ASSUME TypeOK, Next, ~UNCHANGED vars, stop
               PROVE  stop' /\ \A w \in Workers : UNCHANGED wpc[w] \/ StepsToEnd(w)' < StepsToEnd(w)
    OBVIOUS
  <2>1. CASE OrchestratorStep
    BY <2>1 DEF OrchestratorStep, OrchestratorCrashes, Publish, Receive, Timeout, Return, workerVars
  <2>2. ASSUME NEW v \in Workers, WorkerStep(v)
        PROVE  stop' /\ \A w \in Workers : UNCHANGED wpc[w] \/ StepsToEnd(w)' < StepsToEnd(w)
    <3>1. stop' /\ \A w \in Workers : w # v => UNCHANGED wpc[w]
      BY <2>2 DEF WorkerStep, CheckStop, PollEmpty, Take, Die, Step, TypeOK
    <3>2. \/ wpc[v] = "loop" /\ wpc'[v] = "exited"
          \/ wpc[v] = "poll" /\ wpc'[v] \in {"loop", "handling"}
          \/ wpc[v] = "handling" /\ wpc'[v] \in {"loop", "dead"}
      BY <2>2 DEF WorkerStep, CheckStop, PollEmpty, Take, Die, Step, TypeOK
    <3>3. StepsToEnd(v)' < StepsToEnd(v)
      BY <3>2 DEF StepsToEnd, Dead
    <3> QED
      BY <3>1, <3>3
  <2> QED
    BY <2>1, <2>2 DEF Next, Done
<1> QED
  BY <1>1, <1>2, <1>3, <1>4, TypeCorrect, PTL DEF SafeSpec
=============================================================================
