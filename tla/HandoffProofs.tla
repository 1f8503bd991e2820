--------------------------- MODULE HandoffProofs ---------------------------
(***************************************************************************)
(* Proofs about Handoff, for any set of configurations: any number of      *)
(* workers and steps.  They use the safety part of the specification only. *)
(***************************************************************************)
EXTENDS Handoff, TLAPS

\* What the thread knows of the chain at each of its places: the turn of the
\* loop is the step of the chain, and the worker of the turn is the one that
\* the last HANDOFF event named.
Walk ==
  /\ counter = state
  /\ pc = "start" => state = 0
  /\ MasterIsTarget => pc \in {"start", "failed"}
  /\ pc = "executing" => state < Turns /\ agent = AgentOf(counter)
  /\ state < Turns /\ announced # Nobody => announced = AgentOf(counter)

IInv == TypeOK /\ Walk

\* A loop has a turn at least, and as many as make the chain complete.
LEMMA TurnsComplete ==
  ASSUME config \in Configs
  PROVE  /\ config.steps \in Nat /\ Turns \in Nat \ {0}
         /\ \A n \in Nat : n >= Turns <=> CH!Complete(n)
         /\ config' = config => Turns' = Turns
  BY ConstantsAssumption DEF Turns, CH!Complete

\* Every turn has a worker or agent, and it is one of the configuration.
LEMMA AgentOfSomeone ==
  ASSUME config \in Configs, NEW n \in Nat
  PROVE  AgentOf(n) \in 1 .. config.workers
<1>1. /\ config.workers \in Nat \ {0}
      /\ config.architecture \in {"master_worker", "swarm", "monolithic"}
  BY ConstantsAssumption DEF WorkerIds
<1>2. n % config.workers \in 0 .. config.workers - 1
  BY <1>1
<1>3. RoundRobin(n) \in 1 .. config.workers
  BY <1>1, <1>2 DEF RoundRobin
<1>4. Routed(n) = RoundRobin(n)
  BY DEF Routed, RoutingTable
<1> QED
  BY <1>1, <1>3, <1>4 DEF AgentOf

LEMMA Invariance == SafeSpec => []IInv
<1>1. Init => IInv
  BY TurnsComplete, ConstantsAssumption DEF Init, IInv, TypeOK, Walk
<1>2. IInv /\ [Next]_vars => IInv'
  <2> SUFFICES ASSUME IInv, [Next]_vars
               PROVE  IInv'
    OBVIOUS
  <2> USE DEF IInv, TypeOK, Walk, MasterIsTarget, Over
  <2>0. /\ config \in Configs /\ Turns \in Nat \ {0} /\ state \in Nat
        /\ config.workers \in Nat \ {0} /\ Nobody \notin 1 .. config.workers
    BY TurnsComplete, ConstantsAssumption DEF WorkerIds
  <2>1. /\ UNCHANGED <<config, counter>> => AgentOf(counter)' = AgentOf(counter)
        /\ config' = config => Turns' = Turns
    BY TurnsComplete DEF AgentOf, RoundRobin, Routed, RoutingTable
  <2>2. CASE MasterCrashes
    BY <2>1, <2>2 DEF MasterCrashes
  <2>3. CASE Begin
    BY <2>1, <2>3 DEF Begin
  <2>4. CASE Dispatch
    <3>1. agent' = AgentOf(counter) /\ AgentOf(counter) \in 1 .. config.workers
      BY <2>0, <2>4, AgentOfSomeone DEF Dispatch
    <3>2. state < Turns /\ AgentOf(counter)' = AgentOf(counter)
      BY <2>0, <2>1, <2>4 DEF Dispatch, Complete
    <3> QED
      BY <2>1, <2>4, <3>1, <3>2 DEF Dispatch
  <2>5. CASE Return
    BY <2>1, <2>5 DEF Return
  <2>6. CASE Step
    <3>1. /\ state' = state + 1 /\ counter' = counter + 1 /\ counter = state
          /\ state + 1 <= Turns /\ pc' = "loop" /\ UNCHANGED <<config, agent>>
      BY <2>0, <2>6 DEF Step
    <3>2. AgentOf(counter + 1) \in 1 .. config.workers
      BY <2>0, <3>1, AgentOfSomeone
    <3>3. AgentOf(counter)' = AgentOf(counter + 1)
      BY <3>1 DEF AgentOf, RoundRobin, Routed, RoutingTable
    <3>4. announced' \in 1 .. config.workers \cup {Nobody}
      BY <2>6, <3>2 DEF Step, NextAgent
    <3>5. ASSUME state' < Turns, announced' # Nobody
          PROVE  announced' = AgentOf(counter)'
      <4>1. CASE config.architecture = "monolithic"
        BY <2>0, <2>1, <2>6, <3>1, <4>1, <3>5 DEF Step, AgentOf
      <4>2. CASE config.architecture # "monolithic"
        BY <2>0, <2>1, <2>6, <3>1, <3>3, <3>5, <4>2 DEF Step, Complete, NextAgent
      <4> QED
        BY <4>1, <4>2
    <3> QED
      BY <2>0, <2>1, <2>6, <3>1, <3>4, <3>5 DEF Step
  <2>7. CASE AgentCrashes
    BY <2>1, <2>7 DEF AgentCrashes
  <2>8. CASE LLMFails
    BY <2>1, <2>8 DEF LLMFails
  <2>9. CASE UNCHANGED vars
    BY <2>1, <2>9 DEF vars
  <2> QED
    BY <2>2, <2>3, <2>4, <2>5, <2>6, <2>7, <2>8, <2>9 DEF Next, Act
<1> QED
  BY <1>1, <1>2, PTL DEF SafeSpec

\* Every reachable state has the types the code gives it: no turn goes to a
\* worker that does not exist, and the counter never passes the last step.
THEOREM TypeCorrect == SafeSpec => []TypeOK
  BY Invariance, PTL DEF IInv

\* The worker or agent a HANDOFF event names gets the next step, for any number
\* of workers and steps: the routing table and the round robin agree.
THEOREM AnnouncedNext == SafeSpec => HandoffHonoured
<1>1. IInv /\ [Next]_vars
        => [pc = "loop" /\ pc' = "executing" /\ announced # Nobody
              => agent' = announced]_vars
  <2> SUFFICES ASSUME IInv, Next, pc = "loop", pc' = "executing", announced # Nobody
               PROVE  agent' = announced
    OBVIOUS
  <2>1. Dispatch
    BY DEF Next, Act, MasterCrashes, Begin, Return, Step, AgentCrashes, LLMFails,
           Over, vars
  <2>2. state < Turns
    BY <2>1, TurnsComplete DEF Dispatch, Complete, IInv, TypeOK
  <2> QED
    BY <2>1, <2>2 DEF Dispatch, IInv, Walk
<1> QED
  BY <1>1, Invariance, PTL DEF SafeSpec, HandoffHonoured

\* Every behaviour of the request is one of the abstract chain: steps one at a
\* time and in order, and an answer only for a complete chain.
THEOREM Implementation == SafeSpec => CH!SafeSpec
<1> USE DEF Outcome
<1>1. Init => CH!Init
  BY TurnsComplete DEF Init, CH!Init
<1>2. IInv /\ [Next]_vars => [CH!Next]_(CH!vars)
  <2> SUFFICES ASSUME IInv, [Next]_vars
               PROVE  CH!Next \/ UNCHANGED <<config, state, Outcome>>
    BY DEF CH!vars
  <2>0. /\ state \in Nat /\ Turns \in Nat \ {0}
        /\ \A n \in Nat : n >= Turns <=> CH!Complete(n)
        /\ config' = config /\ Turns' = Turns
    <3>1. config' = config
      BY DEF Next, Act, MasterCrashes, Begin, Dispatch, Return, Step, AgentCrashes, LLMFails, vars
    <3> QED
      BY <3>1, TurnsComplete DEF IInv, TypeOK
  <2>1. CASE MasterCrashes
    BY <2>0, <2>1 DEF MasterCrashes, CH!Next, CH!Fail
  <2>2. CASE Begin \/ Dispatch
    BY <2>0, <2>2 DEF Begin, Dispatch
  <2>3. CASE Return
    BY <2>0, <2>3 DEF Return, Complete, CH!Next, CH!Answer
  <2>4. CASE Step
    <3>1. CH!Advance
      BY <2>0, <2>4 DEF Step, CH!Advance, IInv, Walk
    <3> QED
      BY <3>1 DEF CH!Next
  <2>5. CASE AgentCrashes
    BY <2>0, <2>5 DEF AgentCrashes, CH!Next, CH!Fail, IInv, Walk
  <2>6. CASE LLMFails
    BY <2>0, <2>6 DEF LLMFails, CH!Next, CH!Fail
  <2>7. CASE UNCHANGED vars
    BY <2>0, <2>7 DEF vars
  <2> QED
    BY <2>1, <2>2, <2>3, <2>4, <2>5, <2>6, <2>7 DEF Next, Act
<1> QED
  BY <1>1, <1>2, Invariance, PTL DEF SafeSpec, CH!SafeSpec

-----------------------------------------------------------------------------
(* A crash decides the request. *)

\* A chain with a target that is reached does not get past the target's turn.
NeverPast ==
  Reached /\ ~MasterIsTarget =>
    /\ state < config.target
    /\ pc \in Over => FailedByCrash

\* The round robin gives the n-th worker the n-th turn, up to the last worker.
LEMMA TurnOfTarget ==
  ASSUME config \in Configs, Reached, ~MasterIsTarget
  PROVE  /\ config.target \in Nat \ {0} /\ config.target <= Turns
         /\ AgentOf(config.target - 1) = config.target
         /\ config.architecture = "monolithic" => config.target = 1
<1> DEFINE t == config.target
<1>1. /\ config.workers \in Nat \ {0} /\ Turns \in Nat \ {0}
      /\ config.architecture \in {"master_worker", "swarm", "monolithic"}
  BY TurnsComplete, ConstantsAssumption DEF WorkerIds
<1>2. /\ t \in 1 .. config.workers /\ t <= Turns
      /\ config.architecture = "monolithic" => t = 1
  BY <1>1 DEF Reached
<1>3. (t - 1) % config.workers = t - 1
  BY <1>1, <1>2
<1>4. RoundRobin(t - 1) = t /\ Routed(t - 1) = RoundRobin(t - 1)
  BY <1>2, <1>3 DEF RoundRobin, Routed, RoutingTable
<1> QED
  BY <1>1, <1>2, <1>4 DEF AgentOf

LEMMA NeverPastStep ==
  ASSUME IInv, NeverPast, [Next]_vars
  PROVE  NeverPast'
<1>1. SUFFICES ASSUME Reached', ~MasterIsTarget'
               PROVE  state' < config'.target /\ (pc' \in Over => FailedByCrash')
  BY DEF NeverPast
<1>2. config' = config
  BY DEF Next, Act, MasterCrashes, Begin, Dispatch, Return, Step, AgentCrashes, LLMFails, vars
<1>3. Reached /\ ~MasterIsTarget
  BY <1>1, <1>2 DEF Reached, MasterIsTarget, Turns
<1>4. state < config.target /\ (pc \in Over => FailedByCrash)
  BY <1>3 DEF NeverPast
<1>5. /\ config.target \in Nat \ {0} /\ config.target <= Turns
      /\ AgentOf(config.target - 1) = config.target
      /\ config.architecture = "monolithic" => config.target = 1
  BY <1>3, TurnOfTarget DEF IInv, TypeOK
<1>6. /\ state \in Nat /\ Turns \in Nat \ {0} /\ counter = state
      /\ pc = "executing" => agent = AgentOf(state)
  BY TurnsComplete DEF IInv, TypeOK, Walk
<1>7. CASE MasterCrashes
  BY <1>3, <1>7 DEF MasterCrashes
<1>8. CASE Begin \/ Dispatch
  BY <1>2, <1>4, <1>8 DEF Begin, Dispatch, Over
<1>9. CASE Return
  BY <1>4, <1>5, <1>6, <1>9 DEF Return, Complete
<1>10. CASE Step
  <2>1. state # config.target - 1
    BY <1>5, <1>6, <1>10 DEF Step
  <2> QED
    BY <1>2, <1>4, <1>5, <1>6, <1>10, <2>1 DEF Step, Over
<1>11. CASE AgentCrashes
  BY <1>2, <1>4, <1>5, <1>6, <1>11 DEF AgentCrashes, FailedByCrash
<1>12. CASE LLMFails
  <2>1. config.architecture # "monolithic"
    BY <1>4, <1>5, <1>6, <1>12 DEF LLMFails
  <2> QED
    BY <1>2, <1>4, <1>12, <2>1 DEF LLMFails, FailedByCrash
<1>13. CASE UNCHANGED vars
  BY <1>2, <1>4, <1>13 DEF vars, FailedByCrash
<1> QED
  BY <1>7, <1>8, <1>9, <1>10, <1>11, <1>12, <1>13 DEF Next, Act

\* A request whose crash target is reached is over only as the crash ends it,
\* never with an answer, whatever the other workers' LLM calls do.  This is the
\* safety half of CrashDecides; that the request is over in the end is the other.
THEOREM CrashNotSurvived == SafeSpec => [](Reached /\ pc \in Over => FailedByCrash)
<1>1. Init => NeverPast
  <2> SUFFICES ASSUME Init, Reached, ~MasterIsTarget
               PROVE  state < config.target /\ pc \notin Over
    BY DEF NeverPast
  <2>1. config.target \in Nat \ {0}
    BY TurnOfTarget DEF Init
  <2> QED
    BY <2>1 DEF Init, Over
<1>2. IInv /\ NeverPast /\ [Next]_vars => NeverPast'
  BY NeverPastStep
<1>3. IInv /\ NeverPast => (Reached /\ pc \in Over => FailedByCrash)
  <2>1. IInv /\ MasterIsTarget /\ pc \in Over => pc = "failed"
    BY DEF IInv, Walk, Over
  <2> QED
    BY <2>1 DEF NeverPast, FailedByCrash, MasterIsTarget
<1> QED
  BY <1>1, <1>2, <1>3, Invariance, PTL DEF SafeSpec

-----------------------------------------------------------------------------
(* A request never goes on for ever. *)

\* An upper bound of the steps of the thread until the request is over.
StepsLeft ==
  CASE pc = "start"     -> 2 * Turns + 2
    [] pc = "loop"      -> 2 * (Turns - state) + 1
    [] pc = "executing" -> 2 * (Turns - state)
    [] pc \in Over      -> 0

\* Each step of the thread is nearer to the end of the request: no agent is asked
\* twice for a step, and a chain of n turns is over after 2n + 2 steps of the
\* thread at most, whatever crashes or raises.
THEOREM RunsOut ==
  SafeSpec => [](StepsLeft \in 0 .. 2 * Turns + 2) /\ [][StepsLeft' < StepsLeft]_vars
<1>1. IInv => StepsLeft \in 0 .. 2 * Turns + 2
  BY TurnsComplete DEF IInv, TypeOK, StepsLeft, Over
<1>2. IInv /\ [Next]_vars => [StepsLeft' < StepsLeft]_vars
  <2> SUFFICES ASSUME IInv, Act
               PROVE  StepsLeft' < StepsLeft
    BY DEF Next
  <2>1. /\ Turns \in Nat \ {0} /\ state \in 0 .. Turns
        /\ pc = "executing" => state < Turns
        /\ Turns' = Turns
    <3>1. config' = config
      BY DEF Act, MasterCrashes, Begin, Dispatch, Return, Step, AgentCrashes, LLMFails
    <3> QED
      BY <3>1, TurnsComplete DEF IInv, TypeOK, Walk
  <2>2. CASE MasterCrashes \/ Begin
    <3>1. pc = "start" => state = 0
      BY DEF IInv, Walk
    <3> QED
      BY <2>1, <2>2, <3>1 DEF MasterCrashes, Begin, StepsLeft, Over
  <2>3. CASE Dispatch \/ Return
    BY <2>1, <2>3 DEF Dispatch, Return, StepsLeft, Over
  <2>4. CASE Step
    BY <2>1, <2>4 DEF Step, StepsLeft, Over
  <2>5. CASE AgentCrashes \/ LLMFails
    BY <2>1, <2>5 DEF AgentCrashes, LLMFails, StepsLeft, Over
  <2> QED
    BY <2>2, <2>3, <2>4, <2>5 DEF Act
<1> QED
  BY <1>1, <1>2, Invariance, PTL DEF SafeSpec
=============================================================================
