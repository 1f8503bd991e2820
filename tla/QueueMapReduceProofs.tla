------------------------ MODULE QueueMapReduceProofs ------------------------
(***************************************************************************)
(* Proofs about QueueMapReduce, for any number of workers, chunks and      *)
(* early timeouts.  They use the safety part of the specification only.    *)
(***************************************************************************)
EXTENDS QueueMapReduce, SequenceTheorems, FiniteSetTheorems, TLAPS

-----------------------------------------------------------------------------
(* Sequences. *)

\* Appending adds one element to the range of a sequence.
LEMMA RangeAppend ==
  ASSUME NEW S, NEW s \in Seq(S), NEW e \in S
  PROVE  Range(Append(s, e)) = Range(s) \cup {e}
<1>1. Range(<<e>>) = {e} /\ <<e>> \in Seq(S)
  BY RangeEquality DEF Range
<1>2. Range(s \o <<e>>) = Range(s) \cup Range(<<e>>)
  BY <1>1, RangeConcatenation, Zenon
<1> QED
  BY <1>1, <1>2, AppendIsConcat

\* Appending a new element keeps a sequence free of duplicates.
LEMMA InjectiveAppend ==
  ASSUME NEW S, NEW s \in Seq(S), NEW e \in S,
         IsInjective(s), e \notin Range(s)
  PROVE  IsInjective(Append(s, e))
<1>1. DOMAIN Append(s, e) = 1 .. Len(s) + 1 /\ DOMAIN s = 1 .. Len(s) /\ Len(s) \in Nat
  OBVIOUS
<1> QED
  BY <1>1, AppendProperties DEF IsInjective, Range

-----------------------------------------------------------------------------
(* Queues. *)

\* A message put on a queue is there, with all that was there before.
LEMMA InQueueAppend ==
  ASSUME NEW q \in Seq(Messages), NEW m \in Messages
  PROVE  /\ InQueue(Append(q, m), m.chunk)
         /\ \A c : InQueue(q, c) => InQueue(Append(q, m), c)
<1>1. /\ Len(Append(q, m)) = Len(q) + 1
      /\ Len(q) \in Nat
      /\ Append(q, m)[Len(q) + 1] = m
      /\ \A i \in 1 .. Len(q) : Append(q, m)[i] = q[i]
  OBVIOUS
<1> QED
  BY <1>1 DEF InQueue

\* Taking the head leaves every other message on the queue.
LEMMA InQueueTail ==
  ASSUME NEW q \in Seq(Messages), q # <<>>,
         NEW c, InQueue(q, c)
  PROVE  Head(q).chunk = c \/ InQueue(Tail(q), c)
<1>1. PICK i \in 1 .. Len(q) : q[i].chunk = c
  BY DEF InQueue
<1>2. /\ Len(Tail(q)) = Len(q) - 1
      /\ Len(q) \in Nat
      /\ Head(q) = q[1]
      /\ \A j \in 1 .. Len(q) - 1 : Tail(q)[j] = q[j + 1]
  BY HeadTailProperties
<1>3. CASE i = 1
  BY <1>1, <1>2, <1>3
<1>4. CASE i # 1
  <2>1. i - 1 \in 1 .. Len(q) - 1 /\ Tail(q)[i - 1] = q[i]
    BY <1>2, <1>4
  <2> QED
    BY <1>1, <1>2, <2>1 DEF InQueue
<1> QED
  BY <1>3, <1>4

-----------------------------------------------------------------------------
(* Type correctness. *)

\* A worker holds a message from when it takes it until it delivers the answer,
\* and for ever when it dies over it.
HeldWhileHandling ==
  \A w \in Workers : held[w] # None <=> wpc[w] \in {"handling", "dead"}

TypeInv == TypeOK /\ HeldWhileHandling

LEMMA TypeInvariance == SafeSpec => []TypeInv
<1>1. Init => TypeInv
  <2> SUFFICES ASSUME Init
               PROVE  TypeInv
    OBVIOUS
  <2>1. results \in Seq(Chunks) /\ taskQ \in Seq(Messages) /\ resQ \in Seq(Messages)
    BY EmptySeq DEF Init
  <2>2. early \in 0 .. MaxEarly
    BY ConstantsAssumption DEF Init
  <2>3. /\ wpc \in [Workers -> Dead \cup {"loop", "poll", "handling"}]
        /\ held \in [Workers -> Messages \cup {None}]
        /\ HeldWhileHandling
    BY DEF Init, HeldWhileHandling, Dead
  <2> QED
    BY <2>1, <2>2, <2>3 DEF Init, TypeInv, TypeOK, Over
<1>2. TypeInv /\ [Next]_vars => TypeInv'
  <2> SUFFICES ASSUME TypeInv, [Next]_vars
               PROVE  TypeInv'
    OBVIOUS
  <2> USE DEF TypeInv, TypeOK, HeldWhileHandling, Over, Dead
  <2>1. CASE OrchestratorCrashes
    BY <2>1 DEF OrchestratorCrashes, workerVars
  <2>2. CASE Split
    BY <2>2 DEF Split, Published, workerVars
  <2>3. CASE Put
    <3>1. PICK c \in toPut : /\ taskQ' = Append(taskQ, Task(c))
                             /\ toPut' = toPut \ {c}
                             /\ opc' \in {"check", opc}
      BY <2>3 DEF Put
    <3>2. Task(c) \in Messages
      BY <3>1 DEF Task, Messages
    <3> QED
      BY <2>3, <3>1, <3>2 DEF Put, workerVars
  <2>4. CASE Check
    BY <2>4 DEF Check, workerVars
  <2>5. CASE Receive
    <3>1. Head(resQ) \in Messages /\ Tail(resQ) \in Seq(Messages)
      BY <2>5, HeadTailProperties DEF Receive
    <3>2. Head(resQ).chunk \in Chunks
      BY <3>1 DEF Messages
    <3>3. results' \in Seq(Chunks) /\ pending' \subseteq Chunks
      <4>1. CASE Counts(Head(resQ))
        <5>1. /\ results' = Append(results, Head(resQ).chunk)
              /\ pending' = pending \ {Head(resQ).chunk}
          BY <2>5, <4>1 DEF Receive
        <5> QED
          BY <3>2, <5>1
      <4>2. CASE ~Counts(Head(resQ))
        BY <2>5, <4>2 DEF Receive
      <4> QED
        BY <4>1, <4>2
    <3>4. /\ resQ' = Tail(resQ)
          /\ opc' = "check"
          /\ UNCHANGED <<target, toPut, early, stop, taskQ, wpc, held>>
      BY <2>5 DEF Receive, workerVars
    <3> QED
      BY <3>1, <3>3, <3>4
  <2>6. CASE Timeout
    <3>1. early' \in 0 .. MaxEarly
      BY <2>6, ConstantsAssumption DEF Timeout, Quiet
    <3> QED
      BY <2>6, <3>1 DEF Timeout, Requeued, workerVars
  <2>7. CASE Reduce
    BY <2>7 DEF Reduce, workerVars
  <2>8. CASE ReduceFails
    BY <2>8 DEF ReduceFails, workerVars
  <2>9. CASE Return
    BY <2>9 DEF Return, workerVars
  <2>10. ASSUME NEW w \in Workers, CheckStop(w)
         PROVE  TypeInv'
    BY <2>10 DEF CheckStop, orchVars
  <2>11. ASSUME NEW w \in Workers, PollEmpty(w)
         PROVE  TypeInv'
    BY <2>11 DEF PollEmpty, orchVars
  <2>12. ASSUME NEW w \in Workers, Take(w)
         PROVE  TypeInv'
    <3>1. Head(taskQ) \in Messages /\ Tail(taskQ) \in Seq(Messages)
      BY <2>12, HeadTailProperties DEF Take
    <3>2. Head(taskQ) # None
      BY <3>1, ConstantsAssumption
    <3> QED
      BY <2>12, <3>1, <3>2 DEF Take, orchVars
  <2>13. ASSUME NEW w \in Workers, Die(w)
         PROVE  TypeInv'
    BY <2>13 DEF Die, orchVars
  <2>14. ASSUME NEW w \in Workers, Deliver(w)
         PROVE  TypeInv'
    <3>1. held[w] \in Messages
      BY <2>14 DEF Deliver
    <3>2. resQ' \in Seq(Messages)
      BY <2>14, <3>1 DEF Deliver
    <3> QED
      BY <2>14, <3>2 DEF Deliver, orchVars
  <2>15. CASE UNCHANGED vars
    BY <2>15 DEF vars, orchVars, workerVars
  <2> QED
    BY <2>1, <2>2, <2>3, <2>4, <2>5, <2>6, <2>7, <2>8, <2>9, <2>10, <2>11,
       <2>12, <2>13, <2>14, <2>15 DEF Next, OrchestratorStep, WorkerStep, Done
<1> QED
  BY <1>1, <1>2, PTL DEF SafeSpec

\* Every reachable state has the types the code gives it: chunks are chunks of
\* this document, and whatever is queued or held is a message that the
\* orchestrator made.
THEOREM TypeCorrect == SafeSpec => []TypeOK
  BY TypeInvariance, PTL DEF TypeInv

-----------------------------------------------------------------------------
(* Each summary is gathered once.                                          *)
(*                                                                         *)
(* CollectedOnce is not inductive: the steps that publish would have to be *)
(* shown to leave the pending chunks alone, and the steps after the loop   *)
(* to be taken with none left.  PhaseInv adds what the orchestrator's      *)
(* position says of pending and results.                                   *)

PhaseInv ==
  /\ opc \in {"start", "crashed"} => pending = {} /\ results = <<>>
  /\ opc \in {"reduce", "join", "returned", "reduceFailed"} => pending = {}
  /\ opc \notin {"publish", "requeue"} => toPut = {}
  /\ toPut \subseteq pending

CollectedInv == PhaseInv /\ CollectedOnce

LEMMA CollectedInvariance == SafeSpec => []CollectedInv
<1>1. Init => CollectedInv
  BY DEF Init, CollectedInv, PhaseInv, CollectedOnce, Range, IsInjective
<1>2. TypeOK /\ CollectedInv /\ [Next]_vars => CollectedInv'
  <2> SUFFICES ASSUME TypeOK, CollectedInv, [Next]_vars
               PROVE  CollectedInv'
    OBVIOUS
  <2> USE DEF CollectedInv, PhaseInv, CollectedOnce
  <2>1. CASE OrchestratorCrashes
    BY <2>1 DEF OrchestratorCrashes
  <2>2. CASE Split
    <3>1. results = <<>> /\ Range(results) = {}
      BY <2>2 DEF Split, Range
    <3> QED
      BY <2>2, <3>1 DEF Split, Published
  <2>3. CASE Put
    BY <2>3 DEF Put
  <2>4. CASE Check
    BY <2>4 DEF Check
  <2>5. CASE Receive
    <3>1. CASE Counts(Head(resQ))
      <4> DEFINE c == Head(resQ).chunk
      <4>1. /\ c \in pending /\ c \in Chunks /\ c \notin Range(results)
            /\ results' = Append(results, c)
            /\ pending' = pending \ {c}
        BY <2>5, <3>1 DEF Receive, Counts, TypeOK
      <4> HIDE DEF c
      <4>2. Range(results') = Range(results) \cup {c}
        BY <4>1, RangeAppend DEF TypeOK
      <4>3. IsInjective(results')
        BY <4>1, InjectiveAppend DEF TypeOK
      <4> QED
        BY <2>5, <4>1, <4>2, <4>3 DEF Receive
    <3>2. CASE ~Counts(Head(resQ))
      BY <2>5, <3>2 DEF Receive
    <3> QED
      BY <3>1, <3>2
  <2>6. CASE Timeout
    BY <2>6 DEF Timeout, Requeued
  <2>7. CASE Reduce
    BY <2>7 DEF Reduce
  <2>8. CASE ReduceFails
    BY <2>8 DEF ReduceFails
  <2>9. CASE Return
    BY <2>9 DEF Return
  <2>10. CASE UNCHANGED orchVars
    BY <2>10 DEF orchVars
  <2> QED
    BY <2>1, <2>2, <2>3, <2>4, <2>5, <2>6, <2>7, <2>8, <2>9, <2>10
    DEF Next, OrchestratorStep, WorkerStep, Done, vars,
        CheckStop, PollEmpty, Take, Die, Deliver
<1> QED
  BY <1>1, <1>2, TypeCorrect, PTL DEF SafeSpec

\* Whatever the retries and late answers, no summary is in the results list
\* twice, and the list and the pending chunks make up the document.
THEOREM EachSummaryOnce == SafeSpec => []CollectedOnce
  BY CollectedInvariance, PTL DEF CollectedInv

-----------------------------------------------------------------------------
(* No chunk gets lost. *)

\* Where a chunk is accounted for, so that the steps below can name it.
Accounted(c) == \/ c \in toPut
                \/ InQueue(taskQ, c) \/ InQueue(resQ, c)
                \/ \E w \in Workers : Holds(w, c)

\* A chunk that is awaited is on its way, or in the hands of a worker: nothing
\* but the death of a worker loses one, and the dead worker still holds it.
THEOREM NoChunkLost == SafeSpec => []ChunkAccounted
<1>1. Init => ChunkAccounted
  BY DEF Init, ChunkAccounted
<1>2. TypeInv /\ ChunkAccounted /\ [Next]_vars => ChunkAccounted'
  <2> SUFFICES ASSUME TypeInv, ChunkAccounted, [Next]_vars,
                      NEW c \in pending'
               PROVE  Accounted(c)'
    BY DEF ChunkAccounted, Accounted
  <2> USE DEF Accounted, Holds
  <2>0. TypeOK /\ HeldWhileHandling /\ (c \in pending => Accounted(c))
    BY DEF TypeInv, ChunkAccounted
  <2>1. CASE OrchestratorCrashes
    BY <2>0, <2>1 DEF OrchestratorCrashes, workerVars
  <2>2. CASE Split
    BY <2>2 DEF Split, Published
  <2>3. CASE Put
    <3>1. PICK d \in toPut : /\ taskQ' = Append(taskQ, Task(d))
                             /\ toPut' = toPut \ {d}
                             /\ UNCHANGED <<pending, resQ, held>>
      BY <2>3 DEF Put, workerVars
    <3>2. Task(d) \in Messages /\ Task(d).chunk = d
      BY <2>0, <3>1 DEF Task, Messages, TypeOK
    <3>3. InQueue(taskQ', d) /\ (InQueue(taskQ, c) => InQueue(taskQ', c))
      BY <2>0, <3>1, <3>2, InQueueAppend DEF TypeOK
    <3> QED
      BY <2>0, <3>1, <3>3
  <2>4. CASE Check
    BY <2>0, <2>4 DEF Check, workerVars
  <2>5. CASE Receive
    <3>1. /\ resQ \in Seq(Messages) /\ resQ # <<>>
          /\ resQ' = Tail(resQ)
          /\ UNCHANGED <<toPut, taskQ, held>>
      BY <2>0, <2>5 DEF Receive, workerVars, TypeOK
    <3>2. c \in pending /\ c # Head(resQ).chunk
      BY <2>5 DEF Receive, Counts
    <3>3. InQueue(resQ, c) => InQueue(resQ', c)
      BY <3>1, <3>2, InQueueTail
    <3> QED
      BY <2>0, <3>1, <3>2, <3>3
  <2>6. CASE Timeout
    BY <2>6 DEF Timeout, Requeued
  <2>7. CASE Reduce
    BY <2>0, <2>7 DEF Reduce, workerVars
  <2>8. CASE ReduceFails
    BY <2>0, <2>8 DEF ReduceFails, workerVars
  <2>9. CASE Return
    BY <2>0, <2>9 DEF Return, workerVars
  <2>10. ASSUME NEW w \in Workers, CheckStop(w) \/ PollEmpty(w) \/ Die(w)
         PROVE  Accounted(c)'
    BY <2>0, <2>10 DEF CheckStop, PollEmpty, Die, orchVars
  <2>11. ASSUME NEW w \in Workers, Take(w)
         PROVE  Accounted(c)'
    <3>1. /\ taskQ \in Seq(Messages) /\ taskQ # <<>>
          /\ taskQ' = Tail(taskQ)
          /\ held' = [held EXCEPT ![w] = Head(taskQ)]
          /\ UNCHANGED <<toPut, pending, resQ>>
      BY <2>0, <2>11 DEF Take, orchVars, TypeOK
    <3>2. held[w] = None /\ held'[w] = Head(taskQ)
      BY <2>0, <2>11, <3>1 DEF Take, TypeOK, HeldWhileHandling
    <3>3. Head(taskQ) # None
      BY <3>1, HeadTailProperties, ConstantsAssumption
    <3>4. InQueue(taskQ, c) => Head(taskQ).chunk = c \/ InQueue(taskQ', c)
      BY <3>1, InQueueTail
    <3>5. \A v \in Workers : Holds(v, c) => Holds(v, c)'
      BY <2>0, <3>1, <3>2 DEF TypeOK
    <3> QED
      BY <2>0, <3>1, <3>2, <3>3, <3>4, <3>5
  <2>12. ASSUME NEW w \in Workers, Deliver(w)
         PROVE  Accounted(c)'
    <3>1. /\ resQ' = Append(resQ, held[w])
          /\ held' = [held EXCEPT ![w] = None]
          /\ UNCHANGED <<toPut, pending, taskQ>>
      BY <2>12 DEF Deliver, orchVars
    <3>2. held[w] \in Messages /\ resQ \in Seq(Messages)
      BY <2>0, <2>12 DEF Deliver, TypeOK, HeldWhileHandling
    <3>3. /\ InQueue(resQ', held[w].chunk)
          /\ InQueue(resQ, c) => InQueue(resQ', c)
      BY <3>1, <3>2, InQueueAppend
    <3>4. \A v \in Workers : v # w /\ Holds(v, c) => Holds(v, c)'
      BY <2>0, <3>1 DEF TypeOK
    <3> QED
      BY <2>0, <3>1, <3>3, <3>4
  <2>13. CASE UNCHANGED vars
    BY <2>0, <2>13 DEF vars, orchVars, workerVars
  <2> QED
    BY <2>1, <2>2, <2>3, <2>4, <2>5, <2>6, <2>7, <2>8, <2>9, <2>10, <2>11,
       <2>12, <2>13 DEF Next, OrchestratorStep, WorkerStep, Done
<1> QED
  BY <1>1, <1>2, TypeInvariance, PTL DEF SafeSpec

-----------------------------------------------------------------------------
(* The request keeps the promise of MapReduce. *)

\* Every behaviour of the request is one of the abstract request: it gathers
\* each chunk at most once, answers only with all of them gathered, and what
\* happens after the answer or the failure changes neither.
THEOREM Implementation == SafeSpec => MR!SafeSpec
<1> USE DEF Outcome
<1>1. Init => MR!Init
  BY DEF Init, MR!Init
<1>2. TypeOK /\ CollectedInv /\ [Next]_vars => [MR!Next]_(MR!vars)
  <2> SUFFICES ASSUME TypeOK, CollectedInv, [Next]_vars
               PROVE  MR!Next \/ UNCHANGED <<results, Outcome>>
    BY DEF MR!vars
  <2>0. MR!Range(results) = Range(results)
    BY DEF MR!Range, Range
  <2>1. CASE OrchestratorCrashes
    BY <2>1 DEF OrchestratorCrashes, MR!Next, MR!Fail
  <2>2. CASE Split
    BY <2>2 DEF Split
  <2>3. CASE Put
    BY <2>3 DEF Put
  <2>4. CASE Check
    BY <2>4 DEF Check, MR!Next, MR!Fail
  <2>5. CASE Receive
    <3>1. CASE Counts(Head(resQ))
      <4>1. MR!Gather(Head(resQ).chunk)
        BY <2>0, <2>5, <3>1
        DEF Receive, Counts, MR!Gather, CollectedInv, CollectedOnce, TypeOK
      <4>2. Head(resQ).chunk \in Chunks
        BY <3>1 DEF Counts, TypeOK
      <4> QED
        BY <4>1, <4>2 DEF MR!Next
    <3>2. CASE ~Counts(Head(resQ))
      BY <2>5, <3>2 DEF Receive
    <3> QED
      BY <3>1, <3>2
  <2>6. CASE Timeout
    BY <2>6 DEF Timeout
  <2>7. CASE Reduce
    BY <2>0, <2>7 DEF Reduce, MR!Next, MR!Answer, CollectedInv, CollectedOnce, PhaseInv
  <2>8. CASE ReduceFails
    BY <2>8 DEF ReduceFails, MR!Next, MR!Fail
  <2>9. CASE Return
    BY <2>9 DEF Return
  <2>10. CASE UNCHANGED orchVars
    BY <2>10 DEF orchVars
  <2> QED
    BY <2>1, <2>2, <2>3, <2>4, <2>5, <2>6, <2>7, <2>8, <2>9, <2>10
    DEF Next, OrchestratorStep, WorkerStep, Done, vars,
        CheckStop, PollEmpty, Take, Die, Deliver
<1> QED
  BY <1>1, <1>2, TypeCorrect, CollectedInvariance, PTL DEF SafeSpec, MR!SafeSpec

-----------------------------------------------------------------------------
(* A gathered chunk is not published again. *)

\* The places of a chunk on a queue are numbers up to its length.
LEMMA PlacesFinite ==
  ASSUME NEW q \in Seq(Messages), NEW c
  PROVE  IsFiniteSet({i \in 1 .. Len(q) : q[i].chunk = c})
<1>1. IsFiniteSet(1 .. Len(q))
  BY FS_Interval, LenProperties
<1> QED
  BY <1>1, FS_Subset

\* Publishing another chunk adds no copy of this one.
LEMMA CopiesAppend ==
  ASSUME NEW q \in Seq(Messages), NEW m \in Messages,
         NEW c, m.chunk # c
  PROVE  CopiesIn(Append(q, m), c) = CopiesIn(q, c)
<1>1. /\ Len(Append(q, m)) = Len(q) + 1
      /\ Len(q) \in Nat
      /\ Append(q, m)[Len(q) + 1] = m
      /\ \A i \in 1 .. Len(q) : Append(q, m)[i] = q[i]
  OBVIOUS
<1>2. {i \in 1 .. Len(Append(q, m)) : Append(q, m)[i].chunk = c}
        = {i \in 1 .. Len(q) : q[i].chunk = c}
  BY <1>1
<1> QED
  BY <1>2 DEF CopiesIn

\* Taking the head off a queue adds no copy: each place moves down by one.
LEMMA CopiesTail ==
  ASSUME NEW q \in Seq(Messages), q # <<>>, NEW c
  PROVE  CopiesIn(Tail(q), c) <= CopiesIn(q, c)
<1> DEFINE S == {i \in 1 .. Len(Tail(q)) : Tail(q)[i].chunk = c}
           T == {i \in 1 .. Len(q) : q[i].chunk = c}
           up == [i \in S |-> i + 1]
<1>1. /\ Len(Tail(q)) = Len(q) - 1
      /\ Len(q) \in Nat
      /\ \A i \in 1 .. Len(Tail(q)) : Tail(q)[i] = q[i + 1]
  BY HeadTailProperties
<1>2. up \in [S -> T]
  BY <1>1
<1>3. \A i, j \in S : i + 1 = j + 1 => i = j
  BY <1>1
<1>4. up \in Injection(S, T)
  BY <1>2, <1>3 DEF Injection, IsInjective
<1>5. IsFiniteSet(T)
  BY PlacesFinite
<1>6. Cardinality(S) <= Cardinality(T)
  BY <1>4, <1>5, FS_Injection
<1> QED
  BY <1>6 DEF CopiesIn

\* The number of copies on a queue is a number, so it is at most itself.
LEMMA CopiesNat ==
  ASSUME NEW q \in Seq(Messages), NEW c
  PROVE  CopiesIn(q, c) \in Nat
BY PlacesFinite, FS_CardinalityType DEF CopiesIn

\* No step puts on the task queue a chunk whose summary is already gathered:
\* the publishing loops go through pending chunks only.
THEOREM NoRepublication == SafeSpec => NoWorkForCollected
<1>1. TypeOK /\ CollectedInv /\ [Next]_vars
        => [\A c \in Range(results) : CopiesIn(taskQ', c) <= CopiesIn(taskQ, c)]_vars
  <2> SUFFICES ASSUME TypeOK, CollectedInv, Next,
                      NEW c \in Range(results)
               PROVE  CopiesIn(taskQ', c) <= CopiesIn(taskQ, c)
    OBVIOUS
  <2>0. /\ taskQ \in Seq(Messages)
        /\ toPut \subseteq Chunks /\ c \notin toPut
        /\ CopiesIn(taskQ, c) <= CopiesIn(taskQ, c)
    BY CopiesNat DEF TypeOK, CollectedInv, CollectedOnce, PhaseInv
  <2>1. CASE Put
    <3>1. PICK d \in toPut : taskQ' = Append(taskQ, Task(d))
      BY <2>1 DEF Put
    <3>2. Task(d) \in Messages /\ Task(d).chunk # c
      BY <2>0, <3>1 DEF Task, Messages
    <3> QED
      BY <2>0, <3>1, <3>2, CopiesAppend
  <2>2. ASSUME NEW w \in Workers, Take(w)
        PROVE  CopiesIn(taskQ', c) <= CopiesIn(taskQ, c)
    BY <2>0, <2>2, CopiesTail DEF Take
  <2>3. CASE UNCHANGED taskQ
    BY <2>0, <2>3
  <2> QED
    BY <2>1, <2>2, <2>3
    DEF Next, OrchestratorStep, WorkerStep, Done, vars, orchVars,
        OrchestratorCrashes, Split, Check, Receive, Timeout, Reduce,
        ReduceFails, Return, CheckStop, PollEmpty, Die, Deliver
<1> QED
  BY <1>1, TypeCorrect, CollectedInvariance, PTL DEF SafeSpec, NoWorkForCollected

-----------------------------------------------------------------------------
(* Duplicates are bounded by the early timeouts.                           *)
(*                                                                         *)
(* Inductive with what PhaseInv says of toPut, with the queues being empty *)
(* before the split, and with the orchestrator waiting for an answer only  *)
(* where the copy for dead workers is still to be made: it looks at the    *)
(* workers before it waits again.  Workers may be infinite: what is finite *)
(* is the set of those that handle a message.                              *)

Handling(c) == {w \in Workers : wpc[w] = "handling" /\ Holds(w, c)}
Busy == {w \in Workers : wpc[w] = "handling"}

BoundInv ==
  /\ IsFiniteSet(Busy)
  /\ opc = "start" => taskQ = <<>> /\ resQ = <<>> /\ Busy = {}
  /\ opc = "get" => \A c \in Chunks : Copies(c) <= 1 + early
  /\ DuplicateBound

\* Publishing a chunk adds one copy of it.
LEMMA CopiesAppendSame ==
  ASSUME NEW q \in Seq(Messages), NEW m \in Messages
  PROVE  CopiesIn(Append(q, m), m.chunk) = CopiesIn(q, m.chunk) + 1
<1> DEFINE T == {i \in 1 .. Len(q) : q[i].chunk = m.chunk}
<1>1. /\ Len(Append(q, m)) = Len(q) + 1
      /\ Len(q) \in Nat
      /\ Append(q, m)[Len(q) + 1] = m
      /\ \A i \in 1 .. Len(q) : Append(q, m)[i] = q[i]
  OBVIOUS
<1>2. {i \in 1 .. Len(Append(q, m)) : Append(q, m)[i].chunk = m.chunk} = T \cup {Len(q) + 1}
  BY <1>1
<1>3. IsFiniteSet(T)
  BY PlacesFinite
<1>4. Len(q) + 1 \notin T
  BY <1>1
<1> HIDE DEF T
<1>5. Cardinality(T \cup {Len(q) + 1}) = Cardinality(T) + 1
  BY <1>3, <1>4, FS_AddElement
<1> QED
  BY <1>2, <1>5 DEF CopiesIn, T

\* Taking a chunk removes one copy of it.
LEMMA CopiesTailSame ==
  ASSUME NEW q \in Seq(Messages), q # <<>>
  PROVE  CopiesIn(Tail(q), Head(q).chunk) + 1 <= CopiesIn(q, Head(q).chunk)
<1> DEFINE c == Head(q).chunk
           S == {i \in 1 .. Len(Tail(q)) : Tail(q)[i].chunk = c}
           T == {i \in 1 .. Len(q) : q[i].chunk = c}
           up == [i \in S |-> i + 1]
<1>1. /\ Len(Tail(q)) = Len(q) - 1
      /\ Len(q) \in Nat \ {0}
      /\ Head(q) = q[1]
      /\ \A i \in 1 .. Len(Tail(q)) : Tail(q)[i] = q[i + 1]
  BY HeadTailProperties, EmptySeq, LenProperties
<1>2. IsFiniteSet(T)
  BY PlacesFinite
<1>3. 1 \in T
  BY <1>1
<1>4. up \in [S -> T \ {1}]
  BY <1>1
<1>5. \A i, j \in S : i + 1 = j + 1 => i = j
  BY <1>1
<1>6. up \in Injection(S, T \ {1})
  BY <1>4, <1>5 DEF Injection, IsInjective
<1>7. Cardinality(S) = CopiesIn(Tail(q), c) /\ Cardinality(T) = CopiesIn(q, c)
  BY DEF CopiesIn
<1> HIDE DEF S, T, up, c
<1>8. /\ IsFiniteSet(T \ {1}) /\ Cardinality(T \ {1}) = Cardinality(T) - 1
      /\ Cardinality(T) \in Nat
  BY <1>2, <1>3, FS_RemoveElement, FS_CardinalityType
<1>9. IsFiniteSet(S) /\ Cardinality(S) <= Cardinality(T \ {1})
  BY <1>6, <1>8, FS_Injection
<1>10. Cardinality(S) \in Nat
  BY <1>9, FS_CardinalityType
<1> QED
  BY <1>7, <1>8, <1>9, <1>10 DEF c

\* The counts that make up the copies are numbers.
LEMMA CountsNat ==
  ASSUME TypeOK, IsFiniteSet(Busy), NEW c
  PROVE  /\ CopiesIn(taskQ, c) \in Nat /\ CopiesIn(resQ, c) \in Nat
         /\ IsFiniteSet(Handling(c)) /\ Cardinality(Handling(c)) \in Nat
         /\ early \in Nat
<1>1. Handling(c) \subseteq Busy
  BY DEF Handling, Busy
<1> QED
  BY <1>1, CopiesNat, FS_Subset, FS_CardinalityType, ConstantsAssumption DEF TypeOK

\* No worker makes a copy: it moves one from queue to queue, or loses it.
LEMMA WorkersMakeNoCopies ==
  ASSUME TypeInv, IsFiniteSet(Busy), NEW w \in Workers, WorkerStep(w), NEW c \in Chunks
  PROVE  Copies(c) \in Nat /\ Copies(c)' \in Int /\ Copies(c)' <= Copies(c)
<1> DEFINE toCome == IF c \in toPut THEN 1 ELSE 0
<1>0. TypeOK /\ HeldWhileHandling
  BY DEF TypeInv
<1>1. /\ CopiesIn(taskQ, c) \in Nat /\ CopiesIn(resQ, c) \in Nat
      /\ IsFiniteSet(Handling(c)) /\ Cardinality(Handling(c)) \in Nat
  BY <1>0, CountsNat
<1>2. toCome \in Nat /\ toPut' = toPut
  BY DEF WorkerStep, CheckStop, PollEmpty, Take, Die, Deliver, orchVars
<1>3. /\ Copies(c) = CopiesIn(taskQ, c) + CopiesIn(resQ, c)
                     + Cardinality(Handling(c)) + toCome
      /\ Copies(c)' = CopiesIn(taskQ', c) + CopiesIn(resQ', c)
                      + Cardinality(Handling(c)') + toCome
  BY <1>2 DEF Copies, Handling
<1> HIDE DEF toCome
<1>4. CASE CheckStop(w) \/ PollEmpty(w)
  <2>1. Handling(c)' = Handling(c) /\ UNCHANGED <<taskQ, resQ>>
    BY <1>0, <1>4 DEF CheckStop, PollEmpty, Handling, Holds, TypeOK
  <2> QED
    BY <1>1, <1>2, <1>3, <2>1
<1>5. CASE Die(w)
  <2>1. Handling(c)' \subseteq Handling(c) /\ UNCHANGED <<taskQ, resQ>>
    BY <1>0, <1>5 DEF Die, Handling, Holds, TypeOK
  <2>2. Cardinality(Handling(c)') <= Cardinality(Handling(c)) /\ Cardinality(Handling(c)') \in Nat
    BY <1>1, <2>1, FS_Subset, FS_CardinalityType
  <2> QED
    BY <1>1, <1>2, <1>3, <2>1, <2>2
<1>6. CASE Take(w)
  <2>1. /\ taskQ \in Seq(Messages) /\ taskQ # <<>> /\ taskQ' = Tail(taskQ)
        /\ UNCHANGED resQ /\ w \notin Handling(c)
    BY <1>0, <1>6 DEF Take, TypeOK, Handling
  <2>2. CopiesIn(taskQ', c) \in Nat
    BY <2>1, HeadTailProperties, CopiesNat
  <2>3. CASE Head(taskQ).chunk = c
    <3>1. Handling(c)' \subseteq Handling(c) \cup {w}
      BY <1>0, <1>6 DEF Take, Handling, Holds, TypeOK
    <3>2. /\ IsFiniteSet(Handling(c) \cup {w})
          /\ Cardinality(Handling(c) \cup {w}) = Cardinality(Handling(c)) + 1
      BY <1>1, <2>1, FS_AddElement
    <3>3. /\ Cardinality(Handling(c)') <= Cardinality(Handling(c)) + 1
          /\ Cardinality(Handling(c)') \in Nat
      BY <3>1, <3>2, FS_Subset, FS_CardinalityType
    <3>4. CopiesIn(taskQ', c) + 1 <= CopiesIn(taskQ, c)
      BY <2>1, <2>3, CopiesTailSame
    <3> QED
      BY <1>1, <1>2, <1>3, <2>1, <2>2, <3>3, <3>4
  <2>4. CASE Head(taskQ).chunk # c
    <3>1. Handling(c)' = Handling(c)
      BY <1>0, <1>6, <2>4 DEF Take, Handling, Holds, TypeOK
    <3>2. CopiesIn(taskQ', c) <= CopiesIn(taskQ, c)
      BY <2>1, CopiesTail
    <3> QED
      BY <1>1, <1>2, <1>3, <2>1, <2>2, <3>1, <3>2
  <2> QED
    BY <2>3, <2>4
<1>7. CASE Deliver(w)
  <2>1. /\ resQ \in Seq(Messages) /\ held[w] \in Messages /\ held[w] # None
        /\ resQ' = Append(resQ, held[w])
        /\ UNCHANGED taskQ
    BY <1>0, <1>7, ConstantsAssumption DEF Deliver, TypeOK, HeldWhileHandling
  <2>2. Handling(c)' = Handling(c) \ {w}
    BY <1>0, <1>7 DEF Deliver, Handling, Holds, TypeOK
  <2>3. CASE held[w].chunk = c
    <3>1. w \in Handling(c)
      BY <1>7, <2>1, <2>3 DEF Deliver, Handling, Holds
    <3>2. Cardinality(Handling(c)') = Cardinality(Handling(c)) - 1
      BY <1>1, <2>2, <3>1, FS_RemoveElement
    <3>3. CopiesIn(resQ', c) = CopiesIn(resQ, c) + 1
      BY <2>1, <2>3, CopiesAppendSame
    <3> QED
      BY <1>1, <1>2, <1>3, <2>1, <3>2, <3>3
  <2>4. CASE held[w].chunk # c
    <3>1. Handling(c)' = Handling(c)
      BY <2>2, <2>4 DEF Handling, Holds
    <3>2. CopiesIn(resQ', c) = CopiesIn(resQ, c)
      BY <2>1, <2>4, CopiesAppend
    <3> QED
      BY <1>1, <1>2, <1>3, <2>1, <3>1, <3>2
  <2> QED
    BY <2>3, <2>4
<1> QED
  BY <1>4, <1>5, <1>6, <1>7 DEF WorkerStep

\* The orchestrator makes copies only in the split, of which there were none
\* before, by giving up on an answer still to come, and once for dead workers.
LEMMA OrchestratorMakesFewCopies ==
  ASSUME TypeOK, PhaseInv, BoundInv, UNCHANGED workerVars,
         OrchestratorStep, NEW c \in Chunks
  PROVE  /\ Copies(c)' <= 1 + early' + (IF AllDead THEN 1 ELSE 0)
         /\ opc' = "get" => Copies(c)' <= 1 + early'
<1> DEFINE noticed == IF AllDead THEN 1 ELSE 0
           toCome == IF c \in toPut THEN 1 ELSE 0
           toComeNext == IF c \in toPut' THEN 1 ELSE 0
           handling == Cardinality(Handling(c))
<1>1. /\ CopiesIn(taskQ, c) \in Nat /\ CopiesIn(resQ, c) \in Nat
      /\ handling \in Nat /\ early \in Nat
  BY CountsNat DEF BoundInv
<1>2. toCome \in {0, 1} /\ toComeNext \in {0, 1} /\ noticed \in {0, 1}
  OBVIOUS
<1>3. Handling(c)' = Handling(c)
  BY DEF workerVars, Handling, Holds
<1>4. /\ Copies(c) = CopiesIn(taskQ, c) + CopiesIn(resQ, c) + handling + toCome
      /\ Copies(c)' = CopiesIn(taskQ', c) + CopiesIn(resQ', c) + handling + toComeNext
  BY <1>3 DEF Copies, Handling
<1>5. Copies(c) <= 1 + early + noticed /\ (opc = "get" => Copies(c) <= 1 + early)
  BY DEF BoundInv, DuplicateBound
<1>6. CopiesIn(<<>>, c) = 0
  BY FS_EmptySet DEF CopiesIn
<1>7. Busy = {} => handling = 0
  <2>1. Busy = {} => Handling(c) = {}
    BY DEF Busy, Handling
  <2> QED
    BY <2>1, FS_EmptySet
<1> SUFFICES /\ Copies(c)' <= 1 + early' + noticed
             /\ opc' = "get" => Copies(c)' <= 1 + early'
  OBVIOUS
<1>8. CASE Check
  <2>1. UNCHANGED <<toPut, early, taskQ, resQ>> /\ (opc' = "get" => noticed = 0)
    BY <1>8 DEF Check
  <2>2. Copies(c)' = Copies(c)
    BY <1>4, <2>1
  <2> HIDE DEF toCome, toComeNext, handling, noticed
  <2> QED
    BY <1>1, <1>2, <1>4, <1>5, <2>1, <2>2
<1>13. CASE UNCHANGED <<toPut, early, taskQ, resQ>> /\ opc' # "get"
  <2>1. Copies(c)' = Copies(c)
    BY <1>4, <1>13
  <2> HIDE DEF toCome, toComeNext, handling, noticed
  <2> QED
    BY <1>1, <1>2, <1>4, <1>5, <1>13, <2>1
<1>9. CASE Split
  <2>1. taskQ' = <<>> /\ resQ' = <<>> /\ Busy = {} /\ early' = early /\ opc' # "get"
    BY <1>9 DEF Split, BoundInv
  <2> HIDE DEF toCome, toComeNext, handling, noticed
  <2> QED
    BY <1>1, <1>2, <1>4, <1>6, <1>7, <2>1
<1>10. CASE Put
  <2>1. PICK d \in toPut : taskQ' = Append(taskQ, Task(d)) /\ toPut' = toPut \ {d}
    BY <1>10 DEF Put
  <2>2. /\ Task(d) \in Messages /\ Task(d).chunk = d /\ taskQ \in Seq(Messages)
        /\ UNCHANGED <<resQ, early>> /\ opc' # "get"
    BY <1>10, <2>1 DEF Put, Task, Messages, TypeOK
  <2>3. CASE c = d
    <3>1. CopiesIn(taskQ', c) = CopiesIn(taskQ, c) + 1 /\ toCome = 1 /\ toComeNext = 0
      BY <2>1, <2>2, <2>3, CopiesAppendSame
    <3> HIDE DEF toCome, toComeNext, handling, noticed
    <3> QED
      BY <1>1, <1>2, <1>4, <1>5, <2>2, <3>1
  <2>4. CASE c # d
    <3>1. CopiesIn(taskQ', c) = CopiesIn(taskQ, c) /\ toComeNext = toCome
      BY <2>1, <2>2, <2>4, CopiesAppend
    <3> HIDE DEF toCome, toComeNext, handling, noticed
    <3> QED
      BY <1>1, <1>2, <1>4, <1>5, <2>2, <3>1
  <2> QED
    BY <2>3, <2>4
<1>11. CASE Receive
  <2>1. /\ resQ \in Seq(Messages) /\ resQ # <<>> /\ resQ' = Tail(resQ)
        /\ UNCHANGED <<toPut, early, taskQ>> /\ opc' # "get"
    BY <1>11 DEF Receive, TypeOK
  <2>2. CopiesIn(resQ', c) <= CopiesIn(resQ, c) /\ CopiesIn(resQ', c) \in Nat
    BY <2>1, CopiesTail, CopiesNat, HeadTailProperties
  <2>3. toComeNext = toCome
    BY <2>1
  <2> HIDE DEF toCome, toComeNext, handling, noticed
  <2> QED
    BY <1>1, <1>2, <1>4, <1>5, <2>1, <2>2, <2>3
<1>12. CASE Timeout
  <2>1. toCome = 0 /\ UNCHANGED <<taskQ, resQ>> /\ opc = "get" /\ opc' # "get"
    BY <1>12 DEF Timeout, PhaseInv
  <2>4. CASE Quiet /\ AllDead
    <3>1. early' = early /\ noticed = 1
      BY <1>12, <2>4 DEF Timeout
    <3> HIDE DEF toCome, toComeNext, handling, noticed
    <3> QED
      BY <1>1, <1>2, <1>4, <1>5, <2>1, <3>1
  <2>2. CASE Quiet /\ ~AllDead
    <3>1. taskQ = <<>> /\ resQ = <<>> /\ Busy = {} /\ early' = early
      BY <1>12, <2>2 DEF Timeout, Quiet, Busy
    <3>2. CopiesIn(taskQ', c) = 0 /\ CopiesIn(resQ', c) = 0 /\ handling = 0
      BY <1>6, <1>7, <2>1, <3>1
    <3> HIDE DEF toCome, toComeNext, handling, noticed
    <3> QED
      BY <1>1, <1>2, <1>4, <3>1, <3>2
  <2>3. CASE ~Quiet
    <3>1. early' = early + 1
      BY <1>12, <2>3 DEF Timeout
    <3> HIDE DEF toCome, toComeNext, handling, noticed
    <3> QED
      BY <1>1, <1>2, <1>4, <1>5, <2>1, <3>1
  <2> QED
    BY <2>4, <2>2, <2>3
<1> QED
  BY <1>8, <1>13, <1>9, <1>10, <1>11, <1>12
  DEF OrchestratorStep, OrchestratorCrashes, Reduce, ReduceFails, Return

\* The bound with what makes it inductive.
LEMMA BoundInvariance == SafeSpec => []BoundInv
<1>1. Init => BoundInv
  <2> SUFFICES ASSUME Init
               PROVE  BoundInv
    OBVIOUS
  <2>1. Busy = {} /\ IsFiniteSet({}) /\ Cardinality({}) = 0
    BY FS_EmptySet DEF Init, Busy
  <2>2. ASSUME NEW c \in Chunks
        PROVE  Copies(c) = 0
    <3>1. Handling(c) = {} /\ CopiesIn(<<>>, c) = 0
      BY <2>1 DEF Handling, Busy, CopiesIn
    <3>2. Copies(c) = CopiesIn(taskQ, c) + CopiesIn(resQ, c) + Cardinality(Handling(c)) + 0
      BY DEF Init, Copies, Handling
    <3> QED
      BY <2>1, <3>1, <3>2 DEF Init
  <2> QED
    BY <2>1, <2>2 DEF Init, BoundInv, DuplicateBound
<1>2. TypeInv /\ CollectedInv /\ BoundInv /\ [Next]_vars => BoundInv'
  <2> SUFFICES ASSUME TypeInv, CollectedInv, BoundInv, [Next]_vars
               PROVE  BoundInv'
    OBVIOUS
  <2>0. TypeOK /\ PhaseInv /\ IsFiniteSet(Busy)
    BY DEF TypeInv, CollectedInv, BoundInv
  <2>1. ASSUME OrchestratorStep
        PROVE  BoundInv'
    <3>1. UNCHANGED workerVars /\ opc' # "start"
      BY <2>1 DEF OrchestratorStep, OrchestratorCrashes, Split, Put, Check, Receive,
                  Timeout, Reduce, ReduceFails, Return
    <3>2. Busy' = Busy /\ AllDead' = AllDead
      BY <3>1 DEF workerVars, Busy, AllDead
    <3>3. \A c \in Chunks : /\ Copies(c)' <= 1 + early' + (IF AllDead THEN 1 ELSE 0)
                            /\ opc' = "get" => Copies(c)' <= 1 + early'
      BY <2>0, <2>1, <3>1, OrchestratorMakesFewCopies
    <3> QED
      BY <2>0, <3>1, <3>2, <3>3 DEF BoundInv, DuplicateBound
  <2>2. ASSUME NEW w \in Workers, WorkerStep(w)
        PROVE  BoundInv'
    <3>1. Busy' \subseteq Busy \cup {w} /\ UNCHANGED <<opc, early>>
      BY <2>0, <2>2 DEF WorkerStep, CheckStop, PollEmpty, Take, Die, Deliver, Busy,
                        orchVars, TypeOK
    <3>2. IsFiniteSet(Busy')
      BY <2>0, <3>1, FS_AddElement, FS_Subset
    <3>3. opc' = "start" => taskQ' = <<>> /\ resQ' = <<>> /\ Busy' = {}
      BY <2>0, <2>2, <3>1 DEF WorkerStep, CheckStop, PollEmpty, Take, Die, Deliver, Busy,
                        BoundInv, TypeOK
    <3>4. ~AllDead
      BY <2>2 DEF WorkerStep, CheckStop, PollEmpty, Take, Die, Deliver, AllDead, Dead
    <3>5. \A c \in Chunks : /\ Copies(c) \in Nat /\ Copies(c)' \in Int
                            /\ Copies(c)' <= Copies(c)
      BY <2>0, <2>2, WorkersMakeNoCopies
    <3>6. early \in Nat /\ \A c \in Chunks : Copies(c) <= 1 + early
      BY <2>0, <3>4, ConstantsAssumption DEF BoundInv, DuplicateBound, TypeOK
    <3>7. \A c \in Chunks : /\ Copies(c)' <= 1 + early'
                            /\ Copies(c)' <= 1 + early' + (IF AllDead' THEN 1 ELSE 0)
      BY <3>1, <3>5, <3>6
    <3> QED
      BY <3>2, <3>3, <3>7 DEF BoundInv, DuplicateBound
  <2>3. CASE UNCHANGED vars
    <3>1. UNCHANGED <<opc, early, taskQ, resQ, Busy>>
      BY <2>3 DEF vars, orchVars, workerVars, Busy
    <3>2. UNCHANGED AllDead /\ \A c \in Chunks : UNCHANGED Copies(c)
      BY <2>3 DEF vars, orchVars, workerVars, AllDead, Copies, Holds
    <3> QED
      BY <3>1, <3>2 DEF BoundInv, DuplicateBound
  <2> QED
    BY <2>1, <2>2, <2>3 DEF Next, Done
<1> QED
  BY <1>1, <1>2, TypeInvariance, CollectedInvariance, PTL DEF SafeSpec

\* However late the answers and whatever the number of workers, the copies of a
\* chunk in the system are at most one more than the early timeouts, and two more
\* when all workers are dead.
THEOREM BoundedDuplicates == SafeSpec => []DuplicateBound
<1>1. BoundInv => DuplicateBound
  BY DEF BoundInv
<1> QED
  BY <1>1, BoundInvariance, PTL

-----------------------------------------------------------------------------
(* A request is given up for a lost chunk.                                 *)
(*                                                                         *)
(* Without early timeouts a chunk has no copy once its summary is gathered *)
(* and one before: so the message the last worker dies over is the only    *)
(* copy of a chunk that is awaited.  Nothing brings it back after that.    *)

\* Where the orchestrator awaits answers, or has ceased to.
Awaiting == {"publish", "check", "get", "requeue", "gaveUp"}

LostInv ==
  /\ stop => opc \in {"join", "returned"}
  /\ opc = "gaveUp" => AllDead
  /\ early = 0 /\ ~AllDead => \A c \in Chunks \ pending : Copies(c) < 1
  /\ early = 0 /\ AllDead /\ opc \in Awaiting => \E c \in pending : ~InQueue(resQ, c)

\* The last death.
LEMMA LastDeathLosesAChunk ==
  ASSUME TypeInv, BoundInv, LostInv, early = 0,
         NEW w \in Workers, WorkerStep(w), AllDead', opc \in Awaiting
  PROVE  \E c \in pending : ~InQueue(resQ, c)
<1>1. ~AllDead
  BY DEF WorkerStep, CheckStop, PollEmpty, Take, Die, Deliver, AllDead, Dead
<1>2. Die(w)
  <2>1. ~stop
    BY DEF LostInv, Awaiting
  <2>2. wpc'[w] \in Dead
    BY DEF AllDead
  <2> QED
    BY <2>1, <2>2 DEF WorkerStep, CheckStop, PollEmpty, Take, Deliver, Dead, TypeInv, TypeOK
<1> DEFINE c == held[w].chunk
<1>3. held[w] \in Messages /\ held[w] # None /\ c \in Chunks
  BY <1>2, ConstantsAssumption DEF Die, TypeInv, TypeOK, HeldWhileHandling, Messages
<1>4. w \in Handling(c)
  BY <1>2, <1>3 DEF Die, Handling, Holds
<1> HIDE DEF c
<1>5. /\ CopiesIn(taskQ, c) \in Nat /\ CopiesIn(resQ, c) \in Nat
      /\ IsFiniteSet(Handling(c)) /\ Cardinality(Handling(c)) \in Nat
  BY CountsNat DEF TypeInv, BoundInv
<1>6. Cardinality(Handling(c)) >= 1
  BY <1>4, <1>5, FS_EmptySet
<1>7. /\ Copies(c) >= CopiesIn(resQ, c) + 1
      /\ Copies(c) \in Nat
  <2>1. Copies(c) = CopiesIn(taskQ, c) + CopiesIn(resQ, c) + Cardinality(Handling(c))
                    + (IF c \in toPut THEN 1 ELSE 0)
    BY DEF Copies, Handling
  <2> QED
    BY <1>5, <1>6, <2>1
<1>8. c \in pending
  BY <1>1, <1>3, <1>5, <1>7 DEF LostInv
<1>9. CopiesIn(resQ, c) = 0
  BY <1>1, <1>3, <1>5, <1>7 DEF BoundInv, DuplicateBound
<1>10. ~InQueue(resQ, c)
  <2>1. resQ \in Seq(Messages)
    BY DEF TypeInv, TypeOK
  <2>2. IsFiniteSet({i \in 1 .. Len(resQ) : resQ[i].chunk = c})
    BY <2>1, PlacesFinite
  <2>3. {i \in 1 .. Len(resQ) : resQ[i].chunk = c} = {}
    BY <1>9, <2>2, FS_EmptySet DEF CopiesIn
  <2> QED
    BY <2>3 DEF InQueue
<1> QED
  BY <1>8, <1>10

\* Gathering a summary takes the last copy of its chunk off the result queue.
LEMMA GatheredHasNoCopy ==
  ASSUME TypeOK, PhaseInv, BoundInv, LostInv, ~AllDead, UNCHANGED workerVars,
         OrchestratorStep, early' = 0, NEW c \in Chunks \ pending'
  PROVE  Copies(c)' < 1
<1> DEFINE toCome == IF c \in toPut THEN 1 ELSE 0
           toComeNext == IF c \in toPut' THEN 1 ELSE 0
           handling == Cardinality(Handling(c))
<1>1. /\ CopiesIn(taskQ, c) \in Nat /\ CopiesIn(resQ, c) \in Nat
      /\ handling \in Nat /\ early \in Nat
  BY CountsNat DEF BoundInv
<1>2. toCome \in {0, 1} /\ toComeNext \in {0, 1}
  OBVIOUS
<1>3. Handling(c)' = Handling(c)
  BY DEF workerVars, Handling, Holds
<1>4. /\ Copies(c) = CopiesIn(taskQ, c) + CopiesIn(resQ, c) + handling + toCome
      /\ Copies(c)' = CopiesIn(taskQ', c) + CopiesIn(resQ', c) + handling + toComeNext
  BY <1>3 DEF Copies, Handling
<1>5. early = 0
  BY <1>1 DEF OrchestratorStep, OrchestratorCrashes, Split, Put, Check, Receive, Timeout,
              Reduce, ReduceFails, Return
<1>6. Copies(c) <= 1 /\ (c \notin pending => Copies(c) < 1)
  BY <1>5 DEF BoundInv, DuplicateBound, LostInv
<1>7. CASE UNCHANGED <<pending, toPut, taskQ, resQ>>
  BY <1>4, <1>6, <1>7
<1>8. CASE Split
  BY <1>8 DEF Split
<1>9. CASE Put
  <2>1. PICK d \in toPut : taskQ' = Append(taskQ, Task(d)) /\ toPut' = toPut \ {d}
    BY <1>9 DEF Put
  <2>2. c \notin pending /\ c # d /\ UNCHANGED resQ
    BY <1>9, <2>1 DEF Put, PhaseInv
  <2>3. Task(d) \in Messages /\ Task(d).chunk = d /\ taskQ \in Seq(Messages)
    BY <2>1 DEF Task, Messages, TypeOK
  <2>4. CopiesIn(taskQ', c) = CopiesIn(taskQ, c) /\ toComeNext = toCome
    BY <2>1, <2>2, <2>3, CopiesAppend
  <2> HIDE DEF toCome, toComeNext, handling
  <2> QED
    BY <1>4, <1>6, <2>2, <2>4
<1>10. CASE Receive
  <2>1. /\ resQ \in Seq(Messages) /\ resQ # <<>> /\ resQ' = Tail(resQ)
        /\ UNCHANGED <<toPut, taskQ>> /\ toComeNext = toCome
    BY <1>10 DEF Receive, TypeOK
  <2>2. CopiesIn(resQ', c) <= CopiesIn(resQ, c) /\ CopiesIn(resQ', c) \in Nat
    BY <2>1, CopiesTail, CopiesNat, HeadTailProperties
  <2>3. CASE c \notin pending
    <3> HIDE DEF toCome, toComeNext, handling
    <3> QED
      BY <1>1, <1>2, <1>4, <1>6, <2>1, <2>2, <2>3
  <2>4. CASE c \in pending
    <3>1. c = Head(resQ).chunk
      BY <1>10, <2>4 DEF Receive
    <3>2. CopiesIn(resQ', c) + 1 <= CopiesIn(resQ, c)
      BY <2>1, <3>1, CopiesTailSame
    <3> HIDE DEF toCome, toComeNext, handling
    <3> QED
      BY <1>1, <1>2, <1>4, <1>6, <2>1, <2>2, <3>2
  <2> QED
    BY <2>3, <2>4
<1>11. CASE Timeout
  <2>1. /\ c \notin pending /\ toComeNext = 0 /\ UNCHANGED <<taskQ, resQ>>
    BY <1>11 DEF Timeout, Requeued
  <2> HIDE DEF toCome, toComeNext, handling
  <2> QED
    BY <1>1, <1>2, <1>4, <1>6, <2>1
<1> QED
  BY <1>7, <1>8, <1>9, <1>10, <1>11
  DEF OrchestratorStep, OrchestratorCrashes, Check, Reduce, ReduceFails, Return

\* With all workers dead the orchestrator takes off the answers that are there,
\* and none of them is for the lost chunk.
LEMMA LostStaysLost ==
  ASSUME TypeOK, BoundInv, LostInv, AllDead, OrchestratorStep,
         early = 0, opc' \in Awaiting
  PROVE  \E c \in pending' : ~InQueue(resQ', c)
<1>1. CASE Split
  <2>1. resQ' = <<>> /\ pending' = Chunks
    BY <1>1 DEF Split, BoundInv
  <2>2. 0 \in Chunks
    BY ConstantsAssumption DEF Chunks
  <2> QED
    BY <2>1, <2>2 DEF InQueue
<1>2. CASE Receive
  <2>1. PICK c \in pending : ~InQueue(resQ, c)
    BY <1>2 DEF Receive, LostInv, Awaiting
  <2>2. /\ resQ \in Seq(Messages) /\ resQ # <<>> /\ resQ' = Tail(resQ)
        /\ pending \ {Head(resQ).chunk} \subseteq pending'
    BY <1>2 DEF Receive, TypeOK
  <2>3. /\ resQ[1] = Head(resQ) /\ 1 \in 1 .. Len(resQ)
        /\ \A i \in 1 .. Len(resQ') : i + 1 \in 1 .. Len(resQ) /\ resQ'[i] = resQ[i + 1]
    BY <2>2, HeadTailProperties, LenProperties, EmptySeq
  <2>4. Head(resQ).chunk # c /\ ~InQueue(resQ', c)
    BY <2>1, <2>3 DEF InQueue
  <2> QED
    BY <2>1, <2>2, <2>4
<1>3. CASE UNCHANGED <<pending, resQ>> /\ opc \in Awaiting
  BY <1>3 DEF LostInv
<1> QED
  BY <1>1, <1>2, <1>3
  DEF OrchestratorStep, OrchestratorCrashes, Put, Check, Timeout, Reduce, ReduceFails,
      Return, Awaiting

\* The chunk lost with the last worker, from its death on, and why it is lost.
LEMMA LostInvariance == SafeSpec => []LostInv
<1>1. Init => LostInv
  <2> SUFFICES ASSUME Init
               PROVE  LostInv
    OBVIOUS
  <2>1. ASSUME NEW c \in Chunks
        PROVE  Copies(c) = 0
    <3>1. Handling(c) = {} /\ Cardinality({}) = 0
      BY FS_EmptySet DEF Init, Handling
    <3>2. CopiesIn(<<>>, c) = 0
      BY FS_EmptySet DEF CopiesIn
    <3>3. Copies(c) = CopiesIn(taskQ, c) + CopiesIn(resQ, c) + Cardinality(Handling(c)) + 0
      BY DEF Init, Copies, Handling
    <3> QED
      BY <3>1, <3>2, <3>3 DEF Init
  <2> QED
    BY <2>1 DEF Init, LostInv, Awaiting
<1>2. TypeInv /\ CollectedInv /\ BoundInv /\ LostInv /\ [Next]_vars => LostInv'
  <2> SUFFICES ASSUME TypeInv, CollectedInv, BoundInv, LostInv, [Next]_vars
               PROVE  LostInv'
    OBVIOUS
  <2>0. TypeOK /\ PhaseInv /\ IsFiniteSet(Busy) /\ early \in Nat
    BY ConstantsAssumption DEF TypeInv, CollectedInv, BoundInv, TypeOK
  <2>1. ASSUME OrchestratorStep
        PROVE  LostInv'
    <3>1. UNCHANGED workerVars /\ AllDead' = AllDead
      BY <2>1 DEF OrchestratorStep, OrchestratorCrashes, Split, Put, Check, Receive,
                  Timeout, Reduce, ReduceFails, Return, workerVars, AllDead
    <3>2. early' = 0 => early = 0
      BY <2>0, <2>1 DEF OrchestratorStep, OrchestratorCrashes, Split, Put, Check, Receive,
                        Timeout, Reduce, ReduceFails, Return
    <3>3. /\ stop' => opc' \in {"join", "returned"}
          /\ opc' = "gaveUp" => AllDead
      BY <2>1 DEF LostInv, OrchestratorStep, OrchestratorCrashes, Split, Put, Check,
                  Receive, Timeout, Reduce, ReduceFails, Return
    <3>4. early' = 0 /\ ~AllDead => \A c \in Chunks \ pending' : Copies(c)' < 1
      BY <2>0, <2>1, <3>1, GatheredHasNoCopy
    <3>5. early' = 0 /\ AllDead /\ opc' \in Awaiting =>
            \E c \in pending' : ~InQueue(resQ', c)
      BY <2>0, <2>1, <3>2, LostStaysLost
    <3> QED
      BY <3>1, <3>3, <3>4, <3>5 DEF LostInv, InQueue
  <2>2. ASSUME NEW w \in Workers, WorkerStep(w)
        PROVE  LostInv'
    <3>1. UNCHANGED <<opc, stop, early, pending>>
      BY <2>2 DEF WorkerStep, CheckStop, PollEmpty, Take, Die, Deliver, orchVars
    <3>2. ~AllDead
      BY <2>2 DEF WorkerStep, CheckStop, PollEmpty, Take, Die, Deliver, AllDead, Dead
    <3>3. early = 0 => \A c \in Chunks \ pending : Copies(c)' < 1
      <4> SUFFICES ASSUME early = 0, NEW c \in Chunks \ pending
                   PROVE  Copies(c)' < 1
        OBVIOUS
      <4>1. Copies(c) < 1
        BY <3>2 DEF LostInv
      <4>2. Copies(c) \in Nat /\ Copies(c)' \in Int /\ Copies(c)' <= Copies(c)
        BY <2>0, <2>2, WorkersMakeNoCopies
      <4> QED
        BY <4>1, <4>2
    <3>4. early = 0 /\ AllDead' /\ opc \in Awaiting => \E c \in pending : ~InQueue(resQ', c)
      <4> SUFFICES ASSUME early = 0, AllDead', opc \in Awaiting
                   PROVE  \E c \in pending : ~InQueue(resQ', c)
        OBVIOUS
      <4>1. UNCHANGED resQ
        <5>1. wpc'[w] \in Dead
          BY DEF AllDead
        <5> QED
          BY <2>0, <2>2, <5>1 DEF WorkerStep, CheckStop, PollEmpty, Take, Die, Deliver,
                                  Dead, TypeOK
      <4> QED
        BY <2>2, <4>1, LastDeathLosesAChunk
    <3> QED
      BY <3>1, <3>2, <3>3, <3>4 DEF LostInv, InQueue
  <2>3. CASE UNCHANGED vars
    <3>1. UNCHANGED <<opc, stop, early, pending, resQ>>
      BY <2>3 DEF vars, orchVars
    <3>2. UNCHANGED AllDead /\ \A c \in Chunks : UNCHANGED Copies(c)
      BY <2>3 DEF vars, orchVars, workerVars, AllDead, Copies, Holds
    <3> QED
      BY <3>1, <3>2 DEF LostInv, InQueue
  <2> QED
    BY <2>1, <2>2, <2>3 DEF Next, Done
<1> QED
  BY <1>1, <1>2, TypeInvariance, CollectedInvariance, BoundInvariance, PTL DEF SafeSpec

\* Unless a timeout came early, the orchestrator raises for dead workers only
\* when one of them took with it a chunk that is awaited, and not because it
\* looked at the workers before it looked at the answers.
THEOREM GivenUpForLost == SafeSpec => []GivesUpForALostChunk
<1>1. LostInv => GivesUpForALostChunk
  BY DEF LostInv, GivesUpForALostChunk, Awaiting
<1> QED
  BY <1>1, LostInvariance, PTL

-----------------------------------------------------------------------------
(* The workers after stop_event is set. *)

\* The steps of a worker from its place to its end, when it finds stop_event set
\* at the head of its loop.
StepsToEnd(w) == CASE wpc[w] = "poll"     -> 3
                   [] wpc[w] = "handling" -> 2
                   [] wpc[w] = "loop"     -> 1
                   [] wpc[w] \in Dead     -> 0

\* A request that has returned has set stop_event, for good, and from then on
\* each step of a worker brings it nearer to its end, three steps away at most: it
\* takes one more message at most.  This is the safety half of ReturnStopsWorkers.
THEOREM StopHeard ==
  SafeSpec => /\ [](opc = "returned" => stop)
              /\ [][stop => /\ stop'
                            /\ \A w \in Workers : \/ UNCHANGED wpc[w]
                                                  \/ StepsToEnd(w)' < StepsToEnd(w)]_vars
<1> DEFINE Told == opc \in {"join", "returned"} => stop
<1>1. Init => Told
  BY DEF Init
<1>2. Told /\ [Next]_vars => Told'
  BY DEF Next, OrchestratorStep, OrchestratorCrashes, Split, Put, Check, Receive, Timeout,
         Reduce, ReduceFails, Return, WorkerStep, CheckStop, PollEmpty, Take, Die, Deliver,
         Done, vars, orchVars
<1>3. Told => (opc = "returned" => stop)
  OBVIOUS
<1>4. TypeOK /\ [Next]_vars =>
        [stop => /\ stop'
                 /\ \A w \in Workers : \/ UNCHANGED wpc[w]
                                       \/ StepsToEnd(w)' < StepsToEnd(w)]_vars
  <2> SUFFICES ASSUME TypeOK, Next, ~UNCHANGED vars, stop
               PROVE  stop' /\ \A w \in Workers : UNCHANGED wpc[w] \/ StepsToEnd(w)' < StepsToEnd(w)
    OBVIOUS
  <2>1. CASE OrchestratorStep
    BY <2>1 DEF OrchestratorStep, OrchestratorCrashes, Split, Put, Check, Receive, Timeout,
                Reduce, ReduceFails, Return, workerVars
  <2>2. ASSUME NEW v \in Workers, WorkerStep(v)
        PROVE  stop' /\ \A w \in Workers : UNCHANGED wpc[w] \/ StepsToEnd(w)' < StepsToEnd(w)
    <3>1. stop' /\ \A w \in Workers : w # v => UNCHANGED wpc[w]
      BY <2>2 DEF WorkerStep, CheckStop, PollEmpty, Take, Die, Deliver, orchVars, TypeOK
    <3>2. \/ wpc[v] = "loop" /\ wpc'[v] = "exited"
          \/ wpc[v] = "poll" /\ wpc'[v] \in {"loop", "handling"}
          \/ wpc[v] = "handling" /\ wpc'[v] \in {"loop", "dead"}
      BY <2>2 DEF WorkerStep, CheckStop, PollEmpty, Take, Die, Deliver, orchVars, TypeOK
    <3>3. StepsToEnd(v)' < StepsToEnd(v)
      BY <3>2 DEF StepsToEnd, Dead
    <3> QED
      BY <3>1, <3>3
  <2> QED
    BY <2>1, <2>2 DEF Next, Done
<1> QED
  BY <1>1, <1>2, <1>3, <1>4, TypeCorrect, PTL DEF SafeSpec

-----------------------------------------------------------------------------
(* What a request is over for. *)

\* A worker ends its loop only after stop_event, and only a crash target crashes.
EndedBy ==
  /\ (\E w \in Workers : wpc[w] = "exited") => stop
  /\ opc = "crashed" => target = Orchestrator

\* Whatever crashes, raises, is lost or comes late, a request that is over has
\* gathered the summary of every chunk unless all its workers are dead: one that
\* is left keeps the orchestrator from giving up.  This is the safety half of
\* OneSurvivorEnough.
THEOREM OnlyDeathPreventsIt ==
  SafeSpec => [](target # Orchestrator /\ opc \in Over =>
                   Range(results) = Chunks \/ \A w \in Workers : wpc[w] = "dead")
<1>1. Init => EndedBy
  BY DEF Init, EndedBy
<1>2. TypeOK /\ EndedBy /\ [Next]_vars => EndedBy'
  <2> SUFFICES ASSUME TypeOK, EndedBy, [Next]_vars
               PROVE  EndedBy'
    OBVIOUS
  <2>1. CASE OrchestratorStep
    BY <2>1 DEF OrchestratorStep, OrchestratorCrashes, Split, Put, Check, Receive, Timeout,
                Reduce, ReduceFails, Return, workerVars, EndedBy
  <2>2. ASSUME NEW v \in Workers, WorkerStep(v)
        PROVE  EndedBy'
    BY <2>2 DEF WorkerStep, CheckStop, PollEmpty, Take, Die, Deliver, orchVars, EndedBy, TypeOK
  <2>3. CASE UNCHANGED vars
    BY <2>3 DEF vars, orchVars, workerVars, EndedBy
  <2> QED
    BY <2>1, <2>2, <2>3 DEF Next, Done
<1>3. TypeOK /\ CollectedInv /\ LostInv /\ EndedBy =>
        (target # Orchestrator /\ opc \in Over =>
           Range(results) = Chunks \/ \A w \in Workers : wpc[w] = "dead")
  <2> SUFFICES ASSUME TypeOK, CollectedInv, LostInv, EndedBy, target # Orchestrator, opc \in Over
               PROVE  Range(results) = Chunks \/ \A w \in Workers : wpc[w] = "dead"
    OBVIOUS
  <2>1. CASE opc = "gaveUp"
    <3>1. AllDead /\ ~stop
      BY <2>1 DEF LostInv
    <3> QED
      BY <3>1 DEF AllDead, Dead, EndedBy
  <2>2. CASE opc \in {"returned", "reduceFailed"}
    BY <2>2 DEF CollectedInv, PhaseInv, CollectedOnce
  <2> QED
    BY <2>1, <2>2 DEF Over, EndedBy
<1> QED
  BY <1>1, <1>2, <1>3, TypeCorrect, CollectedInvariance, LostInvariance, PTL DEF SafeSpec
=============================================================================
