----------------------- MODULE DirectMapReduceProofs -----------------------
(***************************************************************************)
(* Proofs about DirectMapReduce, for any set of configurations and number  *)
(* of chunks, and about TaskASplit, for every article.                     *)
(* They use the safety part of the specification only.                     *)
(***************************************************************************)
EXTENDS DirectMapReduce, SequenceTheorems, FiniteSetTheorems, WellFoundedInduction, TLAPS

-----------------------------------------------------------------------------
(* Sequences. *)

\* Appending adds one element to the range of a sequence.
LEMMA RangeAppend ==
  ASSUME NEW S, NEW s \in Seq(S), NEW e \in S
  PROVE  Range(Append(s, e)) = Range(s) \cup {e}
<1>1. Range(<<e>>) = {e} /\ <<e>> \in Seq(S)
  BY RangeEquality DEF Range
<1>2. Range(s \o <<e>>) = Range(s) \cup Range(<<e>>)
  BY <1>1, RangeConcatenation, Zenon
<1> QED
  BY <1>1, <1>2, AppendIsConcat

\* Appending a new element keeps a sequence free of duplicates.
LEMMA InjectiveAppend ==
  ASSUME NEW S, NEW s \in Seq(S), NEW e \in S,
         IsInjective(s), e \notin Range(s)
  PROVE  IsInjective(Append(s, e))
<1>1. DOMAIN Append(s, e) = 1 .. Len(s) + 1 /\ DOMAIN s = 1 .. Len(s) /\ Len(s) \in Nat
  OBVIOUS
<1> QED
  BY <1>1, AppendProperties DEF IsInjective, Range

\* A sequence of numbers stays increasing when a greater one is appended.
LEMMA IncreasingAppend ==
  ASSUME NEW s \in Seq(Nat), NEW e \in Nat,
         \A i, j \in 1 .. Len(s) : i < j => s[i] < s[j],
         \A i \in 1 .. Len(s) : s[i] < e
  PROVE  \A i, j \in 1 .. Len(Append(s, e)) : i < j => Append(s, e)[i] < Append(s, e)[j]
<1>1. \A i, j \in 1 .. Len(s) + 1 :
        i < j => i \in 1 .. Len(s) /\ (j \in 1 .. Len(s) \/ j = Len(s) + 1)
  OBVIOUS
<1> QED
  BY <1>1, AppendProperties

\* A sequence without duplicates that is as long as a finite set has all of it.
LEMMA WholeRange ==
  ASSUME NEW S, IsFiniteSet(S), NEW s \in Seq(S),
         IsInjective(s), Len(s) = Cardinality(S)
  PROVE  Range(s) = S
<1>1. s \in Injection(1 .. Len(s), S)
  BY DEF Injection
<1>2. IsFiniteSet(1 .. Len(s)) /\ Cardinality(1 .. Len(s)) = Len(s)
  BY FS_Interval, LenProperties
<1>3. s \in Surjection(1 .. Len(s), S)
  BY <1>1, <1>2, FS_Injection
<1> QED
  BY <1>3 DEF Surjection, Range

-----------------------------------------------------------------------------
(* The invariant. *)

\* How far the chunks are when the request is at each of its places.  Chunks are
\* submitted, or processed by the monolithic loop, in order.
Waiting == In({"unsubmitted"})

Submission ==
  /\ \A c \in Waiting, d \in Chunks : c < d => d \in Waiting
  /\ pc = "start" \/ MasterIsTarget => Waiting = Chunks
  /\ MasterIsTarget => pc \in {"start", "failed"}
  /\ Pooled /\ ~MasterIsTarget /\ pc \notin {"start", "submit"} => Waiting = {}
  /\ ~Pooled /\ pc = "reduce" => Waiting = {}

\* A future that is not over belongs to a pool whose request goes on.
Pool ==
  /\ Pooled => pc # "chunk"
  /\ ~Pooled => pc \notin {"submit", "gather", "unwind"} /\ Drained
  /\ pc \in Over => Drained

\* The results list holds the summaries of the chunks whose result was taken.
Gathered ==
  /\ taken \subseteq In(Finished)
  /\ pc \in {"start", "submit", "chunk"} => taken = {}
  /\ Pooled /\ pc = "gather" => taken \subseteq In({"done"})
  /\ Pooled /\ pc \in {"reduce", "returned"} => Chunks = taken /\ Chunks = In({"done"})
  /\ Range(results) = (IF Pooled THEN taken ELSE Chunks) \cap In({"done"})
  /\ IsInjective(results)

\* The numbers of the chunks are those of their places in the document.
DocumentOrder == \A i, j \in 1 .. Len(results) : i < j => results[i] < results[j]

\* What is not in the results yet comes after what is, but for the futures that
\* are taken as they complete.
Ordered ==
  config.architecture # "master_worker" =>
    /\ DocumentOrder
    /\ \A i \in 1 .. Len(results) :
         \A c \in Chunks : (IF Pooled THEN c \notin taken ELSE c \in Waiting) => results[i] < c

IInv == TypeOK /\ Submission /\ Pool /\ Gathered /\ Ordered

-----------------------------------------------------------------------------
(* Type correctness. *)

\* Every reachable state has the types the code gives it.
THEOREM TypeCorrect == SafeSpec => []TypeOK
<1>1. Init => TypeOK
  <2>1. <<>> \in Seq(Chunks)
    BY EmptySeq
  <2> QED
    BY <2>1 DEF Init, TypeOK
<1>2. TypeOK /\ [Next]_vars => TypeOK'
  <2> SUFFICES ASSUME TypeOK, [Next]_vars
               PROVE  TypeOK'
    OBVIOUS
  <2> USE DEF TypeOK, Over, Finished, In, Least
  <2>1. CASE MasterCrashes
    BY <2>1 DEF MasterCrashes
  <2>2. CASE Split
    BY <2>2 DEF Split
  <2>3. CASE Submit
    BY <2>3 DEF Submit
  <2>4. CASE Gather
    BY <2>4 DEF Gather, GatherOne, NextUp
  <2>5. CASE Unwind
    BY <2>5 DEF Unwind
  <2>6. CASE ProcessChunk
    BY <2>6 DEF ProcessChunk, Crashed
  <2>7. CASE ChunkFails
    BY <2>7 DEF ChunkFails
  <2>8. CASE Reduce
    BY <2>8 DEF Reduce
  <2>9. CASE Start
    BY <2>9 DEF Start
  <2>10. ASSUME NEW c \in Chunks, Complete(c) \/ Raise(c)
         PROVE  TypeOK'
    BY <2>10 DEF Complete, Raise
  <2>11. CASE UNCHANGED vars
    BY <2>11 DEF vars
  <2> QED
    BY <2>1, <2>2, <2>3, <2>4, <2>5, <2>6, <2>7, <2>8, <2>9, <2>10, <2>11
    DEF Next, RequestStep, Done
<1> QED
  BY <1>1, <1>2, PTL DEF SafeSpec

-----------------------------------------------------------------------------
(* The invariant is preserved, one conjunct at a time. *)

\* The last chunk is the least one only when it is the only one.
LEMMA LastOfAll ==
  ASSUME NEW S \in SUBSET Chunks, ChunkCount - 1 \in Least(S)
  PROVE  S = {ChunkCount - 1}
<1>1. ASSUME NEW d \in S
      PROVE  d = ChunkCount - 1
  <2>1. ChunkCount - 1 <= d /\ d \in 0 .. ChunkCount - 1
    BY DEF Least, Chunks
  <2>2. ChunkCount \in Nat
    BY ConstantsAssumption
  <2> QED
    BY <2>1, <2>2
<1> QED
  BY <1>1 DEF Least

LEMMA SubmissionStep ==
  ASSUME TypeOK, Submission, Pool, [Next]_vars
  PROVE  Submission'
<1> USE DEF Submission, Waiting, Pooled, MasterIsTarget
<1>1. CASE MasterCrashes
  BY <1>1 DEF MasterCrashes, In
<1>2. CASE Split
  BY <1>2 DEF Split, In
<1>3. ASSUME Submit \/ ProcessChunk
      PROVE  Submission'
  <2>1. PICK c \in Least(Waiting) :
          /\ future'[c] \notin {"unsubmitted"}
          /\ \A d \in Chunks : d # c => future'[d] = future[d]
          /\ pc' = IF c = ChunkCount - 1 THEN IF Pooled THEN "gather" ELSE "reduce" ELSE pc
    BY <1>3 DEF Submit, ProcessChunk, TypeOK, Least, In, Pool
  <2>2. Waiting' = Waiting \ {c} /\ c \in Chunks /\ Waiting \subseteq Chunks
    BY <2>1 DEF In, Least
  <2>3. \A d \in Waiting', e \in Chunks : d < e => e \in Waiting'
    BY <2>1, <2>2 DEF Least, Chunks
  <2>4. c = ChunkCount - 1 => Waiting' = {}
    BY <2>1, <2>2, LastOfAll
  <2>5. UNCHANGED config /\ pc \in {"submit", "chunk"} /\ ~MasterIsTarget
    BY <1>3 DEF Submit, ProcessChunk
  <2> QED
    BY <2>1, <2>3, <2>4, <2>5 DEF Pool
<1>4. CASE Gather
  BY <1>4 DEF Gather, GatherOne, In, Pool
<1>5. CASE Unwind
  BY <1>5 DEF Unwind, In
<1>6. CASE ChunkFails
  BY <1>6 DEF ChunkFails, In, Pool
<1>7. CASE Reduce
  BY <1>7 DEF Reduce, In
<1>8. ASSUME Start \/ \E c \in Chunks : Complete(c) \/ Raise(c)
      PROVE  Submission'
  <2>1. Waiting' = Waiting /\ UNCHANGED <<config, pc>>
    BY <1>8 DEF Start, Complete, Raise, In, Least, TypeOK
  <2> QED
    BY <2>1
<1>9. CASE UNCHANGED vars
  BY <1>9 DEF vars, In
<1> QED
  BY <1>1, <1>2, <1>3, <1>4, <1>5, <1>6, <1>7, <1>8, <1>9 DEF Next, RequestStep, Done

LEMMA PoolStep ==
  ASSUME TypeOK, Submission, Pool, Gathered, [Next]_vars
  PROVE  Pool'
<1> USE DEF Pool, Pooled, MasterIsTarget, Over, Drained, In
<1>1. CASE MasterCrashes
  BY <1>1 DEF MasterCrashes, Submission, Waiting
<1>2. CASE Split
  BY <1>2 DEF Split
<1>3. CASE Submit
  BY <1>3 DEF Submit
<1>4. CASE Gather
  BY <1>4 DEF Gather, GatherOne
<1>5. CASE Unwind
  BY <1>5 DEF Unwind
<1>6. CASE ProcessChunk
  BY <1>6 DEF ProcessChunk, TypeOK
<1>7. CASE ChunkFails
  BY <1>7 DEF ChunkFails
<1>8. CASE Reduce
  BY <1>8 DEF Reduce, Gathered
<1>9. ASSUME Start \/ \E c \in Chunks : Complete(c) \/ Raise(c)
      PROVE  Pool'
  <2>1. In({"queued", "running"}) # {} /\ UNCHANGED <<config, pc>>
    BY <1>9 DEF Start, Complete, Raise, Least
  <2> QED
    BY <2>1
<1>10. CASE UNCHANGED vars
  BY <1>10 DEF vars
<1> QED
  BY <1>1, <1>2, <1>3, <1>4, <1>5, <1>6, <1>7, <1>8, <1>9, <1>10
  DEF Next, RequestStep, Done

LEMMA GatheredStep ==
  ASSUME TypeOK, Submission, Pool, Gathered, [Next]_vars
  PROVE  Gathered'
<1> USE DEF Gathered, Pooled, MasterIsTarget, Finished, In
<1>1. CASE MasterCrashes
  BY <1>1 DEF MasterCrashes
<1>2. CASE Split
  BY <1>2 DEF Split
<1>3. CASE Submit
  BY <1>3 DEF Submit, Least, TypeOK, Pool
<1>4. CASE Gather
  <2>1. PICK c \in NextUp : GatherOne(c)
    BY <1>4 DEF Gather
  <2>2. c \in Chunks /\ c \notin taken /\ future[c] \in Finished
        /\ pc = "gather" /\ UNCHANGED <<config, future>> /\ Pooled
    BY <1>4, <2>1 DEF Gather, NextUp, Pool
  <2>3. CASE future[c] = "done"
    <3>1. /\ taken' = taken \cup {c} /\ results' = Append(results, c)
          /\ pc' = IF taken' = Chunks THEN "reduce" ELSE pc
      BY <2>1, <2>3 DEF GatherOne
    <3>2. Range(results') = Range(results) \cup {c} /\ IsInjective(results')
      BY <2>2, <3>1, RangeAppend, InjectiveAppend DEF TypeOK
    <3> QED
      BY <2>2, <2>3, <3>1, <3>2 DEF TypeOK
  <2>4. CASE future[c] = "raised"
    BY <2>1, <2>2, <2>4 DEF GatherOne
  <2> QED
    BY <2>2, <2>3, <2>4
<1>5. CASE Unwind
  BY <1>5 DEF Unwind
<1>6. CASE ProcessChunk
  <2>1. PICK c \in Least(Waiting) :
          \/ Crashed(c) /\ future' = [future EXCEPT ![c] = "raised"]
          \/ results' = Append(results, c) /\ future' = [future EXCEPT ![c] = "done"]
    BY <1>6 DEF ProcessChunk, Waiting
  <2>2. /\ c \in Chunks /\ future[c] = "unsubmitted" /\ ~Pooled
        /\ UNCHANGED <<config, taken>> /\ pc = "chunk" /\ pc' \in {"chunk", "reduce"}
    BY <1>6, <2>1 DEF Least, Waiting, ProcessChunk, Pool
  <2>3. CASE Crashed(c) /\ future' = [future EXCEPT ![c] = "raised"]
    BY <2>2, <2>3 DEF Crashed, TypeOK
  <2>4. CASE results' = Append(results, c) /\ future' = [future EXCEPT ![c] = "done"]
    <3>1. Range(results') = Range(results) \cup {c} /\ IsInjective(results')
      BY <2>2, <2>4, RangeAppend, InjectiveAppend DEF TypeOK
    <3> QED
      BY <2>2, <2>4, <3>1 DEF TypeOK
  <2> QED
    BY <2>1, <2>3, <2>4
<1>7. CASE ChunkFails
  BY <1>7 DEF ChunkFails
<1>8. CASE Reduce
  BY <1>8 DEF Reduce
<1>9. ASSUME Start \/ \E c \in Chunks : Complete(c) \/ Raise(c)
      PROVE  Gathered'
  <2>1. PICK c \in Chunks : /\ future[c] \in {"queued", "running"}
                            /\ \E s : future' = [future EXCEPT ![c] = s]
                            /\ UNCHANGED <<config, pc, taken, results>>
    BY <1>9 DEF Start, Complete, Raise, Least
  <2>2. Pooled /\ c \notin taken
    BY <2>1 DEF Pool, Drained
  <2> QED
    BY <2>1, <2>2 DEF TypeOK
<1>10. CASE UNCHANGED vars
  BY <1>10 DEF vars
<1> QED
  BY <1>1, <1>2, <1>3, <1>4, <1>5, <1>6, <1>7, <1>8, <1>9, <1>10
  DEF Next, RequestStep, Done

\* A summary that is taken next comes after those that are in the results.
LEMMA OrderedStep ==
  ASSUME TypeOK, Submission, Pool, Gathered, Ordered, [Next]_vars
  PROVE  Ordered'
<1> SUFFICES ASSUME config'.architecture # "master_worker"
             PROVE  /\ DocumentOrder'
                    /\ \A i \in 1 .. Len(results') : \A c \in Chunks :
                         (IF Pooled' THEN c \notin taken' ELSE c \in Waiting')
                           => results'[i] < c
  BY DEF Ordered
<1>1. config.architecture # "master_worker" /\ UNCHANGED config
  BY DEF Next, RequestStep, Done, vars, MasterCrashes, Split, Submit, Gather, Unwind,
         ProcessChunk, ChunkFails, Reduce, Start, Complete, Raise
<1>2. /\ \A i, j \in 1 .. Len(results) : i < j => results[i] < results[j]
      /\ \A i \in 1 .. Len(results) : \A c \in Chunks :
           (IF Pooled THEN c \notin taken ELSE c \in Waiting) => results[i] < c
  BY <1>1 DEF Ordered, DocumentOrder
<1>3. Pooled' = Pooled
  BY <1>1 DEF Pooled
\* The next of the chunks in S is appended, and leaves S.
<1>4. ASSUME NEW S \in SUBSET Chunks, NEW c \in Least(S),
             results' = Append(results, c),
             \A i \in 1 .. Len(results) : \A d \in S : results[i] < d,
             \A d \in Chunks :
               (IF Pooled' THEN d \notin taken' ELSE d \in Waiting') => d \in S \ {c}
      PROVE  /\ DocumentOrder'
             /\ \A i \in 1 .. Len(results') : \A d \in Chunks :
                  (IF Pooled' THEN d \notin taken' ELSE d \in Waiting')
                    => results'[i] < d
  <2>1. results \in Seq(Nat) /\ c \in Nat /\ c \in S /\ \A d \in S : c <= d /\ d \in Nat
    <3>1. Chunks \subseteq Nat
      BY ConstantsAssumption DEF Chunks
    <3>2. results \in Seq(Nat)
      BY <3>1, SeqMonotonic DEF TypeOK
    <3> QED
      BY <3>1, <3>2 DEF Least
  <2>2. DocumentOrder'
    BY <1>2, <1>4, <2>1, IncreasingAppend DEF DocumentOrder
  <2>3. \A d \in S \ {c} : c < d
    BY <2>1
  <2>4. /\ Len(results') = Len(results) + 1 /\ Len(results) \in Nat
        /\ results'[Len(results) + 1] = c
        /\ \A i \in 1 .. Len(results) : results'[i] = results[i]
    BY <1>4, <2>1
  <2>5. \A i \in 1 .. Len(results') : \A d \in S \ {c} : results'[i] < d
    BY <1>4, <2>3, <2>4
  <2> QED
    BY <1>4, <2>2, <2>5
<1>5. CASE Gather
  <2>1. PICK c \in NextUp : GatherOne(c)
    BY <1>5 DEF Gather
  <2>2. Pooled /\ UNCHANGED future /\ c \in Least(Chunks \ taken) /\ taken' = taken \cup {c}
    BY <1>1, <1>5, <2>1 DEF Gather, GatherOne, Pool, NextUp, InOrder, Pooled
  <2>3. CASE future[c] = "done"
    <3>1. results' = Append(results, c)
      BY <2>1, <2>3 DEF GatherOne
    <3> DEFINE S == Chunks \ taken
    <3>2. S \in SUBSET Chunks /\ c \in Least(S)
      BY <2>2
    <3>3. \A i \in 1 .. Len(results) : \A d \in S : results[i] < d
      BY <1>2, <2>2
    <3>4. \A d \in Chunks :
            (IF Pooled' THEN d \notin taken' ELSE d \in Waiting') => d \in S \ {c}
      BY <1>3, <2>2
    <3> HIDE DEF S
    <3> QED
      BY <1>4, <3>1, <3>2, <3>3, <3>4
  <2>4. CASE future[c] # "done"
    BY <1>2, <1>3, <2>1, <2>2, <2>4 DEF GatherOne, DocumentOrder
  <2> QED
    BY <2>3, <2>4
<1>6. CASE ProcessChunk
  <2>1. PICK c \in Least(Waiting) :
          /\ results' = results \/ results' = Append(results, c)
          /\ future' \in [Chunks -> {"done", "raised"} \cup {future[d] : d \in Chunks}]
          /\ future'[c] \in {"done", "raised"}
          /\ \A d \in Chunks : d # c => future'[d] = future[d]
    BY <1>6 DEF ProcessChunk, Waiting, Crashed, TypeOK, Least, In
  <2>2. ~Pooled /\ Waiting \in SUBSET Chunks /\ Waiting' = Waiting \ {c} /\ c \in Waiting
    BY <1>6, <2>1 DEF ProcessChunk, Pool, Waiting, In, Least
  <2>3. CASE results' = results
    BY <1>2, <1>3, <2>2, <2>3 DEF DocumentOrder
  <2>4. CASE results' = Append(results, c)
    <3>1. \A i \in 1 .. Len(results) : \A d \in Waiting : results[i] < d
      BY <1>2, <2>2
    <3>2. \A d \in Chunks :
            (IF Pooled' THEN d \notin taken' ELSE d \in Waiting') => d \in Waiting \ {c}
      BY <1>3, <2>2
    <3> QED
      BY <1>4, <2>1, <2>2, <2>4, <3>1, <3>2
  <2> QED
    BY <2>1, <2>3, <2>4
<1>7. ASSUME \/ MasterCrashes \/ Split \/ Submit \/ Unwind \/ ChunkFails \/ Reduce
             \/ Start \/ (\E c \in Chunks : Complete(c) \/ Raise(c)) \/ UNCHANGED vars
      PROVE  /\ UNCHANGED <<taken, results>>
             /\ ~Pooled => Waiting' = Waiting
  BY <1>7 DEF MasterCrashes, Split, Submit, Unwind, ChunkFails, Reduce, Start, Complete,
              Raise, vars, Waiting, In, Pool, Drained, Least, TypeOK
<1>8. CASE UNCHANGED <<taken, results>> /\ (~Pooled => Waiting' = Waiting)
  BY <1>2, <1>3, <1>8 DEF DocumentOrder
<1> QED
  BY <1>5, <1>6, <1>7, <1>8 DEF Next, RequestStep, Done

LEMMA Invariance == SafeSpec => []IInv
<1>1. Init => IInv
  <2> SUFFICES ASSUME Init
               PROVE  IInv
    OBVIOUS
  <2>1. Waiting = Chunks /\ Drained /\ pc = "start"
    BY DEF Init, Waiting, In, Drained
  <2>2. Submission /\ Pool
    BY <2>1 DEF Submission, Pool, Over
  <2>3. Gathered /\ Ordered
    BY <2>1 DEF Init, Gathered, Ordered, DocumentOrder, Range, IsInjective, Waiting, In
  <2>4. TypeOK
    BY EmptySeq DEF Init, TypeOK
  <2> QED
    BY <2>2, <2>3, <2>4 DEF IInv
<1>2. IInv /\ TypeOK' /\ [Next]_vars => IInv'
  BY SubmissionStep, PoolStep, GatheredStep, OrderedStep DEF IInv
<1> QED
  BY <1>1, <1>2, TypeCorrect, PTL DEF SafeSpec

-----------------------------------------------------------------------------
(* What follows from it. *)

\* When execute() of a pool returns or raises, every chunk it was given is over,
\* however many workers there are and whichever of them crashed.
THEOREM NoThreadLeftBehind == SafeSpec => []NoWorkAfterRequest
<1>1. IInv => NoWorkAfterRequest
  <2> SUFFICES ASSUME IInv
               PROVE  NoWorkAfterRequest
    OBVIOUS
  <2>1. pc \in Over => In({"queued", "running"}) = {}
    BY DEF IInv, Pool, Drained
  <2>2. ASSUME Pooled, pc = "failed", ~MasterIsTarget
        PROVE  In(Finished) = Chunks
    <3>1. In({"queued", "running"}) = {} /\ In({"unsubmitted"}) = {}
      BY <2>1, <2>2 DEF IInv, Submission, Waiting, Over
    <3> QED
      BY <3>1 DEF IInv, TypeOK, In, Finished
  <2> QED
    BY <2>1, <2>2 DEF NoWorkAfterRequest
<1> QED
  BY <1>1, Invariance, PTL

\* What the aggregation is given, but for the loop that has skipped a chunk, is
\* the summary of every chunk.
LEMMA AllGathered ==
  ASSUME IInv, pc \in {"reduce", "returned"}, Pooled \/ Len(results) = ChunkCount
  PROVE  Range(results) = Chunks
<1>1. CASE Pooled
  BY <1>1 DEF IInv, Gathered
<1>2. CASE Len(results) = ChunkCount
  <2>1. 0 \in Int /\ ChunkCount - 1 \in Int /\ ChunkCount \in Nat
    BY ConstantsAssumption
  <2>2. IsFiniteSet(Chunks) /\ Cardinality(Chunks) = ChunkCount
    BY <2>1, ConstantsAssumption, FS_Interval DEF Chunks
  <2> QED
    BY <1>2, <2>2, WholeRange DEF IInv, Gathered, TypeOK
<1> QED
  BY <1>1, <1>2

\* Every behaviour of the request is one of the abstract request of Task A: no
\* summary counts twice and an answer has them all, in all three architectures.
THEOREM Implementation == SafeSpec => MR!SafeSpec
<1>1. Init => MR!Init
  BY DEF Init, MR!Init, Outcome
<1>2. IInv /\ IInv' /\ [Next]_vars => [MR!Next]_(MR!vars)
  <2> SUFFICES ASSUME IInv, IInv', [Next]_vars
               PROVE  MR!Next \/ UNCHANGED <<results, Outcome>>
    BY DEF MR!vars
  <2>0. MR!Range(results) = Range(results)
    BY DEF MR!Range, Range
  <2> USE DEF Outcome
  <2>1. CASE MasterCrashes
    BY <2>1 DEF MasterCrashes, MR!Next, MR!Fail
  <2>2. CASE Split
    BY <2>2 DEF Split
  <2>3. CASE Submit
    BY <2>3 DEF Submit
  <2>4. CASE Gather
    <3>1. PICK c \in NextUp : GatherOne(c)
      BY <2>4 DEF Gather
    <3>2. c \in Chunks \ Range(results)
      BY <2>4, <3>1 DEF Gather, NextUp, In, IInv, Gathered, Pool
    <3>3. CASE future[c] = "done"
      BY <2>0, <2>4, <3>1, <3>2, <3>3 DEF Gather, GatherOne, MR!Next, MR!Gather
    <3>4. CASE future[c] # "done"
      BY <2>4, <3>1, <3>4 DEF Gather, GatherOne
    <3> QED
      BY <3>3, <3>4
  <2>5. CASE Unwind
    BY <2>5 DEF Unwind, MR!Next, MR!Fail
  <2>6. CASE ProcessChunk
    <3>1. PICK c \in Least(Waiting) : results' \in {results, Append(results, c)}
      BY <2>6 DEF ProcessChunk, Waiting, Crashed
    <3>2. c \in Chunks \ Range(results) /\ pc = "chunk" /\ pc' \in {"chunk", "reduce"}
      BY <2>6, <3>1 DEF ProcessChunk, Least, Waiting, In, IInv, Gathered
    <3> QED
      BY <2>0, <3>1, <3>2 DEF MR!Next, MR!Gather
  <2>7. CASE ChunkFails
    BY <2>7 DEF ChunkFails, MR!Next, MR!Fail
  <2>8. CASE Reduce
    <3>1. UNCHANGED <<config, results>> /\ Pooled' = Pooled /\ pc = "reduce"
      BY <2>8 DEF Reduce, Pooled
    <3>2. CASE pc' = "returned" /\ (Pooled \/ Len(results) = ChunkCount)
      <4>1. Range(results) = Chunks
        BY <3>1, <3>2, AllGathered
      <4> QED
        BY <2>0, <3>1, <3>2, <4>1 DEF MR!Next, MR!Answer
    <3>3. CASE ~(pc' = "returned" /\ (Pooled \/ Len(results) = ChunkCount))
      BY <2>8, <3>1, <3>3 DEF Reduce, MR!Next, MR!Fail
    <3> QED
      BY <3>2, <3>3
  <2>9. CASE UNCHANGED <<config, pc, results>>
    BY <2>9 DEF Pooled
  <2> QED
    BY <2>1, <2>2, <2>3, <2>4, <2>5, <2>6, <2>7, <2>8, <2>9
    DEF Next, RequestStep, Done, vars, Start, Complete, Raise
<1> QED
  BY <1>1, <1>2, Invariance, PTL DEF SafeSpec, MR!SafeSpec

-----------------------------------------------------------------------------
(* The paragraphs. *)

\* Integer division, as the two inequalities that characterise it.
LEMMA Division ==
  ASSUME NEW a \in Nat, NEW b \in Nat \ {0}
  PROVE  a \div b \in Nat /\ b * (a \div b) <= a /\ a < b * (a \div b) + b
  OBVIOUS

\* K chunks of ceil(P / K) paragraphs have room for all P paragraphs.
LEMMA EnoughRoom ==
  ASSUME NEW P \in Nat, NEW K \in Nat \ {0}
  PROVE  chunk_size(P, K) \in Nat /\ P <= K * chunk_size(P, K)
<1>1. P + K - 1 \in Nat
  OBVIOUS
<1> QED
  BY <1>1, Division DEF chunk_size, CeilDiv

LEMMA Monotone ==
  ASSUME NEW i \in Nat, NEW k \in Nat, NEW s \in Nat, i <= k
  PROVE  i * s <= k * s
  OBVIOUS

LEMMA StrictlyMonotone ==
  ASSUME NEW i \in Nat, NEW k \in Nat, NEW s \in Nat, i * s < k * s
  PROVE  i < k
  OBVIOUS

\* The paragraphs of a chunk come before those of the chunks after it.
LEMMA ChunksApart ==
  ASSUME NEW P \in Nat, NEW K \in Nat \ {0},
         NEW i \in 0 .. K - 1, NEW k \in 0 .. K - 1, i < k,
         NEW p \in split(P, K)[i], NEW q \in split(P, K)[k]
  PROVE  p < q
<1> DEFINE s == chunk_size(P, K)
<1>1. s \in Nat
  BY EnoughRoom
<1>2. p \in Nat /\ p < (i + 1) * s
  BY DEF split, Content
<1>3. q \in Nat /\ k * s <= q
  BY DEF split, Content
<1> HIDE DEF s
<1>4. (i + 1) * s <= k * s
  BY <1>1, Monotone
<1>5. (i + 1) * s \in Nat /\ k * s \in Nat
  BY <1>1
<1> QED
  BY <1>2, <1>3, <1>4, <1>5

\* No paragraph is left out: rounding up leaves room for the last ones.
LEMMA EveryParagraph ==
  ASSUME NEW P \in Nat, NEW K \in Nat \ {0}, NEW p \in 0 .. P - 1
  PROVE  \E i \in 0 .. K - 1 : p \in split(P, K)[i]
<1> DEFINE s == chunk_size(P, K)
           n == p \div s
<1>1. s \in Nat /\ P <= K * s
  BY EnoughRoom
<1> HIDE DEF s
<1>2. s \in Nat \ {0} /\ p \in Nat
  BY <1>1
<1>3. n \in Nat /\ s * n <= p /\ p < s * n + s
  BY <1>2, Division
<1> HIDE DEF n
<1>4. n * s <= p /\ p < (n + 1) * s
  BY <1>2, <1>3
<1>5. n < K
  <2>1. n * s \in Nat /\ K * s \in Nat
    BY <1>2, <1>3
  <2>2. n * s < K * s
    BY <1>1, <1>2, <1>4, <2>1
  <2> QED
    BY <1>2, <1>3, <2>2, StrictlyMonotone
<1>6. p \in Content(P, K, n)
  BY <1>4 DEF Content, s
<1>7. n \in 0 .. K - 1 /\ split(P, K)[n] = Content(P, K, n)
  BY <1>3, <1>5 DEF split
<1> QED
  BY <1>6, <1>7

\* An answered request, of any number of chunks and workers, has summarised every
\* paragraph of its article, of any length, and none twice.
THEOREM ArticleSummarised == SafeSpec => []EachParagraphOnce
<1>1. IInv => EachParagraphOnce
  <2> SUFFICES ASSUME IInv, Outcome = "answered", NEW P \in ArticleSizes, NEW p \in 0 .. P - 1
               PROVE  Cardinality({i \in 1 .. Len(results) : p \in Summarised(P, i)}) = 1
    BY DEF EachParagraphOnce
  <2>1. P \in Nat /\ ChunkCount \in Nat \ {0}
    BY ConstantsAssumption
  <2>2. Range(results) = Chunks
    BY AllGathered DEF Outcome
  <2>3. DOMAIN results = 1 .. Len(results) /\ \A i \in 1 .. Len(results) : results[i] \in Chunks
    BY DEF IInv, TypeOK
  <2>4. PICK c \in Chunks : p \in split(P, ChunkCount)[c]
    BY <2>1, EveryParagraph DEF Chunks
  <2>5. PICK i \in 1 .. Len(results) : results[i] = c
    BY <2>2, <2>3, <2>4 DEF Range
  <2>6. ASSUME NEW k \in 1 .. Len(results), p \in Summarised(P, k)
        PROVE  k = i
    <3>1. results[k] \in 0 .. ChunkCount - 1 /\ c \in 0 .. ChunkCount - 1
      BY <2>3 DEF Chunks
    <3>2. ~(results[k] < c) /\ ~(c < results[k])
      <4>1. p \in split(P, ChunkCount)[results[k]] /\ ~(p < p)
        BY <2>6 DEF Summarised
      <4> QED
        BY <2>1, <2>4, <3>1, <4>1, ChunksApart
    <3>3. results[k] = results[i]
      BY <2>5, <3>1, <3>2
    <3> QED
      BY <2>3, <3>3 DEF IInv, Gathered, IsInjective
  <2>7. {k \in 1 .. Len(results) : p \in Summarised(P, k)} = {i}
    BY <2>4, <2>5, <2>6 DEF Summarised
  <2> QED
    BY <2>7, FS_Singleton
<1> QED
  BY <1>1, Invariance, PTL

\* What the last agent of the swarm and the monolithic worker aggregate is in the
\* order of the text, for every article.
THEOREM AggregatedInOrder == SafeSpec => []OrderOfTheText
<1>1. IInv => OrderOfTheText
  <2> SUFFICES ASSUME IInv, config.architecture # "master_worker", NEW P \in ArticleSizes,
                      NEW i \in 1 .. Len(results), NEW k \in 1 .. Len(results), i < k,
                      NEW p \in Summarised(P, i), NEW q \in Summarised(P, k)
               PROVE  p < q
    BY DEF OrderOfTheText
  <2>1. P \in Nat /\ ChunkCount \in Nat \ {0}
    BY ConstantsAssumption
  <2>2. results[i] < results[k]
    BY DEF IInv, Ordered, DocumentOrder
  <2>3. results[i] \in 0 .. ChunkCount - 1 /\ results[k] \in 0 .. ChunkCount - 1
    <3>1. results[i] \in Chunks /\ results[k] \in Chunks
      BY DEF IInv, TypeOK
    <3> QED
      BY <3>1 DEF Chunks
  <2> QED
    BY <2>1, <2>2, <2>3, ChunksApart DEF Summarised
<1> QED
  BY <1>1, Invariance, PTL

-----------------------------------------------------------------------------
(* A crash decides the request. *)

\* No summary is made of a chunk of the crash target.
NothingFromTarget == \A c \in Chunks : AssignedTo(c) = config.target => future[c] # "done"

LEMMA NothingFromTargetStep ==
  ASSUME TypeOK, NothingFromTarget, [Next]_vars
  PROVE  NothingFromTarget'
<1> USE DEF NothingFromTarget, TypeOK
<1>1. config' = config
  BY DEF Next, RequestStep, MasterCrashes, Split, Submit, Gather, Unwind, ProcessChunk,
         ChunkFails, Reduce, Start, Complete, Raise, Done, vars
<1>2. \A c \in Chunks : AssignedTo(c)' = AssignedTo(c)
  BY <1>1 DEF AssignedTo, Pooled
<1>3. CASE MasterCrashes \/ Split \/ Unwind \/ ChunkFails \/ Reduce \/ Gather \/ UNCHANGED vars
  BY <1>1, <1>2, <1>3 DEF MasterCrashes, Split, Unwind, ChunkFails, Reduce, Gather, vars
<1>4. CASE Submit \/ Start
  BY <1>1, <1>2, <1>4 DEF Submit, Start, Least, In
<1>5. CASE ProcessChunk
  BY <1>1, <1>2, <1>5 DEF ProcessChunk, Least, In
<1>6. ASSUME NEW c \in Chunks, Complete(c) \/ Raise(c)
      PROVE  NothingFromTarget'
  BY <1>1, <1>2, <1>6 DEF Complete, Raise
<1> QED
  BY <1>3, <1>4, <1>5, <1>6 DEF Next, RequestStep, Done

\* The round robin gives the n-th worker the n-th chunk, up to the last worker.
LEMMA ChunkOfTarget ==
  ASSUME config \in Configs, Reached, ~MasterIsTarget
  PROVE  \E c \in Chunks : AssignedTo(c) = config.target
<1> DEFINE t == config.target
<1>1. config.workers \in Nat \ {0} /\ ChunkCount \in Nat \ {0}
  BY ConstantsAssumption DEF WorkerIds
<1>2. /\ t \in Nat \ {0} /\ t <= ChunkCount
      /\ IF Pooled THEN t <= config.workers ELSE t = 1
  BY <1>1 DEF Reached
<1>3. t - 1 \in Chunks
  BY <1>1, <1>2 DEF Chunks
<1>4. Pooled => (t - 1) % config.workers = t - 1
  BY <1>1, <1>2
<1>5. AssignedTo(t - 1) = t
  BY <1>2, <1>4 DEF AssignedTo
<1> QED
  BY <1>3, <1>5

\* A request whose crash target is given a chunk never answers, whoever else is
\* done and in whatever order the futures are taken; and where there is a pool
\* its caller learns of it.  This is the safety half of CrashDecides; that the
\* request is over in the end is the other.
THEOREM CrashNotSurvived == SafeSpec => [](Reached /\ pc \in Over => FailedByCrash)
<1>1. Init => NothingFromTarget
  BY DEF Init, NothingFromTarget
<1>2. IInv /\ NothingFromTarget /\ [Next]_vars => NothingFromTarget'
  BY NothingFromTargetStep DEF IInv
<1>3. IInv /\ NothingFromTarget => (Reached /\ pc \in Over => FailedByCrash)
  <2> SUFFICES ASSUME IInv, NothingFromTarget, Reached, pc \in Over
               PROVE  FailedByCrash
    OBVIOUS
  <2>1. CASE pc = "failed"
    BY <2>1 DEF FailedByCrash, Outcome
  <2>2. CASE pc = "returned"
    <3>1. ~MasterIsTarget
      BY <2>2 DEF IInv, Submission
    <3>2. PICK c \in Chunks : AssignedTo(c) = config.target
      BY <3>1, ChunkOfTarget DEF IInv, TypeOK
    <3>3. c \notin In({"done"})
      BY <3>2 DEF NothingFromTarget, In
    <3>4. ~Pooled
      BY <2>2, <3>3 DEF IInv, Gathered
    <3>5. Len(results) # ChunkCount
      BY <2>2, <3>3, AllGathered DEF IInv, Gathered
    <3> QED
      BY <2>2, <3>4, <3>5 DEF FailedByCrash, Outcome
  <2> QED
    BY <2>1, <2>2 DEF Over
<1> QED
  BY <1>1, <1>2, <1>3, Invariance, PTL DEF SafeSpec

-----------------------------------------------------------------------------
(* The request never waits for ever. *)

\* A set of chunks has a first one.
LEMMA LeastExists ==
  ASSUME NEW S \in SUBSET Chunks, S # {}
  PROVE  Least(S) # {}
<1>1. S \subseteq Nat
  BY DEF Chunks
<1>2. PICK x \in S : \A y \in S : ~(<<y, x>> \in OpToRel(<, Nat))
  BY <1>1, NatLessThanWellFounded, WFMin
<1>3. \A y \in S : ~(y < x)
  BY <1>1, <1>2 DEF OpToRel
<1> QED
  BY <1>1, <1>3 DEF Least

\* What the loops still have to do while the request is in them.
Unfinished ==
  /\ pc \in {"submit", "chunk"} => ChunkCount - 1 \in Waiting
  /\ pc = "gather" => taken # Chunks

LEMMA UnfinishedStep ==
  ASSUME IInv, Unfinished, [Next]_vars
  PROVE  Unfinished'
<1>1. ChunkCount - 1 \in Chunks
  BY ConstantsAssumption DEF Chunks
<1>2. CASE MasterCrashes \/ Unwind \/ ChunkFails \/ Reduce
  BY <1>2 DEF MasterCrashes, Unwind, ChunkFails, Reduce, Unfinished
<1>3. CASE Split
  BY <1>1, <1>3 DEF Split, Unfinished, Waiting, In, IInv, Submission
<1>4. CASE Submit \/ ProcessChunk
  <2>1. PICK c \in Least(Waiting) :
          /\ \A d \in Chunks : d # c => future'[d] = future[d]
          /\ pc' \in {"submit", "chunk"} => c # ChunkCount - 1 /\ pc' = pc
    BY <1>4 DEF Submit, ProcessChunk, IInv, TypeOK, Least, In, Pool, Waiting
  <2>2. pc' \in {"submit", "chunk"} => ChunkCount - 1 \in Waiting'
    BY <1>1, <2>1 DEF Unfinished, Waiting, In
  <2>3. pc' = "gather" => taken' # Chunks
    BY <1>1, <1>4 DEF Submit, ProcessChunk, IInv, Gathered
  <2> QED
    BY <2>2, <2>3 DEF Unfinished
<1>5. CASE Gather
  BY <1>5 DEF Gather, GatherOne, Unfinished
<1>6. CASE Start \/ \E c \in Chunks : Complete(c) \/ Raise(c)
  BY <1>6 DEF Start, Complete, Raise, Unfinished, Waiting, In, IInv, TypeOK, Least
<1>7. CASE UNCHANGED vars
  BY <1>7 DEF vars, Unfinished, Waiting, In
<1> QED
  BY <1>2, <1>3, <1>4, <1>5, <1>6, <1>7 DEF Next, RequestStep, Done

\* The guards of the actions: of the thread of the request, of a thread of the
\* pool that waits for its LLM call, and of one that is idle.
RequestGoesOn ==
  \/ pc \in {"start", "reduce"}
  \/ pc \in {"submit", "chunk"} /\ Least(In({"unsubmitted"})) # {}
  \/ pc = "gather" /\ NextUp # {}
  \/ pc = "unwind" /\ Drained
PoolGoesOn ==
  \/ In({"running"}) # {}
  \/ Cardinality(In({"running"})) < config.workers /\ Least(In({"queued"})) # {}

LEMMA PoolDrains ==
  ASSUME TypeOK, ~Drained
  PROVE  PoolGoesOn
<1>1. SUFFICES ASSUME In({"running"}) = {}
               PROVE  PoolGoesOn
  BY DEF PoolGoesOn
<1>2. In({"queued"}) # {} /\ In({"queued"}) \subseteq Chunks
  BY <1>1 DEF Drained, In
<1>3. Least(In({"queued"})) # {}
  BY <1>2, LeastExists
<1>4. Cardinality({}) = 0 /\ config.workers \in Nat \ {0}
  BY FS_EmptySet, ConstantsAssumption DEF TypeOK, WorkerIds
<1> QED
  BY <1>1, <1>3, <1>4 DEF PoolGoesOn

\* Nobody waits for somebody who waits: until the request is over its thread can
\* go on, or the pool it waits for can, for any number of workers and chunks; in
\* the swarm too, which takes the futures in their order whichever is done first.
THEOREM SomeoneGoesOn == SafeSpec => [](pc \notin Over => RequestGoesOn \/ PoolGoesOn)
<1>1. Init => Unfinished
  BY DEF Init, Unfinished
<1>2. IInv /\ Unfinished /\ [Next]_vars => Unfinished'
  BY UnfinishedStep
<1>3. IInv /\ Unfinished => (pc \notin Over => RequestGoesOn \/ PoolGoesOn)
  <2> SUFFICES ASSUME IInv, Unfinished, pc \notin Over, ~PoolGoesOn
               PROVE  RequestGoesOn
    OBVIOUS
  <2>1. Drained
    BY PoolDrains DEF IInv
  <2>2. CASE pc \in {"submit", "chunk"}
    <3>1. Waiting # {} /\ Waiting \subseteq Chunks
      BY <2>2 DEF Unfinished, Waiting, In
    <3> QED
      BY <2>2, <3>1, LeastExists DEF RequestGoesOn, Waiting
  <2>3. CASE pc = "gather"
    <3>1. Waiting = {}
      BY <2>3 DEF IInv, Submission, Pool
    <3>2. In(Finished) = Chunks
      BY <2>1, <3>1 DEF IInv, TypeOK, Drained, Waiting, In, Finished
    <3>3. Chunks \ taken # {} /\ Least(Chunks \ taken) # {}
      <4>1. Chunks \ taken # {}
        BY <2>3 DEF Unfinished, IInv, TypeOK
      <4> QED
        BY <4>1, LeastExists
    <3>4. NextUp # {}
      BY <3>2, <3>3 DEF NextUp, Least
    <3> QED
      BY <2>3, <3>4 DEF RequestGoesOn
  <2> QED
    BY <2>1, <2>2, <2>3 DEF RequestGoesOn, IInv, TypeOK, Over
<1> QED
  BY <1>1, <1>2, <1>3, Invariance, PTL DEF SafeSpec

\* How far a chunk and the request are.
ChunkStage(c) == CASE future[c] = "unsubmitted" -> 0
                   [] future[c] = "queued"      -> 1
                   [] future[c] = "running"     -> 2
                   [] OTHER                     -> 3
RequestStage == CASE pc = "start"               -> 0
                  [] pc \in {"submit", "chunk"} -> 1
                  [] pc = "gather"              -> 2
                  [] pc \in {"reduce", "unwind"} -> 3
                  [] OTHER                      -> 4

\* Nothing is done twice: every step takes a chunk or the request further, or
\* takes one more outcome, and none takes anything back, so that a request of n
\* chunks is over after 4n + 4 steps at most.
THEOREM OnlyForward ==
  SafeSpec => [][/\ \A c \in Chunks : ChunkStage(c) <= ChunkStage(c)'
                 /\ RequestStage <= RequestStage' /\ taken \subseteq taken'
                 /\ \/ \E c \in Chunks : ChunkStage(c) < ChunkStage(c)'
                    \/ RequestStage < RequestStage' \/ taken # taken']_vars
<1> DEFINE Forward ==
      /\ \A c \in Chunks : ChunkStage(c) <= ChunkStage(c)'
      /\ RequestStage <= RequestStage' /\ taken \subseteq taken'
      /\ \/ \E c \in Chunks : ChunkStage(c) < ChunkStage(c)'
         \/ RequestStage < RequestStage' \/ taken # taken'
<1>1. IInv /\ [Next]_vars => [Forward]_vars
  <2> SUFFICES ASSUME IInv, Next, ~UNCHANGED vars
               PROVE  Forward
    OBVIOUS
  <2> USE DEF ChunkStage, RequestStage, IInv, TypeOK
  <2>1. CASE MasterCrashes \/ Split \/ Unwind \/ ChunkFails \/ Reduce
    BY <2>1 DEF MasterCrashes, Split, Unwind, ChunkFails, Reduce
  <2>2. CASE Submit \/ ProcessChunk
    <3>1. PICK c \in Chunks :
            /\ future[c] = "unsubmitted" /\ future'[c] \in {"queued", "done", "raised"}
            /\ \A d \in Chunks : d # c => future'[d] = future[d]
      BY <2>2 DEF Submit, ProcessChunk, Least, In
    <3>2. RequestStage <= RequestStage' /\ taken' = taken
      BY <2>2 DEF Submit, ProcessChunk
    <3> QED
      BY <3>1, <3>2
  <2>3. CASE Gather
    BY <2>3 DEF Gather, GatherOne, NextUp, In
  <2>4. CASE Start
    BY <2>4 DEF Start, Least, In
  <2>5. CASE \E c \in Chunks : Complete(c) \/ Raise(c)
    BY <2>5 DEF Complete, Raise
  <2> QED
    BY <2>1, <2>2, <2>3, <2>4, <2>5 DEF Next, RequestStep, Done
<1> QED
  BY <1>1, Invariance, PTL DEF SafeSpec
=============================================================================
