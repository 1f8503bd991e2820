-------------------------- MODULE LogReadersProofs --------------------------
(***************************************************************************)
(* Proofs about EventLog and LogReaders, for any scenarios: any number of  *)
(* requests, chunks, workers and retries, and a clock of any range.  They  *)
(* use the safety part of the specification only.                          *)
(***************************************************************************)
EXTENDS LogReaders, FiniteSetTheorems, SequenceTheorems, WellFoundedInduction, TLAPS

-----------------------------------------------------------------------------
(* The invariant: what the log says of the jobs, and the jobs of the log. *)

Entry == [at : Nat, job : JobIds \cup {NoJob}, worker : Workers, what : EventTypes \cup States]

\* The log is in the order of time.
LogTyped ==
  /\ log \in Seq(Entry)
  /\ \A i \in DOMAIN log : log[i].at <= now
  /\ \A i, k \in DOMAIN log : i <= k => log[i].at <= log[k].at

Answered == {"answered", "received"}

\* Where the job of an event is, for each kind of event.
Placed(e) ==
  /\ e.what = "QUEUED" => e.job \in announced /\ ~Aggregation(e.job)
  /\ e.what = "DEQUEUED" => e.job \in JobIds /\ ~Aggregation(e.job)
  /\ e.what = "EXECUTION_START" =>
       e.job \in JobIds /\ ~Aggregation(e.job) /\ phase[e.job] \notin {"new", "queued"}
  /\ e.what = "EXECUTION_END" => e.job \in JobIds /\ ~Aggregation(e.job)
  /\ e.what = "INFERENCE_START" =>
       e.job \in JobIds /\ ~Aggregation(e.job) /\ phase[e.job] \notin {"new", "queued"}
  /\ e.what = "INFERENCE_END" =>
       /\ e.job \in JobIds /\ ~Aggregation(e.job)
       /\ phase[e.job] \in Answered /\ e.job \notin leaving
  /\ e.what \in {"busy", "blocked"} => e.job \in JobIds
  /\ e.job # NoJob => e.worker = Job(e.job).worker
  /\ e.what \in {"AGGREGATION_START", "AGGREGATION_END"} =>
       e.job \in JobIds /\ Aggregation(e.job)
  /\ e.what = "RETRY_START" => e.job \in JobIds /\ Retry(e.job) /\ phase[e.job] # "new"
  /\ e.what = "RETRY_END" => e.job \in JobIds /\ Retry(e.job) /\ phase[e.job] = "received"

Origin == \A k \in DOMAIN log : Placed(log[k])

Logged(j, what) == \E k \in DOMAIN log : log[k].job = j /\ log[k].what = what

\* The event that a job at its place has in the log.
StartedAt(j) ==
  /\ j \in announced => Logged(j, "QUEUED")
  /\ phase[j] = "queued" => ~Aggregation(j) /\ ~Monolithic /\ (Queue \/ j \in announced)
  /\ phase[j] = "blocked" => ~Aggregation(j)
  /\ j \in leaving => phase[j] \in Answered /\ ~Aggregation(j)
  /\ Working(j) =>
       IF Aggregation(j) THEN Logged(j, "AGGREGATION_START")
       ELSE Logged(j, "EXECUTION_START") /\ Logged(j, "INFERENCE_START")
  /\ phase[j] \in Answered /\ j \notin leaving /\ ~Aggregation(j) =>
       Logged(j, "INFERENCE_END")
  /\ Retry(j) /\ phase[j] # "new" => Logged(j, "RETRY_START")

Started == \A j \in JobIds : StartedAt(j)

\* There is such an event of the same job before event k.
After(k, what) ==
  \E m \in DOMAIN log : m < k /\ log[m].job = log[k].job /\ log[m].what = what

\* What ends has begun.
Paired ==
  \A k \in DOMAIN log :
    /\ log[k].what = "EXECUTION_END" => After(k, "EXECUTION_START")
    /\ log[k].what = "INFERENCE_END" => After(k, "INFERENCE_START")
    /\ log[k].what = "AGGREGATION_END" => After(k, "AGGREGATION_START")
    /\ log[k].what = "RETRY_END" => After(k, "RETRY_START")
    /\ log[k].what = "DEQUEUED" /\ ~Queue => After(k, "QUEUED")

\* The kinds of events that a job has once.
Single == {"EXECUTION_START", "INFERENCE_START", "INFERENCE_END", "RETRY_START"}

\* Each job begins once and answers once, and a retry of each chunk ends once.
Once ==
  \A k, m \in DOMAIN log : log[k].what = log[m].what =>
    /\ log[k].what \in Single /\ log[k].job = log[m].job => k = m
    /\ log[k].what = "RETRY_END" /\ Job(log[k].job).trace = Job(log[m].job).trace
         /\ Job(log[k].job).task = Job(log[m].job).task => k = m

\* A worker that has left a job behind it has said so.
Settled ==
  \A k \in DOMAIN log :
    log[k].what = "busy" /\ ~Working(log[k].job) /\ phase[log[k].job] \notin Lost =>
      \E m \in DOMAIN log : m > k /\ log[m].job = log[k].job /\ log[m].what = "idle"

IInv == TypeOK /\ LogTyped /\ Origin /\ Started /\ Paired /\ Once /\ Settled

-----------------------------------------------------------------------------
(* Numbers. *)

\* Induction, for a set of numbers.
LEMMA AllNumbers ==
  ASSUME NEW G \in SUBSET Nat, 0 \in G, \A n \in G : n + 1 \in G
  PROVE  G = Nat
<1> DEFINE B == Nat \ G
<1>1. SUFFICES ASSUME B # {}
               PROVE  FALSE
  OBVIOUS
<1>2. PICK n \in B : \A m \in B : ~(<<m, n>> \in OpToRel(<, Nat))
  BY <1>1, NatLessThanWellFounded, WFMin
<1>3. n \in Nat /\ n # 0 /\ n \notin G
  OBVIOUS
<1>4. n - 1 \in Nat /\ n - 1 < n /\ (n - 1) + 1 = n
  BY <1>3
<1>5. n - 1 \notin B
  BY <1>2, <1>3, <1>4 DEF OpToRel
<1> QED
  BY <1>3, <1>4, <1>5

\* A set of positions has a last one.
LEMMA LastOf ==
  ASSUME NEW n \in Nat, NEW S \in SUBSET (1 .. n), S # {}
  PROVE  Max(S) \in S /\ \A y \in S : y <= Max(S)
<1> DEFINE T == {n - y : y \in S}
<1>1. T \subseteq Nat /\ T # {}
  <2>1. \A y \in S : n - y \in Nat
    OBVIOUS
  <2> QED
    BY <2>1
<1>2. PICK x \in T : \A y \in T : ~(<<y, x>> \in OpToRel(<, Nat))
  BY <1>1, NatLessThanWellFounded, WFMin
<1>3. \A y \in T : ~(y < x)
  BY <1>1, <1>2 DEF OpToRel
<1>4. PICK z \in S : x = n - z
  BY <1>2
<1>5. \A y \in S : y \in Nat /\ n - y \in T
  OBVIOUS
<1> HIDE DEF T
<1>6. \A y \in S : z >= y
  BY <1>3, <1>4, <1>5
<1>7. Max(S) \in S /\ \A y \in S : Max(S) >= y
  BY <1>6 DEF Max
<1> QED
  BY <1>5, <1>7

\* A set of positions has a first one.
LEMMA FirstOf ==
  ASSUME NEW S \in SUBSET Nat, S # {}
  PROVE  Min(S) \in S /\ \A y \in S : Min(S) <= y
<1>1. PICK x \in S : \A y \in S : ~(<<y, x>> \in OpToRel(<, Nat))
  BY NatLessThanWellFounded, WFMin
<1>2. \A y \in S : x <= y
  <2>1. \A y \in S : ~(y < x)
    BY <1>1 DEF OpToRel
  <2> QED
    BY <2>1
<1> QED
  BY <1>2 DEF Min

-----------------------------------------------------------------------------
(* Sums over finite sets, for the sums of Functions. *)

\* Induction over a finite set, for a set of its subsets.
LEMMA AllSubsets ==
  ASSUME NEW S, IsFiniteSet(S), NEW G \in SUBSET SUBSET S,
         {} \in G, \A T \in G : \A x \in S \ T : T \cup {x} \in G
  PROVE  S \in G
<1> DEFINE N == {n \in Nat : \A T \in SUBSET S : Cardinality(T) = n => T \in G}
<1>1. \A T \in SUBSET S : IsFiniteSet(T) /\ Cardinality(T) \in Nat
  BY FS_Subset, FS_CardinalityType
<1>2. 0 \in N
  BY <1>1, FS_EmptySet
<1>3. ASSUME NEW n \in N
      PROVE  n + 1 \in N
  <2> SUFFICES ASSUME NEW T \in SUBSET S, Cardinality(T) = n + 1
               PROVE  T \in G
    OBVIOUS
  <2>1. n \in Nat
    OBVIOUS
  <2>2. T # {}
    BY <2>1, FS_EmptySet
  <2>3. PICK x \in T : TRUE
    BY <2>2
  <2>4. Cardinality(T \ {x}) = n
    BY <1>1, <2>1, FS_RemoveElement
  <2>5. T \ {x} \in G /\ x \in S \ (T \ {x}) /\ (T \ {x}) \cup {x} = T
    BY <2>4
  <2> QED
    BY <2>5
<1> HIDE DEF N
<1>4. N = Nat
  <2>1. N \in SUBSET Nat
    BY DEF N
  <2> QED
    BY <1>2, <1>3, <2>1, AllNumbers
<1> QED
  BY <1>1, <1>4 DEF N

\* The element that a sum takes next, and the sums over all subsets of S.
Some(T) == CHOOSE x \in T : TRUE
Sums(g, f, S) ==
  g = [T \in SUBSET S |-> IF T = {} THEN 0 ELSE f[Some(T)] + g[T \ {Some(T)}]]

LEMMA SumsExist ==
  ASSUME NEW f, NEW S, IsFiniteSet(S)
  PROVE  \E g : Sums(g, f, S)
<1> DEFINE Small(n) == {T \in SUBSET S : Cardinality(T) <= n}
           Take(g, T) == IF T = {} THEN 0 ELSE f[Some(T)] + g[T \ {Some(T)}]
           G == {n \in Nat : \E g : g = [T \in Small(n) |-> Take(g, T)]}
<1>1. /\ \A T \in SUBSET S : IsFiniteSet(T) /\ Cardinality(T) \in Nat
      /\ \A T \in SUBSET S : Cardinality(T) = 0 <=> T = {}
  BY FS_Subset, FS_CardinalityType, FS_EmptySet
<1>2. \A T \in SUBSET S : T # {} =>
        /\ Some(T) \in T /\ T \ {Some(T)} \in SUBSET S
        /\ Cardinality(T \ {Some(T)}) = Cardinality(T) - 1
  <2> SUFFICES ASSUME NEW T \in SUBSET S, T # {}
               PROVE  /\ Some(T) \in T
                      /\ Cardinality(T \ {Some(T)}) = Cardinality(T) - 1
    OBVIOUS
  <2>1. Some(T) \in T
    BY DEF Some
  <2> QED
    BY <1>1, <2>1, FS_RemoveElement
<1>3. 0 \in G
  <2> DEFINE g == [T \in Small(0) |-> 0]
  <2>1. \A T \in Small(0) : T = {}
    BY <1>1
  <2>2. g = [T \in Small(0) |-> Take(g, T)]
    BY <2>1
  <2> QED
    BY <2>2
<1>4. ASSUME NEW n \in G
      PROVE  n + 1 \in G
  <2>1. PICK h : h = [T \in Small(n) |-> Take(h, T)]
    OBVIOUS
  <2> DEFINE g == [T \in Small(n + 1) |-> Take(h, T)]
  <2>2. n \in Nat
    OBVIOUS
  <2>3. ASSUME NEW T \in Small(n)
        PROVE  T \in Small(n + 1) /\ g[T] = h[T]
    <3>1. T \in Small(n + 1)
      BY <1>1, <2>2
    <3>2. h[T] = Take(h, T)
      BY <2>1
    <3> QED
      BY <3>1, <3>2
  <2>4. \A T \in Small(n + 1) : T # {} => T \ {Some(T)} \in Small(n)
    BY <1>1, <1>2, <2>2
  <2>5. \A T \in Small(n + 1) : g[T] = Take(g, T)
    BY <2>3, <2>4
  <2>6. g = [T \in Small(n + 1) |-> Take(g, T)]
    BY <2>5
  <2>7. \E k : k = [T \in Small(n + 1) |-> Take(k, T)]
    BY <2>6
  <2> HIDE DEF Small, Take, g
  <2> QED
    BY <2>2, <2>7
<1>5. G = Nat
  <2> HIDE DEF G
  <2>1. G \in SUBSET Nat
    BY DEF G
  <2> QED
    BY <1>3, <1>4, <2>1, AllNumbers
<1>6. PICK g : g = [T \in Small(Cardinality(S)) |-> Take(g, T)]
  BY <1>1, <1>5
<1>7. Small(Cardinality(S)) = SUBSET S
  <2>1. \A T \in SUBSET S : Cardinality(T) <= Cardinality(S)
    BY FS_Subset
  <2> QED
    BY <2>1
<1> QED
  BY <1>6, <1>7 DEF Sums

\* The order of the summands does not matter.
LEMMA SumsAny ==
  ASSUME NEW f, NEW S, IsFiniteSet(S), \A x \in S : f[x] \in Nat, NEW g, Sums(g, f, S)
  PROVE  \A T \in SUBSET S : g[T] \in Nat /\ \A x \in T : g[T] = f[x] + g[T \ {x}]
<1> DEFINE Good(T) == g[T] \in Nat /\ \A x \in T : g[T] = f[x] + g[T \ {x}]
           G == {n \in Nat : \A T \in SUBSET S : Cardinality(T) <= n => Good(T)}
<1>1. /\ \A T \in SUBSET S : IsFiniteSet(T) /\ Cardinality(T) \in Nat
      /\ \A T \in SUBSET S : Cardinality(T) = 0 <=> T = {}
      /\ \A T \in SUBSET S : \A x \in T : Cardinality(T \ {x}) = Cardinality(T) - 1
  BY FS_Subset, FS_CardinalityType, FS_EmptySet, FS_RemoveElement
<1>2. \A T \in SUBSET S : g[T] = IF T = {} THEN 0 ELSE f[Some(T)] + g[T \ {Some(T)}]
  BY DEF Sums
<1>3. 0 \in G
  <2>1. ASSUME NEW T \in SUBSET S, Cardinality(T) <= 0
        PROVE  Good(T)
    <3>1. T = {}
      BY <1>1, <2>1
    <3>2. g[T] = 0
      BY <1>2, <3>1
    <3> QED
      BY <3>1, <3>2
  <2> QED
    BY <2>1
<1>4. ASSUME NEW n \in G
      PROVE  n + 1 \in G
  <2>1. n \in Nat /\ \A T \in SUBSET S : Cardinality(T) <= n => Good(T)
    OBVIOUS
  <2>2. ASSUME NEW T \in SUBSET S, Cardinality(T) <= n + 1
        PROVE  Good(T)
    <3>1. CASE T = {}
      BY <1>2, <3>1
    <3>2. CASE T # {}
      <4> DEFINE c == Some(T)
      <4>1. c \in T
        BY <3>2 DEF Some
      <4>2. g[T] = f[c] + g[T \ {c}]
        BY <1>2, <3>2
      <4> HIDE DEF c
      <4>3. \A x \in T : T \ {x} \in SUBSET S /\ Good(T \ {x})
        <5> SUFFICES ASSUME NEW x \in T
                     PROVE  Good(T \ {x})
          OBVIOUS
        <5>1. T \ {x} \in SUBSET S /\ Cardinality(T \ {x}) <= n
          BY <1>1, <2>1, <2>2
        <5> HIDE DEF Good
        <5> QED
          BY <2>1, <5>1
      <4>4. g[T] \in Nat
        <5>1. g[T \ {c}] \in Nat /\ f[c] \in Nat
          BY <4>1, <4>3
        <5> QED
          BY <4>2, <5>1
      <4>5. ASSUME NEW x \in T
            PROVE  g[T] = f[x] + g[T \ {x}]
        <5>1. CASE x = c
          BY <4>2, <5>1
        <5>2. CASE x # c
          <6>1. x \in T \ {c} /\ c \in T \ {x} /\ (T \ {c}) \ {x} = (T \ {x}) \ {c}
            BY <4>1, <5>2
          <6>2. /\ g[T \ {c}] = f[x] + g[(T \ {x}) \ {c}]
                /\ g[T \ {x}] = f[c] + g[(T \ {x}) \ {c}]
            BY <4>1, <4>3, <6>1
          <6>3. /\ f[x] \in Nat /\ f[c] \in Nat
                /\ g[(T \ {x}) \ {c}] \in Nat
            <7>1. Cardinality((T \ {x}) \ {c}) <= n /\ (T \ {x}) \ {c} \in SUBSET S
              <8>1. T \ {x} \in SUBSET S
                OBVIOUS
              <8>2. /\ Cardinality(T \ {x}) = Cardinality(T) - 1
                    /\ Cardinality((T \ {x}) \ {c}) = Cardinality(T \ {x}) - 1
                BY <1>1, <6>1, <8>1
              <8> QED
                BY <1>1, <2>1, <2>2, <8>1, <8>2
            <7>2. Good((T \ {x}) \ {c})
              BY <2>1, <7>1
            <7> QED
              BY <4>1, <7>2
          <6> QED
            BY <4>2, <6>2, <6>3
        <5> QED
          BY <5>1, <5>2
      <4> QED
        BY <4>4, <4>5
    <3> QED
      BY <3>1, <3>2
  <2> HIDE DEF Good
  <2> QED
    BY <2>1, <2>2
<1> HIDE DEF G
<1>5. G = Nat
  <2>1. G \in SUBSET Nat
    BY DEF G
  <2> QED
    BY <1>3, <1>4, <2>1, AllNumbers
<1>6. \A T \in SUBSET S : Good(T)
  <2> HIDE DEF Good
  <2>1. \A T \in SUBSET S : Cardinality(T) \in G /\ Cardinality(T) <= Cardinality(T)
    BY <1>1, <1>5
  <2> QED
    BY <2>1 DEF G
<1> QED
  BY <1>6

LEMMA SumIsOne ==
  ASSUME NEW f, NEW S, IsFiniteSet(S)
  PROVE  \E g : Sums(g, f, S) /\ SumFunctionOnSet(f, S) = g[S]
<1> DEFINE h == CHOOSE g : Sums(g, f, S)
<1>1. Sums(h, f, S)
  BY SumsExist
<1>2. SumFunctionOnSet(f, S) = h[S]
  BY DEF SumFunctionOnSet, FoldFunctionOnSet, MapThenFoldSet, Sums, Some
<1> QED
  BY <1>1, <1>2

LEMMA SumEmpty ==
  ASSUME NEW f
  PROVE  SumFunctionOnSet(f, {}) = 0
<1>1. PICK g : Sums(g, f, {}) /\ SumFunctionOnSet(f, {}) = g[{}]
  BY FS_EmptySet, SumIsOne
<1> QED
  BY <1>1 DEF Sums

LEMMA SumAdd ==
  ASSUME NEW f, NEW S, IsFiniteSet(S), NEW x, x \notin S,
         f[x] \in Nat, \A y \in S : f[y] \in Nat
  PROVE  SumFunctionOnSet(f, S \cup {x}) = f[x] + SumFunctionOnSet(f, S)
<1> DEFINE R == S \cup {x}
<1>1. IsFiniteSet(R) /\ \A y \in R : f[y] \in Nat
  BY FS_AddElement
<1>2. PICK g : Sums(g, f, R) /\ SumFunctionOnSet(f, R) = g[R]
  BY <1>1, SumIsOne
<1>3. PICK h : Sums(h, f, S) /\ SumFunctionOnSet(f, S) = h[S]
  BY SumIsOne
<1>4. g[R] = f[x] + g[S]
  <2>1. R \ {x} = S /\ x \in R /\ R \in SUBSET R
    OBVIOUS
  <2> HIDE DEF R
  <2> QED
    BY <1>1, <1>2, <2>1, SumsAny
<1>5. \A T \in SUBSET S : \A y \in T : h[T] = f[y] + h[T \ {y}]
  <2> SUFFICES ASSUME NEW T \in SUBSET S, NEW y \in T
               PROVE  h[T] = f[y] + h[T \ {y}]
    OBVIOUS
  <2>1. Sums(h, f, S)
    BY <1>3
  <2>2. IsFiniteSet(S) /\ \A z \in S : f[z] \in Nat
    OBVIOUS
  <2> HIDE DEF R
  <2>3. \A A \in SUBSET S : h[A] \in Nat /\ \A z \in A : h[A] = f[z] + h[A \ {z}]
    BY <2>1, <2>2, SumsAny
  <2> QED
    BY <2>3
\* Both agree on the subsets of S.
<1>6. g[S] = h[S]
  <2> DEFINE G == {T \in SUBSET S : g[T] = h[T]}
  <2>1. {} \in G
    BY <1>2, <1>3 DEF Sums
  <2>2. ASSUME NEW T \in G, NEW y \in S \ T
        PROVE  T \cup {y} \in G
    <3> DEFINE U == T \cup {y}
    <3>1. U \in SUBSET S /\ U \in SUBSET R /\ y \in U /\ U \ {y} = T
      OBVIOUS
    <3> HIDE DEF U, R
    <3>2. g[U] = f[y] + g[T]
      BY <1>1, <1>2, <3>1, SumsAny
    <3>3. h[U] = f[y] + h[T]
      BY <1>5, <3>1
    <3> QED
      BY <3>1, <3>2, <3>3 DEF U
  <2> HIDE DEF G
  <2>3. S \in G
    <3>1. G \in SUBSET SUBSET S
      BY DEF G
    <3> QED
      BY <2>1, <2>2, <3>1, AllSubsets
  <2> QED
    BY <2>3 DEF G
<1> QED
  BY <1>2, <1>3, <1>4, <1>6

\* Sums are compared summand by summand.
LEMMA SumTyped ==
  ASSUME NEW f, NEW S, IsFiniteSet(S), \A x \in S : f[x] \in Nat
  PROVE  SumFunctionOnSet(f, S) \in Nat
<1> DEFINE G == {T \in SUBSET S : SumFunctionOnSet(f, T) \in Nat}
<1>1. {} \in G
  BY SumEmpty
<1>2. ASSUME NEW T \in G, NEW x \in S \ T
      PROVE  T \cup {x} \in G
  <2>1. SumFunctionOnSet(f, T \cup {x}) = f[x] + SumFunctionOnSet(f, T)
    BY FS_Subset, SumAdd
  <2> QED
    BY <2>1
<1> HIDE DEF G
<1>3. S \in G
  <2>1. G \in SUBSET SUBSET S
    BY DEF G
  <2> QED
    BY <1>1, <1>2, <2>1, AllSubsets
<1> QED
  BY <1>3 DEF G

LEMMA SumSame ==
  ASSUME NEW f, NEW g, NEW S, IsFiniteSet(S), \A x \in S : f[x] \in Nat /\ f[x] = g[x]
  PROVE  SumFunctionOnSet(f, S) = SumFunctionOnSet(g, S)
<1> DEFINE G == {T \in SUBSET S : SumFunctionOnSet(f, T) = SumFunctionOnSet(g, T)}
<1>1. {} \in G
  BY SumEmpty
<1>2. ASSUME NEW T \in G, NEW x \in S \ T
      PROVE  T \cup {x} \in G
  <2>1. /\ SumFunctionOnSet(f, T \cup {x}) = f[x] + SumFunctionOnSet(f, T)
        /\ SumFunctionOnSet(g, T \cup {x}) = g[x] + SumFunctionOnSet(g, T)
    BY FS_Subset, SumAdd
  <2> QED
    BY <2>1
<1> HIDE DEF G
<1>3. S \in G
  <2>1. G \in SUBSET SUBSET S
    BY DEF G
  <2> QED
    BY <1>1, <1>2, <2>1, AllSubsets
<1> QED
  BY <1>3 DEF G

LEMMA SumPlus ==
  ASSUME NEW f, NEW g, NEW h, NEW S, IsFiniteSet(S),
         \A x \in S : f[x] \in Nat /\ g[x] \in Nat /\ h[x] = f[x] + g[x]
  PROVE  SumFunctionOnSet(h, S) = SumFunctionOnSet(f, S) + SumFunctionOnSet(g, S)
<1> DEFINE G == {T \in SUBSET S : SumFunctionOnSet(h, T) =
                                    SumFunctionOnSet(f, T) + SumFunctionOnSet(g, T)}
<1>1. {} \in G
  BY SumEmpty
<1>2. ASSUME NEW T \in G, NEW x \in S \ T
      PROVE  T \cup {x} \in G
  <2>1. IsFiniteSet(T) /\ \A y \in T \cup {x} : f[y] \in Nat /\ g[y] \in Nat /\ h[y] \in Nat
    BY FS_Subset
  <2>2. /\ SumFunctionOnSet(f, T \cup {x}) = f[x] + SumFunctionOnSet(f, T)
        /\ SumFunctionOnSet(g, T \cup {x}) = g[x] + SumFunctionOnSet(g, T)
        /\ SumFunctionOnSet(h, T \cup {x}) = h[x] + SumFunctionOnSet(h, T)
    BY <2>1, SumAdd
  <2>3. SumFunctionOnSet(f, T) \in Nat /\ SumFunctionOnSet(g, T) \in Nat
    BY <2>1, SumTyped
  <2> QED
    BY <2>2, <2>3
<1> HIDE DEF G
<1>3. S \in G
  <2>1. G \in SUBSET SUBSET S
    BY DEF G
  <2> QED
    BY <1>1, <1>2, <2>1, AllSubsets
<1> QED
  BY <1>3 DEF G

\* The sum over two disjoint sets.
LEMMA SumUnion ==
  ASSUME NEW f, NEW S, IsFiniteSet(S), NEW R, IsFiniteSet(R), S \cap R = {},
         \A x \in S \cup R : f[x] \in Nat
  PROVE  SumFunctionOnSet(f, S \cup R) = SumFunctionOnSet(f, S) + SumFunctionOnSet(f, R)
<1> DEFINE G == {T \in SUBSET S : SumFunctionOnSet(f, T \cup R) =
                                    SumFunctionOnSet(f, T) + SumFunctionOnSet(f, R)}
<1>1. SumFunctionOnSet(f, R) \in Nat
  BY SumTyped
<1>2. {} \in G
  <2>1. {} \cup R = R
    OBVIOUS
  <2> QED
    BY <1>1, <2>1, SumEmpty
<1>3. ASSUME NEW T \in G, NEW x \in S \ T
      PROVE  T \cup {x} \in G
  <2>1. IsFiniteSet(T) /\ IsFiniteSet(T \cup R) /\ x \notin T \cup R
    BY FS_Subset, FS_Union
  <2>2. (T \cup {x}) \cup R = (T \cup R) \cup {x}
    OBVIOUS
  <2>3. /\ SumFunctionOnSet(f, T \cup {x}) = f[x] + SumFunctionOnSet(f, T)
        /\ SumFunctionOnSet(f, (T \cup R) \cup {x}) = f[x] + SumFunctionOnSet(f, T \cup R)
    BY <2>1, SumAdd
  <2>4. SumFunctionOnSet(f, T) \in Nat /\ f[x] \in Nat
    BY <2>1, SumTyped
  <2>5. SumFunctionOnSet(f, T \cup R) = SumFunctionOnSet(f, T) + SumFunctionOnSet(f, R)
    OBVIOUS
  <2>6. SumFunctionOnSet(f, (T \cup {x}) \cup R) =
          SumFunctionOnSet(f, T \cup {x}) + SumFunctionOnSet(f, R)
    <3>1. SumFunctionOnSet(f, (T \cup {x}) \cup R) = f[x] + SumFunctionOnSet(f, T \cup R)
      BY <2>2, <2>3
    <3>2. \A a, b, c \in Nat : a + (b + c) = (a + b) + c
      OBVIOUS
    <3>3. SumFunctionOnSet(f, (T \cup {x}) \cup R) =
            f[x] + (SumFunctionOnSet(f, T) + SumFunctionOnSet(f, R))
      BY <2>5, <3>1
    <3>4. f[x] + (SumFunctionOnSet(f, T) + SumFunctionOnSet(f, R)) =
            (f[x] + SumFunctionOnSet(f, T)) + SumFunctionOnSet(f, R)
      BY <1>1, <2>4, <3>2
    <3> QED
      BY <2>3, <3>3, <3>4
  <2> QED
    BY <2>6
<1> HIDE DEF G
<1>4. S \in G
  <2>1. G \in SUBSET SUBSET S
    BY DEF G
  <2> QED
    BY <1>2, <1>3, <2>1, AllSubsets
<1> QED
  BY <1>4 DEF G

\* A sum grows with its summands and with its set.
LEMMA SumGrows ==
  ASSUME NEW f, NEW g, NEW S, IsFiniteSet(S), NEW R \in SUBSET S,
         \A x \in S : g[x] \in Nat, \A x \in R : f[x] \in Nat /\ f[x] <= g[x]
  PROVE  SumFunctionOnSet(f, R) <= SumFunctionOnSet(g, S)
<1> DEFINE d == [x \in R |-> g[x] - f[x]]
           Q == S \ R
<1>1. IsFiniteSet(R) /\ IsFiniteSet(Q) /\ R \cup Q = S /\ R \cap Q = {}
  BY FS_Subset
<1>2. \A x \in R : d[x] \in Nat /\ g[x] = f[x] + d[x]
  OBVIOUS
<1>3. \A x \in Q : g[x] \in Nat
  OBVIOUS
<1> HIDE DEF d, Q
<1>4. SumFunctionOnSet(g, R) = SumFunctionOnSet(f, R) + SumFunctionOnSet(d, R)
  BY <1>1, <1>2, SumPlus
<1>5. SumFunctionOnSet(g, S) = SumFunctionOnSet(g, R) + SumFunctionOnSet(g, Q)
  <2>1. \A x \in R \cup Q : g[x] \in Nat
    BY <1>1
  <2> QED
    BY <1>1, <2>1, SumUnion
<1>6. /\ SumFunctionOnSet(d, R) \in Nat /\ SumFunctionOnSet(f, R) \in Nat
      /\ SumFunctionOnSet(g, Q) \in Nat
  BY <1>1, <1>2, <1>3, SumTyped
<1> QED
  BY <1>4, <1>5, <1>6

\* Nothing but the summands of a part counts.
LEMMA SumPart ==
  ASSUME NEW f, NEW S, IsFiniteSet(S), NEW R \in SUBSET S,
         \A x \in R : f[x] \in Nat, \A x \in S \ R : f[x] = 0
  PROVE  SumFunctionOnSet(f, S) = SumFunctionOnSet(f, R)
<1> DEFINE Q == S \ R
<1>1. IsFiniteSet(R) /\ IsFiniteSet(Q) /\ R \cup Q = S /\ R \cap Q = {}
  BY FS_Subset
<1>2. SumFunctionOnSet(f, Q) = 0
  <2> DEFINE G == {T \in SUBSET Q : SumFunctionOnSet(f, T) = 0}
  <2>1. {} \in G
    BY SumEmpty
  <2>2. ASSUME NEW T \in G, NEW x \in Q \ T
        PROVE  T \cup {x} \in G
    <3>1. SumFunctionOnSet(f, T \cup {x}) = f[x] + SumFunctionOnSet(f, T)
      BY <1>1, FS_Subset, SumAdd
    <3> QED
      BY <3>1
  <2> HIDE DEF G
  <2>3. Q \in G
    <3>1. G \in SUBSET SUBSET Q
      BY DEF G
    <3> HIDE DEF Q
    <3> QED
      BY <1>1, <2>1, <2>2, <3>1, AllSubsets
  <2> QED
    BY <2>3 DEF G
<1>3. \A x \in R \cup Q : f[x] \in Nat
  OBVIOUS
<1> HIDE DEF Q
<1>4. SumFunctionOnSet(f, S) = SumFunctionOnSet(f, R) + SumFunctionOnSet(f, Q)
  BY <1>1, <1>3, SumUnion
<1>5. SumFunctionOnSet(f, R) \in Nat
  BY <1>1, SumTyped
<1> QED
  BY <1>2, <1>4, <1>5

\* A summand that is the same for each element of a part.
LEMMA SumCount ==
  ASSUME NEW f, NEW S, IsFiniteSet(S), NEW d \in Nat, NEW B \in SUBSET S,
         \A x \in S : f[x] = IF x \in B THEN d ELSE 0
  PROVE  SumFunctionOnSet(f, S) = Cardinality(B) * d
<1>1. IsFiniteSet(B)
  BY FS_Subset
<1> DEFINE G == {T \in SUBSET B : SumFunctionOnSet(f, T) = Cardinality(T) * d}
<1>2. {} \in G
  BY SumEmpty, FS_EmptySet
<1>3. ASSUME NEW T \in G, NEW x \in B \ T
      PROVE  T \cup {x} \in G
  <2>1. IsFiniteSet(T)
    BY <1>1, FS_Subset
  <2>2. SumFunctionOnSet(f, T \cup {x}) = d + SumFunctionOnSet(f, T)
    BY <2>1, SumAdd
  <2>3. Cardinality(T \cup {x}) = Cardinality(T) + 1 /\ Cardinality(T) \in Nat
    BY <2>1, FS_AddElement, FS_CardinalityType
  <2> QED
    BY <2>2, <2>3
<1> HIDE DEF G
<1>4. B \in G
  <2>1. G \in SUBSET SUBSET B
    BY DEF G
  <2> QED
    BY <1>1, <1>2, <1>3, <2>1, AllSubsets
<1>5. SumFunctionOnSet(f, S) = SumFunctionOnSet(f, B)
  BY SumPart
<1> QED
  BY <1>4, <1>5 DEF G

\* The sum over a set is that of the sums over its parts.
LEMMA SumParts ==
  ASSUME NEW f, NEW J, IsFiniteSet(J), NEW K, NEW g,
         \A j \in J : /\ IsFiniteSet(K[j]) /\ g[j] = SumFunctionOnSet(f, K[j])
                      /\ \A x \in K[j] : f[x] \in Nat,
         \A i, j \in J : i # j => K[i] \cap K[j] = {},
         NEW U, U = UNION {K[j] : j \in J}
  PROVE  SumFunctionOnSet(g, J) = SumFunctionOnSet(f, U)
<1> DEFINE All(T) == UNION {K[j] : j \in T}
           G == {T \in SUBSET J : /\ IsFiniteSet(All(T))
                                  /\ SumFunctionOnSet(g, T) = SumFunctionOnSet(f, All(T))}
<1>1. {} \in G
  <2>1. All({}) = {}
    OBVIOUS
  <2> QED
    BY <2>1, SumEmpty, FS_EmptySet
<1>2. ASSUME NEW T \in G, NEW i \in J \ T
      PROVE  T \cup {i} \in G
  <2>1. All(T \cup {i}) = All(T) \cup K[i] /\ All(T) \cap K[i] = {}
    OBVIOUS
  <2>2. \A x \in All(T) \cup K[i] : f[x] \in Nat
    OBVIOUS
  <2>3. \A j \in T \cup {i} : g[j] \in Nat
    BY SumTyped
  <2>4. IsFiniteSet(All(T)) /\ IsFiniteSet(K[i]) /\ IsFiniteSet(T) /\ i \notin T
    BY FS_Subset
  <2>5. SumFunctionOnSet(g, T) = SumFunctionOnSet(f, All(T))
    OBVIOUS
  <2>6. g[i] = SumFunctionOnSet(f, K[i])
    OBVIOUS
  <2>7. /\ IsFiniteSet(All(T) \cup K[i])
        /\ SumFunctionOnSet(f, All(T) \cup K[i]) =
             SumFunctionOnSet(f, All(T)) + SumFunctionOnSet(f, K[i])
    <3> DEFINE A == All(T)
    <3>1. IsFiniteSet(A) /\ A \cap K[i] = {} /\ \A x \in A \cup K[i] : f[x] \in Nat
      BY <2>1, <2>2, <2>4
    <3>2. IsFiniteSet(K[i])
      BY <2>4
    <3> HIDE DEF A, All, G
    <3>3. IsFiniteSet(A \cup K[i])
      BY <3>1, <3>2, FS_Union
    <3>4. SumFunctionOnSet(f, A \cup K[i]) =
            SumFunctionOnSet(f, A) + SumFunctionOnSet(f, K[i])
      BY <3>1, <3>2, SumUnion
    <3> QED
      BY <3>3, <3>4 DEF A
  <2>8. SumFunctionOnSet(g, T \cup {i}) = g[i] + SumFunctionOnSet(g, T)
    BY <2>3, <2>4, SumAdd
  <2>9. SumFunctionOnSet(g, T) \in Nat /\ g[i] \in Nat
    BY <2>3, <2>4, SumTyped
  <2>10. /\ IsFiniteSet(All(T \cup {i}))
         /\ SumFunctionOnSet(g, T \cup {i}) = SumFunctionOnSet(f, All(T \cup {i}))
    <3> HIDE DEF All
    <3>1. All(T \cup {i}) = All(T) \cup K[i]
      BY <2>1
    <3>2. \A a, b \in Nat : a + b = b + a
      OBVIOUS
    <3>3. SumFunctionOnSet(g, T \cup {i}) = SumFunctionOnSet(f, All(T) \cup K[i])
      BY <2>5, <2>6, <2>7, <2>8, <2>9, <3>2, Zenon
    <3> QED
      BY <2>7, <3>1, <3>3, Zenon
  <2> HIDE DEF All
  <2> QED
    BY <2>10
<1> HIDE DEF G
<1>3. J \in G
  <2>1. G \in SUBSET SUBSET J
    BY DEF G
  <2> QED
    BY <1>1, <1>2, <2>1, AllSubsets
<1> QED
  BY <1>3 DEF G

-----------------------------------------------------------------------------
(* What a step writes. *)

\* Events of job j, each of the kinds E once, are put at the end of the log.
Adds(j, E) ==
  /\ log' \in Seq(Entry)
  /\ \A k \in DOMAIN log : k \in DOMAIN log' /\ log'[k] = log[k]
  /\ \A k \in DOMAIN log' \ DOMAIN log :
       /\ log'[k].job = j /\ log'[k].what \in E /\ log'[k].at = now
       /\ j # NoJob => log'[k].worker = Job(j).worker
       /\ \A m \in DOMAIN log : m < k
  /\ \A k, m \in DOMAIN log' \ DOMAIN log : log'[k].what = log'[m].what => k = m
  /\ \A e \in E : \E k \in DOMAIN log' \ DOMAIN log : log'[k].what = e

\* The jobs of a scenario.
LEMMA JobsTyped ==
  ASSUME TypeOK
  PROVE  /\ Len(scenario.jobs) \in Nat /\ JobIds = 1 .. Len(scenario.jobs)
         /\ \A j \in JobIds : Job(j) \in Jobs /\ Job(j).worker \in Workers
         /\ NoJob \notin JobIds
         /\ \A t \in Threads : t[2] \in Workers
         /\ now \in Nat
<1>1. scenario.jobs \in Seq(Jobs) /\ scenario.horizon \in Nat
  BY ConstantsAssumption DEF TypeOK
<1>2. Len(scenario.jobs) \in Nat /\ JobIds = 1 .. Len(scenario.jobs)
  BY <1>1 DEF JobIds
<1>3. \A j \in JobIds : Job(j) \in Jobs
  BY <1>1, <1>2 DEF Job
<1>4. now \in Nat
  BY <1>1 DEF TypeOK
<1> QED
  BY <1>2, <1>3, <1>4 DEF Workers, Threads, Thread, NoJob

\* A run is of one architecture.
LEMMA ArchitecturesApart ==
  ASSUME TypeOK
  PROVE  /\ ~(Queue /\ Pool) /\ ~(Queue /\ Monolithic) /\ ~(Pool /\ Monolithic)
         /\ Queue \/ Pool \/ Monolithic
BY ConstantsAssumption DEF TypeOK, Architectures, Queue, Pool, Monolithic

\* What a scenario says of its jobs.
LEMMA ScenarioRules ==
  ASSUME TypeOK, NEW j \in JobIds
  PROVE  /\ Retry(j) => Queue
         /\ Aggregation(j) => ~Queue /\ ~Retry(j)
         /\ \A i \in JobIds :
              /\ Job(i).trace = Job(j).trace /\ Job(i).task = Job(j).task
              /\ (Retry(i) <=> Retry(j)) /\ (Aggregation(i) <=> Aggregation(j)) /\ ~Retry(j)
              => i = j
<1>1. \A i \in JobIds : Job(i).kind \in {"chunk", "retry", "aggregation"}
  BY JobsTyped DEF Jobs
<1>2. \A i \in JobIds : (Retry(i) <=> Retry(j)) /\ (Aggregation(i) <=> Aggregation(j)) =>
                          Job(i).kind = Job(j).kind
  BY <1>1 DEF Retry, Aggregation
<1> QED
  BY <1>2, ConstantsAssumption DEF TypeOK, JobIds, Job, Retry, Aggregation, Queue

\* The scenario of a run never changes.
LEMMA ScenarioFixed ==
  ASSUME [Next]_vars
  PROVE  scenario' = scenario
BY DEF Next, vars, JobStep, Publish, Announce, Collect, Begin, Crash, Call, Aggregate, Answer,
       Leave, Raise, Wake, Tick

\* The sequence has each of the kinds once.
Lists(ev, E) ==
  /\ \A i \in 1 .. Len(ev) : ev[i] \in E
  /\ \A e \in E : \E i \in 1 .. Len(ev) : ev[i] = e
  /\ \A i, k \in 1 .. Len(ev) : ev[i] = ev[k] => i = k

\* What a job writes is put at the end of the log, at the time of the clock.
LEMMA WriteAdds ==
  ASSUME TypeOK, LogTyped, NEW j \in JobIds,
         NEW ev \in Seq(EventTypes \cup States),
         Write(j, ev), NEW E, Lists(ev, E)
  PROVE  Adds(j, E)
<1> DEFINE w == Job(j).worker
           new == [i \in 1 .. Len(ev) |-> Line(j, w, ev[i])]
<1>1. Len(ev) \in Nat /\ \A i \in 1 .. Len(ev) : ev[i] \in EventTypes \cup States
  OBVIOUS
<1>2. w \in Workers /\ now \in Nat
  BY JobsTyped
<1>3. \A i \in 1 .. Len(ev) :
        /\ Line(j, w, ev[i]) \in Entry
        /\ Line(j, w, ev[i]).job = j /\ Line(j, w, ev[i]).what = ev[i]
        /\ Line(j, w, ev[i]).at = now /\ Line(j, w, ev[i]).worker = w
  BY <1>1, <1>2 DEF Line, Entry
<1>4. /\ new \in Seq(Entry) /\ Len(new) = Len(ev)
      /\ \A i \in 1 .. Len(ev) : new[i] = Line(j, w, ev[i])
  BY <1>1, <1>3
<1>5. log' = log \o new /\ log \in Seq(Entry)
  BY DEF Write, LogTyped
<1> HIDE DEF new
<1>6. /\ log' \in Seq(Entry)
      /\ Len(log) \in Nat /\ DOMAIN log = 1 .. Len(log)
      /\ DOMAIN log' = 1 .. Len(log) + Len(ev)
      /\ \A k \in 1 .. Len(log) : log'[k] = log[k]
      /\ \A k \in DOMAIN log' \ DOMAIN log :
           k - Len(log) \in 1 .. Len(ev) /\ log'[k] = new[k - Len(log)]
      /\ \A i \in 1 .. Len(ev) :
           Len(log) + i \in DOMAIN log' \ DOMAIN log /\ log'[Len(log) + i] = new[i]
  <2>1. Len(log) \in Nat /\ DOMAIN log = 1 .. Len(log)
    BY <1>5
  <2>2. /\ log' \in Seq(Entry) /\ Len(log') = Len(log) + Len(ev)
        /\ \A k \in 1 .. Len(log) + Len(ev) :
             log'[k] = IF k <= Len(log) THEN log[k] ELSE new[k - Len(log)]
    <3>1. /\ log \o new \in Seq(Entry) /\ Len(log \o new) = Len(log) + Len(new)
          /\ \A k \in 1 .. Len(log) + Len(new) :
               (log \o new)[k] = IF k <= Len(log) THEN log[k] ELSE new[k - Len(log)]
      BY <1>4, <1>5, ConcatProperties, Zenon
    <3> QED
      BY <1>4, <1>5, <3>1
  <2>3. DOMAIN log' = 1 .. Len(log) + Len(ev)
    BY <2>2
  <2>4. ASSUME NEW k \in DOMAIN log' \ DOMAIN log
        PROVE  k - Len(log) \in 1 .. Len(ev) /\ log'[k] = new[k - Len(log)]
    BY <1>1, <2>1, <2>2
  <2>5. ASSUME NEW i \in 1 .. Len(ev)
        PROVE  Len(log) + i \in DOMAIN log' \ DOMAIN log /\ log'[Len(log) + i] = new[i]
    <3>1. Len(log) + i \in 1 .. Len(log) + Len(ev) /\ ~(Len(log) + i <= Len(log))
      BY <1>1, <2>1
    <3>2. Len(log) + i - Len(log) = i
      BY <1>1, <2>1
    <3> QED
      BY <2>1, <2>2, <2>3, <3>1, <3>2
  <2> QED
    BY <1>1, <2>1, <2>2, <2>3, <2>4, <2>5
<1>7. \A k \in DOMAIN log' \ DOMAIN log :
        /\ log'[k].job = j /\ log'[k].at = now /\ log'[k].worker = w
        /\ log'[k].what = ev[k - Len(log)]
  BY <1>3, <1>4, <1>6
<1>8. \A k \in DOMAIN log' \ DOMAIN log, m \in DOMAIN log : m < k
  BY <1>6
<1>9. \A k, m \in DOMAIN log' \ DOMAIN log : log'[k].what = log'[m].what => k = m
  <2> SUFFICES ASSUME NEW k \in DOMAIN log' \ DOMAIN log, NEW m \in DOMAIN log' \ DOMAIN log,
                      log'[k].what = log'[m].what
               PROVE  k = m
    OBVIOUS
  <2>1. k - Len(log) = m - Len(log)
    <3>1. /\ k - Len(log) \in 1 .. Len(ev) /\ m - Len(log) \in 1 .. Len(ev)
          /\ ev[k - Len(log)] = ev[m - Len(log)]
      BY <1>6, <1>7
    <3> QED
      BY <3>1 DEF Lists
  <2>2. k \in Nat /\ m \in Nat
    BY <1>1, <1>6
  <2> QED
    BY <1>6, <2>1, <2>2
<1>10. \A i \in 1 .. Len(ev) :
         \E k \in DOMAIN log' \ DOMAIN log : log'[k].what = ev[i]
  <2> SUFFICES ASSUME NEW i \in 1 .. Len(ev)
               PROVE  \E k \in DOMAIN log' \ DOMAIN log : log'[k].what = ev[i]
    OBVIOUS
  <2>1. log'[Len(log) + i] = Line(j, w, ev[i])
    BY <1>4, <1>6
  <2> QED
    BY <1>3, <1>6, <2>1
<1>11. \A k \in DOMAIN log' \ DOMAIN log : log'[k].what \in E
  BY <1>6, <1>7 DEF Lists
<1>12. \A k \in DOMAIN log : k \in DOMAIN log' /\ log'[k] = log[k]
  BY <1>1, <1>6
<1>13. \A e \in E : \E k \in DOMAIN log' \ DOMAIN log : log'[k].what = e
  BY <1>10 DEF Lists
<1>14. \A k \in DOMAIN log' \ DOMAIN log : log'[k].worker = Job(j).worker
  BY <1>7
<1> HIDE DEF w
<1> QED
  BY <1>6, <1>7, <1>8, <1>9, <1>11, <1>12, <1>13, <1>14 DEF Adds

LEMMA NothingAdded ==
  ASSUME LogTyped, log' = log, NEW j
  PROVE  Adds(j, {})
BY DEF Adds, LogTyped

\* A queue thread's first event is of no job.
LEMMA WakeAdds ==
  ASSUME TypeOK, LogTyped, NEW t \in Threads, Wake(t)
  PROVE  Adds(NoJob, {"idle"})
<1> DEFINE e == Line(NoJob, t[2], "idle")
<1>1. /\ e \in Entry /\ e.job = NoJob /\ e.what = "idle" /\ e.at = now
  BY JobsTyped DEF Line, Entry, States
<1>2. log' = Append(log, e) /\ log \in Seq(Entry)
  BY DEF Wake, LogTyped
<1> HIDE DEF e
<1>3. /\ log' \in Seq(Entry)
      /\ Len(log) \in Nat /\ DOMAIN log = 1 .. Len(log)
      /\ DOMAIN log' = 1 .. Len(log) + 1
      /\ \A k \in 1 .. Len(log) : log'[k] = log[k]
      /\ log'[Len(log) + 1] = e
  BY <1>1, <1>2
<1>4. DOMAIN log' \ DOMAIN log = {Len(log) + 1}
  BY <1>3
<1> QED
  BY <1>1, <1>3, <1>4 DEF Adds

PublishEvents(j) == IF Retry(j) THEN {"RETRY_START"} ELSE IF Queue THEN {} ELSE {"QUEUED"}
CollectEvents(j) == IF Retry(j) /\ Awaited(j) THEN {"RETRY_END"} ELSE {}
BeginEvents == {"busy", "INFERENCE_START", "EXECUTION_START", "blocked"}
               \cup (IF Monolithic THEN {} ELSE {"DEQUEUED"})
CrashEvents == {"WORKER_CRASH"} \cup (IF Queue THEN {} ELSE {"busy"})
               \cup (IF Monolithic THEN {"idle"} ELSE {"DEQUEUED"})
AnswerEvents(j) == IF Aggregation(j) THEN {"AGGREGATION_END", "idle"}
                   ELSE IF Queue THEN {"EXECUTION_END"}
                   ELSE {"EXECUTION_END", "INFERENCE_END", "idle"}

\* Tuples of different events.
LEMMA Tuple2 ==
  ASSUME NEW S, NEW a \in S, NEW b \in S,
         a # b
  PROVE  <<a, b>> \in Seq(S) /\ Lists(<<a, b>>, {a, b})
<1> DEFINE s == <<a, b>>
<1>1. s \in Seq(S) /\ Len(s) = 2 /\ s[1] = a /\ s[2] = b
  OBVIOUS
<1>2. 1 .. 2 = {1, 2}
  OBVIOUS
<1> HIDE DEF s
<1>3. Lists(s, {a, b})
  BY <1>1, <1>2 DEF Lists
<1> QED
  BY <1>1, <1>3 DEF s

LEMMA Tuple3 ==
  ASSUME NEW S, NEW a \in S, NEW b \in S, NEW c \in S,
         a # b, a # c,
         b # c
  PROVE  <<a, b, c>> \in Seq(S) /\ Lists(<<a, b, c>>, {a, b, c})
<1> DEFINE s == <<a, b, c>>
<1>1. s \in Seq(S) /\ Len(s) = 3 /\ s[1] = a /\ s[2] = b /\ s[3] = c
  OBVIOUS
<1>2. 1 .. 3 = {1, 2, 3}
  OBVIOUS
<1> HIDE DEF s
<1>3. Lists(s, {a, b, c})
  BY <1>1, <1>2 DEF Lists
<1> QED
  BY <1>1, <1>3 DEF s

LEMMA Tuple4 ==
  ASSUME NEW S, NEW a \in S, NEW b \in S, NEW c \in S, NEW d \in S,
         a # b, a # c, a # d,
         b # c, b # d,
         c # d
  PROVE  <<a, b, c, d>> \in Seq(S) /\ Lists(<<a, b, c, d>>, {a, b, c, d})
<1> DEFINE s == <<a, b, c, d>>
<1>1. s \in Seq(S) /\ Len(s) = 4 /\ s[1] = a /\ s[2] = b /\ s[3] = c /\ s[4] = d
  OBVIOUS
<1>2. 1 .. 4 = {1, 2, 3, 4}
  OBVIOUS
<1> HIDE DEF s
<1>3. Lists(s, {a, b, c, d})
  BY <1>1, <1>2 DEF Lists
<1> QED
  BY <1>1, <1>3 DEF s

LEMMA Tuple5 ==
  ASSUME NEW S, NEW a \in S, NEW b \in S, NEW c \in S, NEW d \in S, NEW e \in S,
         a # b, a # c, a # d, a # e,
         b # c, b # d, b # e,
         c # d, c # e,
         d # e
  PROVE  <<a, b, c, d, e>> \in Seq(S) /\ Lists(<<a, b, c, d, e>>, {a, b, c, d, e})
<1> DEFINE s == <<a, b, c, d, e>>
<1>1. s \in Seq(S) /\ Len(s) = 5 /\ s[1] = a /\ s[2] = b /\ s[3] = c /\ s[4] = d /\ s[5] = e
  OBVIOUS
<1>2. 1 .. 5 = {1, 2, 3, 4, 5}
  OBVIOUS
<1> HIDE DEF s
<1>3. Lists(s, {a, b, c, d, e})
  BY <1>1, <1>2 DEF Lists
<1> QED
  BY <1>1, <1>3 DEF s

LEMMA NamesAre ==
  \A a \in {"QUEUED", "DEQUEUED", "WORKER_CRASH", "INFERENCE_START", "INFERENCE_END",
            "EXECUTION_START", "EXECUTION_END", "RETRY_START", "RETRY_END",
            "AGGREGATION_START", "AGGREGATION_END", "busy", "idle", "blocked"} :
    a \in EventTypes \cup States
BY DEF EventTypes, States

LEMMA BeginsList ==
  ASSUME TypeOK
  PROVE  Begins \in Seq(EventTypes \cup States) /\ Lists(Begins, BeginEvents)
<1>1. CASE Queue
  <2>1. /\ Begins = <<"DEQUEUED", "INFERENCE_START", "busy", "EXECUTION_START", "blocked">>
        /\ BeginEvents = {"DEQUEUED", "INFERENCE_START", "busy", "EXECUTION_START", "blocked"}
    BY <1>1, ArchitecturesApart DEF Begins, BeginEvents
  <2> QED
    BY NamesAre, <2>1, Tuple5
<1>2. CASE Pool
  <2>1. /\ Begins = <<"busy", "DEQUEUED", "INFERENCE_START", "EXECUTION_START", "blocked">>
        /\ BeginEvents = {"busy", "DEQUEUED", "INFERENCE_START", "EXECUTION_START", "blocked"}
    BY <1>2, ArchitecturesApart DEF Begins, BeginEvents
  <2> QED
    BY NamesAre, <2>1, Tuple5
<1>3. CASE Monolithic
  <2>1. /\ Begins = <<"busy", "INFERENCE_START", "EXECUTION_START", "blocked">>
        /\ BeginEvents = {"busy", "INFERENCE_START", "EXECUTION_START", "blocked"}
    BY <1>3, ArchitecturesApart DEF Begins, BeginEvents
  <2> QED
    BY NamesAre, <2>1, Tuple4
<1> QED
  BY <1>1, <1>2, <1>3, ArchitecturesApart

LEMMA AnswersList ==
  ASSUME NEW j
  PROVE  Answers(j) \in Seq(EventTypes \cup States) /\ Lists(Answers(j), AnswerEvents(j))
<1>1. CASE Aggregation(j) \/ ~Queue
  BY <1>1, NamesAre, Tuple2, Tuple3 DEF Answers, AnswerEvents
<1>2. CASE ~Aggregation(j) /\ Queue
  <2>1. Answers(j) = <<"EXECUTION_END">> /\ AnswerEvents(j) = {"EXECUTION_END"}
    BY <1>2 DEF Answers, AnswerEvents
  <2> QED
    BY <2>1, NamesAre DEF Lists
<1> QED
  BY <1>1, <1>2

LEMMA LeavesList ==
  /\ <<"INFERENCE_END", "idle">> \in Seq(EventTypes \cup States)
  /\ Lists(<<"INFERENCE_END", "idle">>, {"INFERENCE_END", "idle"})
BY NamesAre, Tuple2

\* The events of each step of a job.
LEMMA JobAdds ==
  ASSUME TypeOK, LogTyped, NEW j \in JobIds
  PROVE  /\ Publish(j) => Adds(j, PublishEvents(j))
         /\ Announce(j) => Adds(j, {"QUEUED"})
         /\ Collect(j) => Adds(j, CollectEvents(j))
         /\ Begin(j) => Adds(j, BeginEvents)
         /\ Crash(j) => Adds(j, CrashEvents)
         /\ Call(j) => Adds(j, {"busy"})
         /\ Answer(j) => Adds(j, AnswerEvents(j))
         /\ Leave(j) => Adds(j, {"INFERENCE_END", "idle"})
         /\ Aggregate(j) => Adds(j, {"busy", "AGGREGATION_START"})
         /\ Raise(j) => Adds(j, {})
<1> DEFINE Names == EventTypes \cup States
<1>1. \A ev \in Seq(Names) : \A E : Write(j, ev) /\ Lists(ev, E) => Adds(j, E)
  BY WriteAdds
<1>2. \A a :
        /\ Lists(<<>>, {}) /\ Lists(<<a>>, {a})
  BY DEF Lists
<1>3. /\ Write(j, <<>>) => Adds(j, {})
      /\ \A a \in Names : Write(j, <<a>>) => Adds(j, {a})
  <2>1. <<>> \in Seq(Names) /\ \A a \in Names : <<a>> \in Seq(Names)
    OBVIOUS
  <2> QED
    BY <1>1, <1>2, <2>1
<1>5. Publish(j) => Adds(j, PublishEvents(j))
  BY <1>3, NamesAre DEF Publish, PublishEvents
<1>6. Announce(j) => Adds(j, {"QUEUED"})
  BY <1>3, NamesAre DEF Announce
<1>7. Collect(j) => Adds(j, CollectEvents(j))
  BY <1>3, NamesAre DEF Collect, CollectEvents, EndOfRetry
<1>8. Call(j) => Adds(j, {"busy"})
  BY <1>3, NamesAre DEF Call
<1>9. Raise(j) => Adds(j, {})
  BY NothingAdded DEF Raise
<1>10. Begin(j) => Adds(j, BeginEvents)
  BY <1>1, BeginsList DEF Begin
<1>11. Crash(j) => Adds(j, CrashEvents)
  <2> SUFFICES ASSUME Crash(j)
               PROVE  Adds(j, CrashEvents)
    OBVIOUS
  <2>1. Write(j, Crashes)
    BY DEF Crash
  <2>2. Crashes \in Seq(Names) /\ Lists(Crashes, CrashEvents)
    <3>1. CASE Queue
      BY NamesAre, <3>1, ArchitecturesApart, Tuple2 DEF Crashes, CrashEvents
    <3>2. CASE Pool
      BY NamesAre, <3>2, ArchitecturesApart, Tuple3 DEF Crashes, CrashEvents
    <3>3. CASE Monolithic
      BY NamesAre, <3>3, ArchitecturesApart, Tuple3 DEF Crashes, CrashEvents
    <3> QED
      BY <3>1, <3>2, <3>3, ArchitecturesApart
  <2> QED
    BY <1>1, <2>1, <2>2
<1>12. Answer(j) => Adds(j, AnswerEvents(j))
  BY <1>1, AnswersList DEF Answer
<1>13. Aggregate(j) => Adds(j, {"busy", "AGGREGATION_START"})
  <2> SUFFICES ASSUME Aggregate(j)
               PROVE  Adds(j, {"busy", "AGGREGATION_START"})
    OBVIOUS
  <2> DEFINE ev == <<"busy", "AGGREGATION_START">>
  <2>1. Write(j, ev)
    BY DEF Aggregate
  <2>2. ev \in Seq(Names) /\ Lists(ev, {"busy", "AGGREGATION_START"})
    BY NamesAre, Tuple2
  <2> QED
    BY <1>1, <2>1, <2>2
<1>14. Leave(j) => Adds(j, {"INFERENCE_END", "idle"})
  BY <1>1, LeavesList DEF Leave
<1> QED
  BY <1>5, <1>6, <1>7, <1>8, <1>9, <1>10, <1>11, <1>12, <1>13, <1>14

-----------------------------------------------------------------------------
(* Type correctness. *)

\* Every step adds to the log, if only nothing, and the clock never goes back.
LEMMA StepAdds ==
  ASSUME TypeOK, LogTyped, [Next]_vars
  PROVE  /\ \E j, E : Adds(j, E)
         /\ now <= now'
<1>1. now \in Nat
  BY JobsTyped
<1>2. ASSUME NEW j \in JobIds, JobStep(j)
      PROVE  (\E E : Adds(j, E)) /\ now' = now
  BY <1>2, JobAdds DEF JobStep, Publish, Announce, Collect, Begin, Crash, Call, Aggregate,
       Answer, Leave, Raise
<1>3. ASSUME NEW t \in Threads, Wake(t)
      PROVE  (\E j, E : Adds(j, E)) /\ now' = now
  BY <1>3, WakeAdds DEF Wake
<1>4. ASSUME Tick \/ UNCHANGED vars
      PROVE  (\E j, E : Adds(j, E)) /\ now <= now'
  BY <1>1, <1>4, NothingAdded DEF Tick, vars
<1> QED
  BY <1>1, <1>2, <1>3, <1>4 DEF Next

\* Events are written at the time of the clock.
LEMMA LogTypedStep ==
  ASSUME TypeOK, LogTyped, [Next]_vars
  PROVE  LogTyped'
<1>1. PICK j, E : Adds(j, E)
  BY StepAdds
<1>2. now \in Nat /\ now <= now' /\ now' \in Nat
  <2>1. now' \in Nat
    BY JobsTyped, ScenarioFixed DEF Next, JobStep, Publish, Announce, Collect, Begin, Crash,
       Call, Aggregate, Answer, Leave, Raise, Wake, Tick, vars
  <2> QED
    BY <2>1, JobsTyped, StepAdds
<1>3. scenario' = scenario
  BY ScenarioFixed
<1>4. Entry' = Entry
  BY <1>3 DEF Entry, JobIds, Workers, Job
<1>5. /\ \A k \in DOMAIN log : log[k].at \in Nat /\ log[k].at <= now
      /\ \A k \in DOMAIN log' : log'[k].at \in Nat
  <2>1. log \in Seq(Entry) /\ log' \in Seq(Entry) /\ \A e \in Entry : e.at \in Nat
    BY <1>1 DEF LogTyped, Adds, Entry
  <2>2. /\ \A k \in DOMAIN log : log[k] \in Entry
        /\ \A k \in DOMAIN log' : log'[k] \in Entry
    BY <2>1
  <2> QED
    BY <2>1, <2>2 DEF LogTyped
<1>6. ASSUME NEW k \in DOMAIN log'
      PROVE  log'[k].at <= now /\ (k \notin DOMAIN log => log'[k].at = now)
  BY <1>1, <1>2, <1>5 DEF Adds
<1>7. \A k \in DOMAIN log' : log'[k].at <= now'
  BY <1>2, <1>5, <1>6
<1>8. ASSUME NEW i \in DOMAIN log', NEW k \in DOMAIN log', i <= k
      PROVE  log'[i].at <= log'[k].at
  <2>1. CASE k \in DOMAIN log
    <3>1. i \in DOMAIN log
      <4>1. DOMAIN log = 1 .. Len(log) /\ Len(log) \in Nat /\ DOMAIN log' \subseteq Nat \ {0}
        BY <1>1 DEF LogTyped, Adds
      <4> QED
        BY <1>8, <2>1, <4>1
    <3> QED
      BY <1>1, <1>8, <2>1, <3>1 DEF Adds, LogTyped
  <2>2. CASE k \notin DOMAIN log
    BY <1>6, <2>2
  <2> QED
    BY <2>1, <2>2
<1> QED
  BY <1>1, <1>4, <1>7, <1>8 DEF LogTyped, Adds

\* A run has finitely many queue threads, and they can be put in a sequence.
LEMMA ThreadsOf ==
  ASSUME scenario \in Scenarios, NEW T \in SUBSET Threads
  PROVE  /\ Cardinality(T) \in Nat
         /\ SetToSeq(T) \in [1 .. Cardinality(T) -> T]
<1> DEFINE f == [j \in JobIds |-> Thread(j)]
<1>1. IsFiniteSet(JobIds)
  <2>1. JobIds = 1 .. Len(scenario.jobs) /\ Len(scenario.jobs) \in Nat
    BY ConstantsAssumption DEF JobIds
  <2> QED
    BY <2>1, FS_Interval
<1>2. f \in Surjection(JobIds, {Thread(j) : j \in JobIds})
  BY DEF Surjection
<1>3. IsFiniteSet(T)
  <2>1. IsFiniteSet({Thread(j) : j \in JobIds}) /\ IsFiniteSet(scenario.late)
    BY <1>1, <1>2, FS_Surjection, ConstantsAssumption
  <2> QED
    BY <2>1, FS_Union, FS_Subset DEF Threads
<1>4. Cardinality(T) \in Nat /\ ExistsBijection(1 .. Cardinality(T), T)
  BY <1>3, FS_CardinalityType
<1>5. PICK g : g \in Bijection(1 .. Cardinality(T), T)
  BY <1>4 DEF ExistsBijection
<1>6. g \in [1 .. Cardinality(T) -> T] /\ IsInjective(g)
  BY <1>5 DEF Bijection, Injection, IsInjective
<1> QED
  BY <1>4, <1>6 DEF SetToSeq

LEMMA InitTyped == Init => TypeOK /\ LogTyped
<1> SUFFICES ASSUME Init
             PROVE  TypeOK /\ LogTyped
  OBVIOUS
<1>1. scenario \in Scenarios /\ now = 0 /\ awake \subseteq Threads /\ announced = {}
      /\ leaving = {}
      /\ phase = [j \in JobIds |-> "new"]
  BY DEF Init
<1>2. scenario.horizon \in Nat
  BY <1>1, ConstantsAssumption
<1> DEFINE n == Cardinality(awake)
           T == {t[2] : t \in Threads}
<1>3. n \in Nat /\ SetToSeq(awake) \in [1 .. n -> awake]
  BY <1>1, ThreadsOf
<1>4. log = [i \in 1 .. n |-> Line(NoJob, SetToSeq(awake)[i][2], "idle")]
  BY DEF Init
<1>5. \A i \in 1 .. n : SetToSeq(awake)[i][2] \in Workers
  BY <1>1, <1>3 DEF Threads, Thread, Workers
<1>6. \A i \in 1 .. n : log[i] \in Entry /\ log[i].at = 0
  BY <1>1, <1>4, <1>5 DEF Line, Entry, States
<1>7. log \in Seq(Entry) /\ DOMAIN log = 1 .. n
  BY <1>3, <1>4, <1>6
<1>8. LogTyped
  BY <1>1, <1>6, <1>7 DEF LogTyped
<1>9. \A i \in DOMAIN log : /\ log[i].at \in 0 .. now
                            /\ log[i].job \in JobIds \cup {NoJob}
                            /\ log[i].worker \in Workers
                            /\ log[i].what \in EventTypes \cup States
                            /\ i > 1 => log[i - 1].at <= log[i].at
  <2>1. \A i \in 1 .. n : i > 1 => i - 1 \in 1 .. n
    BY <1>3
  <2> QED
    BY <1>1, <1>6, <1>7, <2>1 DEF Entry
<1> QED
  BY <1>1, <1>2, <1>8, <1>9 DEF TypeOK

LEMMA TypeStep ==
  ASSUME TypeOK, LogTyped, [Next]_vars
  PROVE  TypeOK'
<1>1. scenario' = scenario /\ JobIds' = JobIds /\ Workers' = Workers /\ Threads' = Threads
  BY ScenarioFixed DEF JobIds, Workers, Threads, Job, Thread
<1>2. LogTyped'
  BY LogTypedStep
<1>3. phase' \in [JobIds -> {"new", "queued"} \cup AtWork \cup Ended]
  BY <1>1 DEF TypeOK, Next, JobStep, Publish, Announce, Collect, Begin, Crash, Call, Aggregate,
     Answer, Leave, Raise, Wake, Tick, vars, Move, AtWork, Ended, Lost
<1>4. announced' \subseteq JobIds
  BY DEF TypeOK, Next, JobStep, Publish, Announce, Collect, Begin, Crash, Call, Aggregate,
     Answer, Leave, Raise, Wake, Tick, vars
<1>5. awake' \subseteq Threads
  BY DEF TypeOK, Next, JobStep, Publish, Announce, Collect, Begin, Crash, Call, Aggregate,
     Answer, Leave, Raise, Wake, Tick, vars
<1>8. leaving' \subseteq JobIds
  BY DEF TypeOK, Next, JobStep, Publish, Announce, Collect, Begin, Crash, Call, Aggregate,
     Answer, Leave, Raise, Wake, Tick, vars
<1>6. now' \in 0 .. scenario.horizon
  BY JobsTyped, ConstantsAssumption DEF TypeOK, Next, JobStep, Publish, Announce, Collect, Begin,
     Crash, Call, Aggregate, Answer, Leave, Raise, Wake, Tick, vars
<1>7. \A i \in DOMAIN log' : /\ log'[i].at \in 0 .. now'
                             /\ log'[i].job \in JobIds' \cup {NoJob}
                             /\ log'[i].worker \in Workers'
                             /\ log'[i].what \in EventTypes \cup States
                             /\ i > 1 => log'[i - 1].at <= log'[i].at
  <2>1. \A i \in DOMAIN log' : log'[i] \in Entry' /\ log'[i].at <= now'
    BY <1>2 DEF LogTyped
  <2>2. now' \in Nat /\ \A e \in Entry' : e.at \in Nat
    BY <1>6, ConstantsAssumption DEF TypeOK, Entry
  <2>3. ASSUME NEW i \in DOMAIN log', i > 1
        PROVE  log'[i - 1].at <= log'[i].at
    <3>1. i - 1 \in DOMAIN log' /\ i - 1 <= i
      BY <1>2, <2>3 DEF LogTyped
    <3> QED
      BY <1>2, <3>1 DEF LogTyped
  <2> QED
    BY <2>1, <2>2, <2>3 DEF Entry
<1> QED
  BY <1>1, <1>3, <1>4, <1>5, <1>6, <1>7, <1>8 DEF TypeOK

\* Every reachable state of a run and its log has the types the code gives it:
\* the log is in the order of time, and names the workers of the run.
THEOREM TypeCorrect == Spec => []TypeOK
<1>1. Init => TypeOK /\ LogTyped
  BY InitTyped
<1>2. TypeOK /\ LogTyped /\ [Next]_vars => (TypeOK /\ LogTyped)'
  BY TypeStep, LogTypedStep
<1> QED
  BY <1>1, <1>2, PTL DEF Spec

-----------------------------------------------------------------------------
(* The invariant is preserved, one conjunct at a time. *)

\* No job goes back.
LEMMA Forward ==
  ASSUME TypeOK, [Next]_vars
  PROVE  /\ announced \subseteq announced'
         /\ \A i \in JobIds :
              /\ phase[i] # "new" => phase'[i] # "new"
              /\ phase[i] \notin {"new", "queued"} => phase'[i] \notin {"new", "queued"}
              /\ phase[i] = "received" => phase'[i] = "received"
              /\ phase[i] \in Answered => phase'[i] \in Answered
              /\ phase[i] \in Answered /\ i \notin leaving => i \notin leaving'
<1> USE DEF TypeOK, Move, Answered
<1>1. ASSUME NEW j \in JobIds, JobStep(j)
      PROVE  /\ announced \subseteq announced'
             /\ \A i \in JobIds : i # j => phase'[i] = phase[i]
             /\ phase[j] # "new" => phase'[j] # "new"
             /\ phase[j] \notin {"new", "queued"} => phase'[j] \notin {"new", "queued"}
             /\ phase[j] # "received" \/ phase'[j] = "received"
             /\ phase[j] \in Answered => phase'[j] \in Answered
             /\ \A i \in JobIds : phase[i] \in Answered /\ i \notin leaving => i \notin leaving'
  BY <1>1 DEF JobStep, Publish, Announce, Collect, Begin, Crash, Call, Aggregate, Answer,
     Leave, Raise, Free, Monolithic
<1>2. ASSUME (\E t \in Threads : Wake(t)) \/ Tick \/ UNCHANGED vars
      PROVE  UNCHANGED <<phase, announced, leaving>>
  BY <1>2 DEF Wake, Tick, vars
<1> QED
  BY <1>1, <1>2 DEF Next

\* What is told of the job of an event that is in the log stays true.
LEMMA PlacedStays ==
  ASSUME TypeOK, [Next]_vars, NEW e, Placed(e)
  PROVE  Placed(e)'
<1>1. JobIds' = JobIds /\ \A j : Job(j)' = Job(j)
  BY ScenarioFixed DEF JobIds, Job
<1> QED
  BY <1>1, Forward DEF Placed, TypeOK, Retry, Aggregation

\* The event is one of the job, and of the job's worker.
Of(e, j) == e.job = j /\ (j # NoJob => e.worker = Job(j).worker)

LEMMA OriginStep ==
  ASSUME TypeOK, LogTyped, Origin, Started, [Next]_vars
  PROVE  Origin'
<1>1. JobIds' = JobIds /\ \A j : Job(j)' = Job(j)
  BY ScenarioFixed DEF JobIds, Job
<1>2. \A j : Retry(j)' = Retry(j) /\ Aggregation(j)' = Aggregation(j)
  BY ScenarioFixed DEF Retry, Aggregation, Job
\* It is true of the events that are added.
<1>3. ASSUME NEW j, NEW E, Adds(j, E),
             \A e : Of(e, j) /\ e.what \in E => Placed(e)'
      PROVE  Origin'
  <2>1. ASSUME NEW k \in DOMAIN log', NEW e, e = log'[k]
        PROVE  Placed(e)'
    <3>1. CASE k \in DOMAIN log
      <4>1. Placed(e)
        BY <1>3, <2>1, <3>1 DEF Adds, Origin
      <4> QED
        BY <4>1, PlacedStays
    <3>2. CASE k \notin DOMAIN log
      BY <1>3, <2>1, <3>2 DEF Adds, Of
    <3> QED
      BY <3>1, <3>2
  <2> QED
    BY <2>1 DEF Origin, Placed
<1>4. ASSUME NEW j \in JobIds, JobStep(j)
      PROVE  Origin'
  <2> USE DEF TypeOK, Move
  <2>1. CASE Publish(j)
    <3>1. \A e : Of(e, j) /\ e.what \in PublishEvents(j) => Placed(e)'
      BY <1>1, <1>2, <2>1 DEF Publish, PublishEvents, Placed, Of
    <3> QED
      BY <1>3, <2>1, <3>1, JobAdds
  <2>2. CASE Announce(j)
    <3>1. \A e : Of(e, j) /\ e.what \in {"QUEUED"} => Placed(e)'
      BY <1>1, <1>2, <2>2, ScenarioRules DEF Announce, Placed, Of
    <3> QED
      BY <1>3, <2>2, <3>1, JobAdds
  <2>3. CASE Collect(j)
    <3>1. \A e : Of(e, j) /\ e.what \in CollectEvents(j) => Placed(e)'
      BY <1>1, <1>2, <2>3 DEF Collect, CollectEvents, Placed, Of
    <3> QED
      BY <1>3, <2>3, <3>1, JobAdds
  <2>4. CASE Begin(j)
    <3>1. ~Aggregation(j)
      BY <2>4 DEF Begin, Free, Started, StartedAt
    <3>2. \A e : Of(e, j) /\ e.what \in BeginEvents => Placed(e)'
      BY <1>1, <1>2, <2>4, <3>1 DEF Begin, BeginEvents, Placed, Of
    <3> QED
      BY <1>3, <2>4, <3>2, JobAdds
  <2>5. CASE Crash(j)
    <3>1. ~Aggregation(j)
      BY <2>5 DEF Crash, Free, Started, StartedAt
    <3>2. \A e : Of(e, j) /\ e.what \in CrashEvents => Placed(e)'
      BY <1>1, <1>2, <2>5, <3>1 DEF Crash, CrashEvents, Placed, Of
    <3> QED
      BY <1>3, <2>5, <3>2, JobAdds
  <2>6. CASE Call(j)
    <3>1. \A e : Of(e, j) /\ e.what \in {"busy"} => Placed(e)'
      BY <1>1 DEF Placed, Of
    <3> QED
      BY <1>3, <2>6, <3>1, JobAdds
  <2>7. CASE Answer(j)
    <3>1. j \notin leaving
      BY <2>7 DEF Answer, Started, StartedAt, Answered
    <3>2. \A e : Of(e, j) /\ e.what \in AnswerEvents(j) => Placed(e)'
      BY <1>1, <1>2, <2>7, <3>1 DEF Answer, Answered, AnswerEvents, Placed, Of
    <3> QED
      BY <1>3, <2>7, <3>2, JobAdds
  <2>8. CASE Aggregate(j)
    <3>1. \A e : Of(e, j) /\ e.what \in {"busy", "AGGREGATION_START"} => Placed(e)'
      BY <1>1, <1>2, <2>8 DEF Aggregate, Placed, Of
    <3> QED
      BY <1>3, <2>8, <3>1, JobAdds
  <2>9. CASE Raise(j)
    BY <1>3, <2>9, JobAdds
  <2>10. CASE Leave(j)
    <3>1. phase[j] \in Answered /\ ~Aggregation(j)
      BY <2>10 DEF Leave, Started, StartedAt
    <3>2. \A e : Of(e, j) /\ e.what \in {"INFERENCE_END", "idle"} => Placed(e)'
      BY <1>1, <1>2, <2>10, <3>1 DEF Leave, Answered, Placed, Of
    <3> QED
      BY <1>3, <2>10, <3>2, JobAdds
  <2> QED
    BY <1>4, <2>1, <2>2, <2>3, <2>4, <2>5, <2>6, <2>7, <2>8, <2>9, <2>10 DEF JobStep
<1>5. ASSUME NEW t \in Threads, Wake(t)
      PROVE  Origin'
  <2>1. \A e : Of(e, NoJob) /\ e.what \in {"idle"} => Placed(e)'
    BY <1>1 DEF Placed, Of
  <2> QED
    BY <1>3, <1>5, <2>1, WakeAdds
<1>6. ASSUME Tick \/ UNCHANGED vars
      PROVE  Origin'
  <2>1. Adds(NoJob, {})
    BY <1>6, NothingAdded DEF Tick, vars
  <2> QED
    BY <1>3, <2>1
<1> QED
  BY <1>4, <1>5, <1>6 DEF Next

LEMMA StartedStep ==
  ASSUME TypeOK, LogTyped, Started, [Next]_vars
  PROVE  Started'
<1>1. JobIds' = JobIds /\ \A i : Job(i)' = Job(i)
  BY ScenarioFixed DEF JobIds, Job
<1>2. \A i : Retry(i)' = Retry(i) /\ Aggregation(i)' = Aggregation(i)
  BY ScenarioFixed DEF Retry, Aggregation, Job
<1>3. Queue' = Queue /\ Monolithic' = Monolithic
  BY ScenarioFixed DEF Queue, Monolithic
<1>4. ASSUME NEW j, NEW E, Adds(j, E)
      PROVE  /\ \A i, e : Logged(i, e) => Logged(i, e)'
             /\ \A e \in E : Logged(j, e)'
  BY <1>4 DEF Adds, Logged
\* It is enough to look at the job that takes the step.
<1>5. ASSUME NEW j \in JobIds, JobStep(j), NEW E, Adds(j, E), StartedAt(j)'
      PROVE  Started'
  <2>1. ASSUME NEW i \in JobIds, i # j
        PROVE  StartedAt(i)'
    <3>1. /\ phase'[i] = phase[i] /\ (i \in announced' <=> i \in announced)
          /\ i \in leaving' <=> i \in leaving
      BY <1>5, <2>1 DEF TypeOK, Move, JobStep, Publish, Announce, Collect, Begin, Crash, Call,
         Aggregate, Answer, Leave, Raise
    <3>2. StartedAt(i)
      BY DEF Started
    <3> QED
      BY <1>2, <1>3, <1>4, <1>5, <3>1, <3>2 DEF StartedAt, Working
  <2> QED
    BY <1>1, <1>5, <2>1 DEF Started
<1>6. ASSUME NEW j \in JobIds, JobStep(j)
      PROVE  Started'
  <2>1. StartedAt(j)
    BY DEF Started
  <2> USE DEF TypeOK, Move, StartedAt, Working, AtWork, Answered
  <2>2. CASE Publish(j)
    <3>1. Adds(j, PublishEvents(j))
      BY <2>2, JobAdds
    <3>2. StartedAt(j)'
      BY <1>1, <1>2, <1>3, <1>4, <2>1, <2>2, <3>1, ScenarioRules DEF Publish, PublishEvents
    <3> QED
      BY <1>5, <1>6, <3>1, <3>2
  <2>3. CASE Announce(j)
    <3>1. Adds(j, {"QUEUED"})
      BY <2>3, JobAdds
    <3>2. StartedAt(j)'
      BY <1>1, <1>2, <1>3, <1>4, <2>1, <2>3, <3>1 DEF Announce
    <3> QED
      BY <1>5, <1>6, <3>1, <3>2
  <2>4. CASE Collect(j)
    <3>1. Adds(j, CollectEvents(j))
      BY <2>4, JobAdds
    <3>2. StartedAt(j)'
      BY <1>1, <1>2, <1>3, <1>4, <2>1, <2>4, <3>1 DEF Collect
    <3> QED
      BY <1>5, <1>6, <3>1, <3>2
  <2>5. CASE Begin(j)
    <3>1. Adds(j, BeginEvents)
      BY <2>5, JobAdds
    <3>4. Logged(j, "EXECUTION_START")' /\ Logged(j, "INFERENCE_START")'
      <4>1. "EXECUTION_START" \in BeginEvents /\ "INFERENCE_START" \in BeginEvents
        BY DEF BeginEvents
      <4> QED
        BY <1>4, <3>1, <4>1
    <3>2. /\ ~Aggregation(j) /\ (Retry(j) => phase[j] # "new")
          /\ phase[j] \in {"new", "queued"} /\ j \notin leaving
      BY <2>1, <2>5, ScenarioRules, ArchitecturesApart DEF Begin, Free
    <3>3. StartedAt(j)'
      BY <1>1, <1>2, <1>3, <1>4, <2>1, <2>5, <3>1, <3>2, <3>4 DEF Begin
    <3> QED
      BY <1>5, <1>6, <3>1, <3>3
  <2>6. CASE Crash(j)
    <3>1. Adds(j, CrashEvents)
      BY <2>6, JobAdds
    <3>2. /\ Retry(j) => phase[j] # "new"
          /\ phase[j] \in {"new", "queued"} /\ j \notin leaving
      BY <2>1, <2>6, ScenarioRules, ArchitecturesApart DEF Crash, Free
    <3>3. StartedAt(j)'
      BY <1>1, <1>2, <1>3, <1>4, <2>1, <2>6, <3>1, <3>2 DEF Crash
    <3> QED
      BY <1>5, <1>6, <3>1, <3>3
  <2>7. CASE Call(j)
    <3>1. Adds(j, {"busy"})
      BY <2>7, JobAdds
    <3>2. StartedAt(j)'
      BY <1>1, <1>2, <1>3, <1>4, <2>1, <2>7, <3>1 DEF Call
    <3> QED
      BY <1>5, <1>6, <3>1, <3>2
  <2>8. CASE Answer(j)
    <3>1. /\ Adds(j, AnswerEvents(j))
          /\ ~Aggregation(j) /\ ~Queue => Logged(j, "INFERENCE_END")'
          /\ Aggregation(j) => ~Queue
      BY <1>4, <2>8, JobAdds, ScenarioRules DEF AnswerEvents
    <3>2. StartedAt(j)'
      BY <1>1, <1>2, <1>3, <1>4, <2>1, <2>8, <3>1 DEF Answer
    <3> QED
      BY <1>5, <1>6, <3>1, <3>2
  <2>9. CASE Aggregate(j)
    <3>1. Adds(j, {"busy", "AGGREGATION_START"})
      BY <2>9, JobAdds
    <3>2. StartedAt(j)'
      BY <1>1, <1>2, <1>3, <1>4, <2>1, <2>9, <3>1, ScenarioRules DEF Aggregate
    <3> QED
      BY <1>5, <1>6, <3>1, <3>2
  <2>10. CASE Raise(j)
    <3>1. Adds(j, {})
      BY <2>10, JobAdds
    <3>2. StartedAt(j)'
      BY <1>1, <1>2, <1>3, <1>4, <2>1, <2>10, <3>1 DEF Raise
    <3> QED
      BY <1>5, <1>6, <3>1, <3>2
  <2>11. CASE Leave(j)
    <3>1. Adds(j, {"INFERENCE_END", "idle"}) /\ Logged(j, "INFERENCE_END")'
      BY <1>4, <2>11, JobAdds
    <3>2. StartedAt(j)'
      BY <1>1, <1>2, <1>3, <1>4, <2>1, <2>11, <3>1 DEF Leave
    <3> QED
      BY <1>5, <1>6, <3>1, <3>2
  <2> QED
    BY <1>6, <2>2, <2>3, <2>4, <2>5, <2>6, <2>7, <2>8, <2>9, <2>10, <2>11 DEF JobStep
<1>7. ASSUME (\E t \in Threads : Wake(t)) \/ Tick \/ UNCHANGED vars
      PROVE  Started'
  <2>1. UNCHANGED <<phase, announced, leaving>> /\ \E j, E : Adds(j, E)
    BY <1>7, StepAdds DEF Wake, Tick, vars
  <2> QED
    BY <1>1, <1>2, <1>3, <1>4, <2>1 DEF Started, StartedAt, Working
<1> QED
  BY <1>6, <1>7 DEF Next

-----------------------------------------------------------------------------

\* What a job must have done before it writes an event, and not done yet.
Due(j, E) ==
  /\ "EXECUTION_START" \in E => phase[j] \in {"new", "queued"}
  /\ "INFERENCE_START" \in E => phase[j] \in {"new", "queued"}
  /\ "INFERENCE_END" \in E =>
       Logged(j, "INFERENCE_START") /\ (phase[j] \notin Answered \/ j \in leaving)
  /\ "RETRY_START" \in E => phase[j] = "new"
  /\ "RETRY_END" \in E => j \in JobIds /\ Awaited(j) /\ Logged(j, "RETRY_START")
  /\ "EXECUTION_END" \in E => Logged(j, "EXECUTION_START")
  /\ "AGGREGATION_END" \in E => Logged(j, "AGGREGATION_START")
  /\ "DEQUEUED" \in E /\ ~Queue => Logged(j, "QUEUED")

LEMMA StepDue ==
  ASSUME TypeOK, LogTyped, Started, [Next]_vars
  PROVE  \E j, E : Adds(j, E) /\ Due(j, E)
<1>1. ASSUME NEW j \in JobIds, JobStep(j)
      PROVE  \E E : Adds(j, E) /\ Due(j, E)
  <2>1. StartedAt(j)
    BY DEF Started
  <2>2. CASE Publish(j)
    <3>1. Adds(j, PublishEvents(j)) /\ Due(j, PublishEvents(j))
      BY <2>2, JobAdds DEF Publish, PublishEvents, Due
    <3> QED
      BY <3>1
  <2>3. CASE Announce(j)
    <3>1. Adds(j, {"QUEUED"}) /\ Due(j, {"QUEUED"})
      BY <2>3, JobAdds DEF Due
    <3> QED
      BY <3>1
  <2>4. CASE Collect(j)
    <3>1. Adds(j, CollectEvents(j)) /\ Due(j, CollectEvents(j))
      BY <2>1, <2>4, JobAdds DEF Collect, CollectEvents, Due, StartedAt
    <3> QED
      BY <3>1
  <2>5. CASE Begin(j)
    <3>1. Adds(j, BeginEvents) /\ Due(j, BeginEvents)
      BY <2>1, <2>5, JobAdds DEF Begin, Free, BeginEvents, Due, StartedAt
    <3> QED
      BY <3>1
  <2>6. CASE Crash(j)
    <3>1. Adds(j, CrashEvents) /\ Due(j, CrashEvents)
      BY <2>1, <2>6, JobAdds DEF Crash, Free, CrashEvents, Due, StartedAt
    <3> QED
      BY <3>1
  <2>7. CASE Call(j)
    <3>1. Adds(j, {"busy"}) /\ Due(j, {"busy"})
      BY <2>7, JobAdds DEF Due
    <3> QED
      BY <3>1
  <2>8. CASE Answer(j)
    <3>1. Adds(j, AnswerEvents(j)) /\ Due(j, AnswerEvents(j))
      BY <2>1, <2>8, JobAdds DEF Answer, AnswerEvents, Due, StartedAt, Working, AtWork, Answered
    <3> QED
      BY <3>1
  <2>9. CASE Aggregate(j)
    <3>1. Adds(j, {"busy", "AGGREGATION_START"}) /\ Due(j, {"busy", "AGGREGATION_START"})
      BY <2>9, JobAdds DEF Due
    <3> QED
      BY <3>1
  <2>10. CASE Raise(j)
    <3>1. Adds(j, {}) /\ Due(j, {})
      BY <2>10, JobAdds DEF Due
    <3> QED
      BY <3>1
  <2>11. CASE Leave(j)
    <3>1. Adds(j, {"INFERENCE_END", "idle"}) /\ Due(j, {"INFERENCE_END", "idle"})
      BY <2>1, <2>11, JobAdds DEF Leave, Due, StartedAt, Working
    <3> QED
      BY <3>1
  <2> QED
    BY <1>1, <2>2, <2>3, <2>4, <2>5, <2>6, <2>7, <2>8, <2>9, <2>10, <2>11 DEF JobStep
<1>2. ASSUME NEW t \in Threads, Wake(t)
      PROVE  \E j, E : Adds(j, E) /\ Due(j, E)
  <2>1. Adds(NoJob, {"idle"}) /\ Due(NoJob, {"idle"})
    BY <1>2, WakeAdds DEF Due
  <2> QED
    BY <2>1
<1>3. ASSUME Tick \/ UNCHANGED vars
      PROVE  \E j, E : Adds(j, E) /\ Due(j, E)
  <2>1. Adds(NoJob, {}) /\ Due(NoJob, {})
    BY <1>3, NothingAdded DEF Tick, vars, Due
  <2> QED
    BY <2>1
<1> QED
  BY <1>1, <1>2, <1>3 DEF Next

LEMMA PairedStep ==
  ASSUME TypeOK, LogTyped, Started, Paired, [Next]_vars
  PROVE  Paired'
<1>1. PICK j, E : Adds(j, E) /\ Due(j, E)
  BY StepDue
<1>2. Queue' = Queue
  BY ScenarioFixed DEF Queue
<1>3. ASSUME NEW k \in DOMAIN log, NEW e, After(k, e)
      PROVE  After(k, e)'
  BY <1>1, <1>3 DEF After, Adds
<1>4. ASSUME NEW k \in DOMAIN log' \ DOMAIN log, NEW e, Logged(j, e)
      PROVE  After(k, e)'
  BY <1>1, <1>4 DEF After, Adds, Logged
<1>5. ASSUME NEW k \in DOMAIN log'
      PROVE  /\ log'[k].what = "EXECUTION_END" => After(k, "EXECUTION_START")'
             /\ log'[k].what = "INFERENCE_END" => After(k, "INFERENCE_START")'
             /\ log'[k].what = "AGGREGATION_END" => After(k, "AGGREGATION_START")'
             /\ log'[k].what = "RETRY_END" => After(k, "RETRY_START")'
             /\ log'[k].what = "DEQUEUED" /\ ~Queue => After(k, "QUEUED")'
  <2>1. CASE k \in DOMAIN log
    BY <1>1, <1>3, <2>1 DEF Adds, Paired
  <2>2. CASE k \notin DOMAIN log
    BY <1>1, <1>4, <2>2 DEF Adds, Due
  <2> QED
    BY <2>1, <2>2
<1> QED
  BY <1>2, <1>5 DEF Paired

LEMMA OnceStep ==
  ASSUME TypeOK, LogTyped, Origin, Started, Once, [Next]_vars
  PROVE  Once'
<1>1. PICK j, E : Adds(j, E) /\ Due(j, E)
  BY StepDue
<1>2. \A i : Job(i)' = Job(i)
  BY ScenarioFixed DEF Job
\* An event of the log and one that is added.
<1>3. ASSUME NEW k \in DOMAIN log, NEW m \in DOMAIN log' \ DOMAIN log,
             log'[k].what = log'[m].what
      PROVE  /\ log'[k].what \in Single =>
                   log'[k].job # log'[m].job
             /\ log'[k].what = "RETRY_END" =>
                   \/ Job(log'[k].job).trace # Job(log'[m].job).trace
                   \/ Job(log'[k].job).task # Job(log'[m].job).task
  <2>1. Placed(log[k]) /\ log'[k] = log[k]
    BY <1>1 DEF Origin, Adds
  <2>2. log'[m].job = j /\ log'[m].what \in E
    BY <1>1 DEF Adds
  <2> QED
    BY <1>1, <1>3, <2>1, <2>2 DEF Placed, Due, Awaited, Single
<1>4. ASSUME NEW k \in DOMAIN log', NEW m \in DOMAIN log',
             log'[k].what = log'[m].what
      PROVE  /\ log'[k].what \in Single
                   /\ log'[k].job = log'[m].job => k = m
             /\ log'[k].what = "RETRY_END"
                   /\ Job(log'[k].job).trace = Job(log'[m].job).trace
                   /\ Job(log'[k].job).task = Job(log'[m].job).task => k = m
  <2>1. CASE k \in DOMAIN log /\ m \in DOMAIN log
    BY <1>1, <1>4, <2>1 DEF Adds, Once
  <2>2. CASE k \notin DOMAIN log /\ m \notin DOMAIN log
    BY <1>1, <1>4, <2>2 DEF Adds
  <2>3. CASE k \in DOMAIN log /\ m \notin DOMAIN log
    BY <1>3, <1>4, <2>3
  <2>4. CASE k \notin DOMAIN log /\ m \in DOMAIN log
    BY <1>3, <1>4, <2>4
  <2> QED
    BY <2>1, <2>2, <2>3, <2>4
<1> QED
  BY <1>2, <1>4 DEF Once

LEMMA SettledStep ==
  ASSUME TypeOK, LogTyped, Origin, Started, Settled, [Next]_vars
  PROVE  Settled'
<1>1. JobIds' = JobIds
  BY ScenarioFixed DEF JobIds
\* Only the end of a job makes a difference to a job that is there.
<1> DEFINE There(i) == Working(i) \/ phase[i] \in Lost
<1>2. PICK j, E : /\ Adds(j, E)
                  /\ "busy" \in E => There(j)'
                  /\ \A i \in JobIds : ~There(i)' => ~There(i) \/ (i = j /\ "idle" \in E)
  <2> DEFINE Leaves(j, E) ==
               /\ "busy" \in E => There(j)'
               /\ \A i \in JobIds : ~There(i)' => ~There(i) \/ (i = j /\ "idle" \in E)
  <2>1. ASSUME NEW j \in JobIds, JobStep(j)
        PROVE  \E E : Adds(j, E) /\ Leaves(j, E)
    <3> USE DEF TypeOK, Move, Working, AtWork, Lost
    <3>1. CASE Publish(j)
      <4>1. Adds(j, PublishEvents(j)) /\ Leaves(j, PublishEvents(j))
        BY <3>1, JobAdds DEF Publish, PublishEvents
      <4> QED
        BY <4>1
    <3>2. CASE Announce(j)
      <4>1. Adds(j, {"QUEUED"}) /\ Leaves(j, {"QUEUED"})
        BY <3>2, JobAdds DEF Announce
      <4> QED
        BY <4>1
    <3>3. CASE Collect(j)
      <4>1. Adds(j, CollectEvents(j)) /\ Leaves(j, CollectEvents(j))
        BY <3>3, JobAdds DEF Collect, CollectEvents
      <4> QED
        BY <4>1
    <3>4. CASE Begin(j)
      <4>1. Adds(j, BeginEvents) /\ Leaves(j, BeginEvents)
        BY <3>4, JobAdds DEF Begin
      <4> QED
        BY <4>1
    <3>5. CASE Crash(j)
      <4>1. Adds(j, CrashEvents) /\ Leaves(j, CrashEvents)
        BY <3>5, JobAdds DEF Crash
      <4> QED
        BY <4>1
    <3>6. CASE Call(j)
      <4>1. Adds(j, {"busy"}) /\ Leaves(j, {"busy"})
        BY <3>6, JobAdds DEF Call
      <4> QED
        BY <4>1
    <3>7. CASE Answer(j)
      <4>1. Adds(j, AnswerEvents(j)) /\ Leaves(j, AnswerEvents(j))
        BY <3>7, JobAdds, ScenarioRules DEF Answer, AnswerEvents
      <4> QED
        BY <4>1
    <3>8. CASE Aggregate(j)
      <4>1. /\ Adds(j, {"busy", "AGGREGATION_START"})
            /\ Leaves(j, {"busy", "AGGREGATION_START"})
        BY <3>8, JobAdds DEF Aggregate
      <4> QED
        BY <4>1
    <3>9. CASE Raise(j)
      <4>1. Adds(j, {}) /\ Leaves(j, {})
        BY <3>9, JobAdds DEF Raise
      <4> QED
        BY <4>1
    <3>10. CASE Leave(j)
      <4>1. Adds(j, {"INFERENCE_END", "idle"}) /\ Leaves(j, {"INFERENCE_END", "idle"})
        BY <3>10, JobAdds DEF Leave
      <4> QED
        BY <4>1
    <3> QED
      BY <2>1, <3>1, <3>2, <3>3, <3>4, <3>5, <3>6, <3>7, <3>8, <3>9, <3>10 DEF JobStep
  <2>2. ASSUME NEW t \in Threads, Wake(t)
        PROVE  Adds(NoJob, {"idle"}) /\ Leaves(NoJob, {"idle"})
    BY <2>2, WakeAdds DEF Wake, Working
  <2>3. ASSUME Tick \/ UNCHANGED vars
        PROVE  Adds(NoJob, {}) /\ Leaves(NoJob, {})
    BY <2>3, NothingAdded DEF Tick, vars, Working
  <2> HIDE DEF Leaves
  <2>4. \E j, E : Adds(j, E) /\ Leaves(j, E)
    BY <2>1, <2>2, <2>3 DEF Next
  <2> QED
    BY <2>4 DEF Leaves
<1>3. ASSUME NEW k \in DOMAIN log', log'[k].what = "busy",
             NEW i, i = log'[k].job, ~There(i)'
      PROVE  \E m \in DOMAIN log' : /\ m > k /\ log'[m].job = log'[k].job
                                    /\ log'[m].what = "idle"
  <2>1. k \in DOMAIN log /\ log'[k] = log[k]
    BY <1>2, <1>3 DEF Adds
  <2>2. log[k].job \in JobIds /\ log[k].job = i
    BY <1>3, <2>1 DEF Origin, Placed
  <2>3. CASE ~There(i)
    <3>1. PICK m \in DOMAIN log : m > k /\ log[m].job = log[k].job /\ log[m].what = "idle"
      BY <1>3, <2>1, <2>2, <2>3 DEF Settled
    <3>2. m \in DOMAIN log' /\ log'[m] = log[m]
      BY <1>2 DEF Adds
    <3> QED
      BY <2>1, <3>1, <3>2
  <2>4. CASE There(i)
    <3>1. log[k].job = j /\ "idle" \in E
      BY <1>2, <1>3, <2>1, <2>2, <2>4
    <3>2. PICK m \in DOMAIN log' \ DOMAIN log : log'[m].what = "idle"
      BY <1>2, <3>1 DEF Adds
    <3>3. log'[m].job = j /\ k < m
      BY <1>2, <2>1, <3>2 DEF Adds
    <3> QED
      BY <2>1, <3>1, <3>2, <3>3
  <2> QED
    BY <2>3, <2>4
<1> QED
  BY <1>3 DEF Settled, Working, AtWork, Lost

LEMMA Invariance == Spec => []IInv
<1>1. Init => IInv
  <2> SUFFICES ASSUME Init
               PROVE  IInv
    OBVIOUS
  <2>1. TypeOK /\ LogTyped
    BY InitTyped
  <2>2. \A k \in DOMAIN log : log[k].what = "idle" /\ log[k].job = NoJob
    BY DEF Init, Line
  <2>3. announced = {} /\ leaving = {} /\ \A j \in JobIds : phase[j] = "new"
    BY DEF Init
  <2> QED
    BY <2>1, <2>2, <2>3 DEF IInv, Origin, Placed, Started, StartedAt, Working, AtWork, Answered,
       Paired, Once, Single, Settled, Line
<1>2. IInv /\ [Next]_vars => IInv'
  BY TypeStep, LogTypedStep, OriginStep, StartedStep, PairedStep, OnceStep, SettledStep
     DEF IInv
<1> QED
  BY <1>1, <1>2, PTL DEF Spec

-----------------------------------------------------------------------------
(* What the parser measures. *)

\* The dictionary holds the last of the starts with a key.
LEMMA LatestStart ==
  ASSUME LogTyped, NEW i, NEW start, StartsBefore(i, start) # {}
  PROVE  /\ StartAt(i, start) \in StartsBefore(i, start)
         /\ \A k \in StartsBefore(i, start) : k <= StartAt(i, start)
<1>1. DOMAIN log = 1 .. Len(log) /\ Len(log) \in Nat
  BY DEF LogTyped
<1>2. StartsBefore(i, start) \in SUBSET (1 .. Len(log))
  BY <1>1 DEF StartsBefore, Indices
<1> QED
  BY <1>1, <1>2, LastOf DEF StartAt

\* An event of the same job is a start with the same key, unless one of the two is
\* of a retry and the other of its message.
LEMMA OwnStart ==
  ASSUME NEW i \in DOMAIN log, NEW start, After(i, start),
         log[i].what \in {"RETRY_START", "RETRY_END"} <=> start \in {"RETRY_START", "RETRY_END"}
  PROVE  \E k \in StartsBefore(i, start) : log[k].job = log[i].job
BY DEF After, StartsBefore, Indices, Key

\* Waits are missing for messages taken before their QUEUED event is written, and
\* otherwise only retries of one chunk can take each other's start.
THEOREM WaitsMeasured == Spec => []WaitsTrue
<1>1. IInv => WaitsTrue
  <2> SUFFICES ASSUME IInv
               PROVE  WaitsTrue
    OBVIOUS
  <2> USE DEF IInv
  <2>1. ASSUME ~Queue, NEW i \in Indices("DEQUEUED")
        PROVE  i \in queue_wait_times
    <3>1. i \in DOMAIN log /\ log[i].what = "DEQUEUED"
      BY DEF Indices
    <3>2. After(i, "QUEUED")
      BY <2>1, <3>1 DEF Paired
    <3> QED
      BY <3>1, <3>2, OwnStart DEF queue_wait_times, Measured
  <2>2. ASSUME NEW i \in Indices("DEQUEUED"),
               NEW k \in Indices("QUEUED"), k < i, log[k].job = log[i].job
        PROVE  i \in queue_wait_times
    <3>1. i \in DOMAIN log /\ log[i].what = "DEQUEUED" /\ After(i, "QUEUED")
      BY <2>2 DEF Indices, After
    <3> QED
      BY <3>1, OwnStart DEF queue_wait_times, Measured
  <2>3. ASSUME NEW i \in Indices("DEQUEUED"), i \in queue_wait_times,
               StartAt(i, "QUEUED") \notin
                 {k \in Indices("QUEUED") : k < i /\ log[k].job = log[i].job}
        PROVE  \E j \in JobIds \ {log[i].job} :
                 /\ Retry(j) /\ Retry(log[i].job)
                 /\ Job(j).trace = Job(log[i].job).trace /\ Job(j).task = Job(log[i].job).task
    <3> DEFINE k == StartAt(i, "QUEUED")
    <3>1. k \in StartsBefore(i, "QUEUED")
      BY <2>3, LatestStart DEF queue_wait_times, Measured
    <3>2. /\ k \in Indices("QUEUED") /\ k < i /\ Key(k) = Key(i)
          /\ log[k].job # log[i].job
      BY <2>3, <3>1 DEF StartsBefore
    <3>3. /\ log[i].what = "DEQUEUED" /\ log[k].what = "QUEUED"
          /\ Placed(log[i]) /\ Placed(log[k])
      BY <3>2 DEF Indices, Origin
    <3>4. /\ log[i].job \in JobIds /\ ~Aggregation(log[i].job)
          /\ log[k].job \in JobIds /\ ~Aggregation(log[k].job)
      BY <3>3 DEF Placed, TypeOK
    <3>5. /\ Job(log[k].job).trace = Job(log[i].job).trace
          /\ Job(log[k].job).task = Job(log[i].job).task
          /\ Retry(log[k].job) <=> Retry(log[i].job)
      BY <3>2, <3>3 DEF Key, Retry
    <3> QED
      BY <3>2, <3>4, <3>5, ScenarioRules
  <2> QED
    BY <2>1, <2>2, <2>3 DEF WaitsTrue, queue_wait_times, Measured
<1> QED
  BY <1>1, Invariance, PTL

\* No execution or aggregation that ends is left out, and concurrent requests never
\* take each other's start: only a retry of the same chunk can.
THEOREM ExecutionsMeasured == Spec => []ExecutionsTrue
<1>1. IInv => ExecutionsTrue
  <2> SUFFICES ASSUME IInv
               PROVE  ExecutionsTrue
    OBVIOUS
  <2> USE DEF IInv
  <2>1. ASSUME NEW i \in Indices("EXECUTION_END")
        PROVE  i \in execution_times
    <3>1. i \in DOMAIN log /\ log[i].what = "EXECUTION_END"
      BY DEF Indices
    <3>2. After(i, "EXECUTION_START")
      BY <3>1 DEF Paired
    <3> QED
      BY <3>1, <3>2, OwnStart DEF execution_times, Measured
  <2>2. ASSUME NEW i \in Indices("AGGREGATION_END")
        PROVE  i \in aggregation_times
    <3>1. i \in DOMAIN log /\ log[i].what = "AGGREGATION_END"
      BY DEF Indices
    <3>2. After(i, "AGGREGATION_START")
      BY <3>1 DEF Paired
    <3> QED
      BY <3>1, <3>2, OwnStart DEF aggregation_times, Measured
  <2>3. ASSUME NEW i \in aggregation_times
        PROVE  log[StartAt(i, "AGGREGATION_START")].job = log[i].job
    <3> DEFINE k == StartAt(i, "AGGREGATION_START")
    <3>1. i \in Indices("AGGREGATION_END") /\ k \in StartsBefore(i, "AGGREGATION_START")
      BY LatestStart DEF aggregation_times, Measured
    <3>2. /\ log[i].what = "AGGREGATION_END" /\ log[k].what = "AGGREGATION_START"
          /\ Placed(log[i]) /\ Placed(log[k]) /\ Key(k) = Key(i)
      BY <3>1 DEF Indices, Origin, StartsBefore
    <3>3. /\ log[i].job \in JobIds /\ Aggregation(log[i].job)
          /\ log[k].job \in JobIds /\ Aggregation(log[k].job)
      BY <3>2 DEF Placed
    <3>4. /\ Job(log[k].job).trace = Job(log[i].job).trace
          /\ Job(log[k].job).task = Job(log[i].job).task
      BY <3>2 DEF Key
    <3> QED
      BY <3>3, <3>4, ScenarioRules
  <2>4. ASSUME NEW i \in execution_times, ~Retry(log[i].job)
        PROVE  StartAt(i, "EXECUTION_START") =
                 Max({k \in Indices("EXECUTION_START") : log[k].job = log[i].job})
    <3>1. i \in DOMAIN log /\ log[i].what = "EXECUTION_END" /\ Placed(log[i])
      BY DEF execution_times, Measured, Indices, Origin
    <3>2. log[i].job \in JobIds /\ ~Aggregation(log[i].job)
      BY <3>1 DEF Placed
    <3>3. PICK m \in DOMAIN log : /\ m < i /\ log[m].job = log[i].job
                                  /\ log[m].what = "EXECUTION_START"
      BY <3>1 DEF Paired, After
    <3>4. ASSUME NEW k \in Indices("EXECUTION_START")
          PROVE  k < i /\ Key(k) = Key(i) <=> log[k].job = log[i].job
      <4>1. k \in DOMAIN log /\ log[k].what = "EXECUTION_START" /\ Placed(log[k])
        BY DEF Indices, Origin
      <4>2. log[k].job \in JobIds /\ ~Aggregation(log[k].job)
        BY <4>1 DEF Placed
      <4>3. CASE log[k].job = log[i].job
        <5>1. k = m
          BY <3>3, <4>1, <4>3 DEF Once, Single
        <5> QED
          BY <3>1, <3>3, <4>1, <4>3, <5>1 DEF Key
      <4>4. CASE Key(k) = Key(i)
        <5>1. /\ Job(log[k].job).trace = Job(log[i].job).trace
              /\ Job(log[k].job).task = Job(log[i].job).task
              /\ Retry(log[k].job) <=> Retry(log[i].job)
          BY <3>1, <4>1, <4>4 DEF Key, Retry
        <5>2. log[k].job = log[i].job
          BY <2>4, <3>2, <4>2, <5>1, ScenarioRules
        <5> QED
          BY <4>3, <5>2
      <4> QED
        BY <4>3, <4>4
    <3>5. StartsBefore(i, "EXECUTION_START") =
            {k \in Indices("EXECUTION_START") : log[k].job = log[i].job}
      BY <3>4 DEF StartsBefore
    <3> QED
      BY <3>5 DEF StartAt
  <2>5. /\ execution_times \subseteq Indices("EXECUTION_END")
        /\ aggregation_times \subseteq Indices("AGGREGATION_END")
    BY DEF execution_times, aggregation_times, Measured
  <2> QED
    BY <2>1, <2>2, <2>3, <2>4, <2>5 DEF ExecutionsTrue
<1> QED
  BY <1>1, Invariance, PTL

\* Each chunk gathered through a retry has one delay, which counts from the last of
\* its publications and so is never longer than that of the retry which answered.
THEOREM DelaysMeasured == Spec => []RetryDelays
<1>1. IInv => RetryDelays
  <2> SUFFICES ASSUME IInv
               PROVE  RetryDelays
    OBVIOUS
  <2> USE DEF IInv
  <2>1. ASSUME NEW i \in Indices("RETRY_END")
        PROVE  /\ i \in DOMAIN log /\ log[i].what = "RETRY_END" /\ After(i, "RETRY_START")
               /\ i \in retry_times
    <3>1. i \in DOMAIN log /\ log[i].what = "RETRY_END"
      BY DEF Indices
    <3>2. After(i, "RETRY_START")
      BY <3>1 DEF Paired
    <3> QED
      BY <3>1, <3>2, OwnStart DEF retry_times, Measured
  <2>2. retry_times \subseteq Indices("RETRY_END")
    BY DEF retry_times, Measured
  <2>3. ASSUME NEW i \in retry_times, NEW k \in retry_times, Key(i) = Key(k)
        PROVE  i = k
    <3>1. /\ i \in DOMAIN log /\ log[i].what = "RETRY_END"
          /\ k \in DOMAIN log /\ log[k].what = "RETRY_END"
      BY <2>1, <2>2
    <3> QED
      BY <2>3, <3>1 DEF Key, Once
  <2>4. ASSUME NEW i \in retry_times, NEW k \in Indices("RETRY_START"),
               log[k].job = log[i].job
        PROVE  Duration(i, "RETRY_START") <= log[i].at - log[k].at
    <3> DEFINE s == StartAt(i, "RETRY_START")
    <3>1. i \in DOMAIN log /\ log[i].what = "RETRY_END" /\ After(i, "RETRY_START")
      BY <2>1, <2>2
    <3>2. k \in DOMAIN log /\ log[k].what = "RETRY_START"
      BY DEF Indices
    <3>3. k < i
      BY <2>4, <3>1, <3>2 DEF After, Once, Single
    <3>4. k \in StartsBefore(i, "RETRY_START")
      BY <2>4, <3>1, <3>2, <3>3 DEF StartsBefore, Key
    <3>5. s \in DOMAIN log /\ k <= s
      BY <3>4, LatestStart DEF StartsBefore, Indices
    <3>6. log[k].at <= log[s].at
      BY <3>2, <3>5 DEF LogTyped
    <3>7. log[k].at \in Nat /\ log[s].at \in Nat /\ log[i].at \in Nat
      <4>1. \A x \in DOMAIN log : log[x] \in Entry
        BY DEF LogTyped
      <4> QED
        BY <3>1, <3>2, <3>5, <4>1 DEF Entry
    <3> QED
      BY <3>6, <3>7 DEF Duration
  <2> QED
    BY <2>1, <2>2, <2>3, <2>4 DEF RetryDelays
<1> QED
  BY <1>1, Invariance, PTL

-----------------------------------------------------------------------------
(* The readers go through the log one event after the other. *)

\* The four passes over the log, by a name: where each begins and what it does
\* with an event.
First(r) ==
  CASE r = "active" -> NoneActive
    [] r = "states" -> [w \in Workers |-> Unseen]
    [] r = "agents" -> NoAgents
    [] r = "inferences" -> NoInference

Read(r, a, e) ==
  CASE r = "active" -> CountActive(a, e)
    [] r = "states" -> Extract(a, e)
    [] r = "agents" -> Follow(a, e)
    [] r = "inferences" -> Infer(a, e)

\* The function that a pass over the first n events is defined by.
Reading(r, g, s, n) ==
  g = [k \in 0 .. n |-> IF k = 0 THEN First(r) ELSE Read(r, g[k - 1], s[k])]

LEMMA ReadingExists ==
  ASSUME NEW r, NEW s, NEW n \in Nat
  PROVE  \E g : Reading(r, g, s, n)
<1> DEFINE G == {m \in Nat : \E g : Reading(r, g, s, m)}
<1>1. 0 \in G
  <2> DEFINE g == [k \in 0 .. 0 |-> First(r)]
  <2>1. \A k \in 0 .. 0 : k = 0
    OBVIOUS
  <2>2. Reading(r, g, s, 0)
    BY <2>1 DEF Reading
  <2> QED
    BY <2>2
<1>2. ASSUME NEW m \in G
      PROVE  m + 1 \in G
  <2>1. PICK h : Reading(r, h, s, m)
    OBVIOUS
  <2> DEFINE g == [k \in 0 .. m + 1 |-> IF k = m + 1 THEN Read(r, h[m], s[m + 1]) ELSE h[k]]
  <2>2. ASSUME NEW k \in 0 .. m + 1
        PROVE  g[k] = IF k = 0 THEN First(r) ELSE Read(r, g[k - 1], s[k])
    <3>1. CASE k = m + 1
      <4>1. /\ k # 0 /\ k - 1 = m /\ m \in 0 .. m + 1 /\ m # m + 1
        BY <3>1
      <4>2. g[m] = h[m] /\ g[k] = Read(r, h[m], s[m + 1])
        BY <3>1, <4>1
      <4> HIDE DEF g
      <4> QED
        BY <3>1, <4>1, <4>2
    <3>2. CASE k # m + 1
      <4>1. k \in 0 .. m /\ g[k] = h[k]
        BY <3>2
      <4>2. k # 0 => k - 1 \in 0 .. m + 1 /\ k - 1 # m + 1
        BY <4>1
      <4>3. k # 0 => g[k - 1] = h[k - 1]
        BY <4>2
      <4>4. h[k] = IF k = 0 THEN First(r) ELSE Read(r, h[k - 1], s[k])
        BY <2>1, <4>1 DEF Reading
      <4> HIDE DEF g
      <4> QED
        BY <4>1, <4>3, <4>4
    <3> QED
      BY <3>1, <3>2
  <2>3. Reading(r, g, s, m + 1)
    BY <2>2 DEF Reading
  <2> QED
    BY <2>3
<1> QED
  BY <1>1, <1>2, AllNumbers

\* The counts of active workers after each of the events.
Run(a, s) ==
  /\ a[0] = NoneActive
  /\ \A k \in 1 .. Len(s) : a[k] = CountActive(a[k - 1], s[k])

LEMMA CountRun ==
  ASSUME NEW S, NEW s \in Seq(S)
  PROVE  \E a : Run(a, s) /\ ReadThrough(CountActive, NoneActive, s) = a[Len(s)]
<1> DEFINE n == Len(s)
           P(h) == h = [k \in 0 .. n |-> IF k = 0 THEN NoneActive ELSE CountActive(h[k - 1], s[k])]
           a == CHOOSE h : P(h)
<1>1. n \in Nat
  OBVIOUS
<1>2. First("active") = NoneActive /\ \A b, e : Read("active", b, e) = CountActive(b, e)
  BY DEF First, Read
<1>3. \E h : P(h)
  <2>1. PICK h : Reading("active", h, s, n)
    BY <1>1, ReadingExists
  <2>2. P(h)
    BY <1>2, <2>1 DEF Reading
  <2> QED
    BY <2>2
<1>4. P(a)
  BY <1>3
<1>5. ReadThrough(CountActive, NoneActive, s) = a[n]
  BY DEF ReadThrough
<1> HIDE DEF a
<1>6. Run(a, s)
  <2>1. 0 \in 0 .. n /\ \A k \in 1 .. n : k \in 0 .. n /\ k # 0
    BY <1>1
  <2> HIDE DEF n
  <2>2. a[0] = NoneActive /\ \A k \in 1 .. n : a[k] = CountActive(a[k - 1], s[k])
    BY <1>4, <2>1
  <2> QED
    BY <2>2 DEF Run, n
<1> QED
  BY <1>5, <1>6

\* The states of the workers.
ExtractRuns(a, s) ==
  /\ a[0] = [w \in Workers |-> Unseen]
  /\ \A k \in 1 .. Len(s) : a[k] = Extract(a[k - 1], s[k])

LEMMA ExtractRun ==
  ASSUME NEW S, NEW s \in Seq(S)
  PROVE  \E a : ExtractRuns(a, s) /\ ReadThrough(Extract, [w \in Workers |-> Unseen], s) = a[Len(s)]
<1> DEFINE n == Len(s)
           P(h) == h = [k \in 0 .. n |-> IF k = 0 THEN [w \in Workers |-> Unseen] ELSE Extract(h[k - 1], s[k])]
           a == CHOOSE h : P(h)
<1>1. n \in Nat
  OBVIOUS
<1>2. First("states") = [w \in Workers |-> Unseen] /\ \A b, e : Read("states", b, e) = Extract(b, e)
  BY DEF First, Read
<1>3. \E h : P(h)
  <2>1. PICK h : Reading("states", h, s, n)
    BY <1>1, ReadingExists
  <2>2. P(h)
    BY <1>2, <2>1 DEF Reading
  <2> QED
    BY <2>2
<1>4. P(a)
  BY <1>3
<1>5. ReadThrough(Extract, [w \in Workers |-> Unseen], s) = a[n]
  BY DEF ReadThrough
<1> HIDE DEF a
<1>6. ExtractRuns(a, s)
  <2>1. 0 \in 0 .. n /\ \A k \in 1 .. n : k \in 0 .. n /\ k # 0
    BY <1>1
  <2> HIDE DEF n
  <2>2. a[0] = [w \in Workers |-> Unseen] /\ \A k \in 1 .. n : a[k] = Extract(a[k - 1], s[k])
    BY <1>4, <2>1
  <2> QED
    BY <2>2 DEF ExtractRuns, n
<1> QED
  BY <1>5, <1>6

\* The busy agents.
FollowRuns(a, s) ==
  /\ a[0] = NoAgents
  /\ \A k \in 1 .. Len(s) : a[k] = Follow(a[k - 1], s[k])

LEMMA FollowRun ==
  ASSUME NEW S, NEW s \in Seq(S)
  PROVE  \E a : FollowRuns(a, s) /\ ReadThrough(Follow, NoAgents, s) = a[Len(s)]
<1> DEFINE n == Len(s)
           P(h) == h = [k \in 0 .. n |-> IF k = 0 THEN NoAgents ELSE Follow(h[k - 1], s[k])]
           a == CHOOSE h : P(h)
<1>1. n \in Nat
  OBVIOUS
<1>2. First("agents") = NoAgents /\ \A b, e : Read("agents", b, e) = Follow(b, e)
  BY DEF First, Read
<1>3. \E h : P(h)
  <2>1. PICK h : Reading("agents", h, s, n)
    BY <1>1, ReadingExists
  <2>2. P(h)
    BY <1>2, <2>1 DEF Reading
  <2> QED
    BY <2>2
<1>4. P(a)
  BY <1>3
<1>5. ReadThrough(Follow, NoAgents, s) = a[n]
  BY DEF ReadThrough
<1> HIDE DEF a
<1>6. FollowRuns(a, s)
  <2>1. 0 \in 0 .. n /\ \A k \in 1 .. n : k \in 0 .. n /\ k # 0
    BY <1>1
  <2> HIDE DEF n
  <2>2. a[0] = NoAgents /\ \A k \in 1 .. n : a[k] = Follow(a[k - 1], s[k])
    BY <1>4, <2>1
  <2> QED
    BY <2>2 DEF FollowRuns, n
<1> QED
  BY <1>5, <1>6

\* The inferences that have begun.
InferRuns(a, s) ==
  /\ a[0] = NoInference
  /\ \A k \in 1 .. Len(s) : a[k] = Infer(a[k - 1], s[k])

LEMMA InferRun ==
  ASSUME NEW S, NEW s \in Seq(S)
  PROVE  \E a : InferRuns(a, s) /\ ReadThrough(Infer, NoInference, s) = a[Len(s)]
<1> DEFINE n == Len(s)
           P(h) == h = [k \in 0 .. n |-> IF k = 0 THEN NoInference ELSE Infer(h[k - 1], s[k])]
           a == CHOOSE h : P(h)
<1>1. n \in Nat
  OBVIOUS
<1>2. First("inferences") = NoInference /\ \A b, e : Read("inferences", b, e) = Infer(b, e)
  BY DEF First, Read
<1>3. \E h : P(h)
  <2>1. PICK h : Reading("inferences", h, s, n)
    BY <1>1, ReadingExists
  <2>2. P(h)
    BY <1>2, <2>1 DEF Reading
  <2> QED
    BY <2>2
<1>4. P(a)
  BY <1>3
<1>5. ReadThrough(Infer, NoInference, s) = a[n]
  BY DEF ReadThrough
<1> HIDE DEF a
<1>6. InferRuns(a, s)
  <2>1. 0 \in 0 .. n /\ \A k \in 1 .. n : k \in 0 .. n /\ k # 0
    BY <1>1
  <2> HIDE DEF n
  <2>2. a[0] = NoInference /\ \A k \in 1 .. n : a[k] = Infer(a[k - 1], s[k])
    BY <1>4, <2>1
  <2> QED
    BY <2>2 DEF InferRuns, n
<1> QED
  BY <1>5, <1>6

-----------------------------------------------------------------------------
(* The workers that the parser takes for active. *)

\* One event moves the count of its worker by one, and never below 0.
LEMMA CountEffect ==
  ASSUME NEW n \in [Workers -> Nat], NEW e, e.worker \in Workers
  PROVE  /\ CountActive(n, e) \in [Workers -> Nat]
         /\ e.what \in {"INFERENCE_START", "EXECUTION_START"} =>
              CountActive(n, e) = [n EXCEPT ![e.worker] = n[e.worker] + 1]
         /\ e.what \in {"INFERENCE_END", "EXECUTION_END"} /\ n[e.worker] > 0 =>
              CountActive(n, e) = [n EXCEPT ![e.worker] = n[e.worker] - 1]
         /\ e.what \notin {"INFERENCE_START", "EXECUTION_START",
                          "INFERENCE_END", "EXECUTION_END"} => CountActive(n, e) = n
BY DEF CountActive

LEMMA RunTyped ==
  ASSUME NEW s \in Seq(Entry), NEW a, Run(a, s)
  PROVE  \A k \in 0 .. Len(s) : a[k] \in [Workers -> Nat]
<1> DEFINE G == {k \in Nat : k <= Len(s) => a[k] \in [Workers -> Nat]}
<1>1. 0 \in G
  BY DEF Run, NoneActive
<1>2. ASSUME NEW k \in G
      PROVE  k + 1 \in G
  <2> SUFFICES ASSUME k + 1 <= Len(s)
               PROVE  a[k + 1] \in [Workers -> Nat]
    OBVIOUS
  <2>1. k \in Nat /\ k + 1 \in 1 .. Len(s) /\ (k + 1) - 1 = k /\ k <= Len(s)
    OBVIOUS
  <2>2. a[k] \in [Workers -> Nat] /\ s[k + 1].worker \in Workers
    <3>1. s[k + 1] \in Entry
      BY <2>1
    <3> QED
      BY <2>1, <3>1 DEF Entry
  <2>3. a[k + 1] = CountActive(a[k], s[k + 1])
    BY <2>1 DEF Run
  <2> QED
    BY <2>2, <2>3, CountEffect
<1> HIDE DEF G
<1>3. G = Nat
  <2>1. G \in SUBSET Nat
    BY DEF G
  <2> QED
    BY <1>1, <1>2, <2>1, AllNumbers
<1> QED
  BY <1>3 DEF G

\* The count goes on from where it was before the step.
LEMMA CountGoesOn ==
  ASSUME LogTyped, scenario' = scenario, NEW j, NEW E, Adds(j, E)
  PROVE  \E a : /\ Run(a, log')
               /\ active_workers = a[Len(log)]
               /\ active_workers' = a[Len(log')]
<1>1. log \in Seq(Entry) /\ log' \in Seq(Entry)
  BY DEF LogTyped, Adds
<1>2. PICK b : Run(b, log) /\ ReadThrough(CountActive, NoneActive, log) = b[Len(log)]
  BY <1>1, CountRun
<1>3. PICK a : Run(a, log') /\ ReadThrough(CountActive, NoneActive, log') = a[Len(log')]
  BY <1>1, CountRun
<1>4. active_workers = b[Len(log)]
  BY <1>2 DEF active_workers
<1>5. active_workers' = a[Len(log')]
  <2>1. NoneActive' = NoneActive
    BY DEF NoneActive, Workers, JobIds, Job
  <2> QED
    BY <1>3, <2>1 DEF active_workers
<1>6. a[Len(log)] = b[Len(log)]
  <2> DEFINE G == {k \in Nat : k <= Len(log) => a[k] = b[k]}
  <2>1. 0 \in G
    BY <1>2, <1>3 DEF Run
  <2>2. ASSUME NEW k \in G
        PROVE  k + 1 \in G
    <3> SUFFICES ASSUME k + 1 <= Len(log)
                 PROVE  a[k + 1] = b[k + 1]
      OBVIOUS
    <3>1. /\ k \in Nat /\ k + 1 \in DOMAIN log /\ (k + 1) - 1 = k /\ a[k] = b[k]
          /\ k + 1 \in 1 .. Len(log)
      BY <1>1
    <3>2. k + 1 \in 1 .. Len(log') /\ log'[k + 1] = log[k + 1]
      BY <1>1, <3>1 DEF Adds
    <3> QED
      BY <1>2, <1>3, <3>1, <3>2 DEF Run
  <2> HIDE DEF G
  <2>3. G = Nat
    <3>1. G \in SUBSET Nat
      BY DEF G
    <3> QED
      BY <2>1, <2>2, <3>1, AllNumbers
  <2>4. Len(log) \in Nat /\ Len(log) <= Len(log)
    BY <1>1
  <2> QED
    BY <2>3, <2>4 DEF G
<1> QED
  BY <1>3, <1>4, <1>5, <1>6

Starts == {"INFERENCE_START", "EXECUTION_START"}
Ends == {"INFERENCE_END", "EXECUTION_END"}

\* Other events leave the counts alone.
LEMMA NotCounted ==
  ASSUME LogTyped, scenario' = scenario, active_workers \in [Workers -> Nat],
         NEW j, NEW E, Adds(j, E), E \cap (Starts \cup Ends) = {}
  PROVE  active_workers' = active_workers
<1>1. PICK a : /\ Run(a, log')
               /\ active_workers = a[Len(log)] /\ active_workers' = a[Len(log')]
  BY CountGoesOn
<1>2. /\ log \in Seq(Entry) /\ log' \in Seq(Entry)
      /\ DOMAIN log = 1 .. Len(log) /\ DOMAIN log' = 1 .. Len(log')
      /\ Len(log) \in Nat /\ Len(log') \in Nat
  BY DEF LogTyped, Adds
<1> DEFINE G == {i \in Nat : Len(log) + i <= Len(log') => a[Len(log) + i] = active_workers}
<1>3. 0 \in G
  BY <1>1, <1>2
<1>4. ASSUME NEW i \in G
      PROVE  i + 1 \in G
  <2> SUFFICES ASSUME Len(log) + (i + 1) <= Len(log')
               PROVE  a[Len(log) + (i + 1)] = active_workers
    OBVIOUS
  <2> DEFINE k == Len(log) + (i + 1)
  <2>1. /\ k \in 1 .. Len(log') /\ k \in DOMAIN log' \ DOMAIN log
        /\ k - 1 = Len(log) + i /\ a[k - 1] = active_workers
    BY <1>2
  <2>2. log'[k].what \in E /\ log'[k] \in Entry
    BY <1>2, <2>1 DEF Adds
  <2>3. log'[k].worker \in Workers /\ log'[k].what \notin Starts \cup Ends
    BY <2>2 DEF Entry
  <2>4. a[k] = CountActive(a[k - 1], log'[k])
    BY <1>1, <2>1 DEF Run
  <2> HIDE DEF k
  <2>5. a[k] = active_workers
    BY <2>1, <2>3, <2>4, CountEffect DEF Starts, Ends
  <2> QED
    BY <2>5 DEF k
<1> HIDE DEF G
<1>5. G = Nat
  <2>1. G \in SUBSET Nat
    BY DEF G
  <2> QED
    BY <1>3, <1>4, <2>1, AllNumbers
<1>6. Len(log) <= Len(log')
  <2>1. Len(log) = 0 \/ Len(log) \in DOMAIN log'
    BY <1>2 DEF Adds
  <2> QED
    BY <1>2, <2>1
<1>7. Len(log') - Len(log) \in G /\ Len(log) + (Len(log') - Len(log)) = Len(log')
  BY <1>2, <1>5, <1>6
<1> QED
  BY <1>1, <1>2, <1>7 DEF G

\* The counts c while the parser reads the events that a step of job j writes.
CountsThrough(c, j, ev) ==
  /\ c[0] = active_workers
  /\ \A i \in 1 .. Len(ev) : c[i] = CountActive(c[i - 1], Line(j, Job(j).worker, ev[i]))
  /\ active_workers' = c[Len(ev)]

LEMMA CountWrite ==
  ASSUME TypeOK, LogTyped, scenario' = scenario, NEW j \in JobIds,
         NEW ev \in Seq(EventTypes \cup States), NEW E, Lists(ev, E), Write(j, ev)
  PROVE  \E c : CountsThrough(c, j, ev)
<1>1. Adds(j, E)
  BY WriteAdds
<1>2. PICK a : /\ Run(a, log')
               /\ active_workers = a[Len(log)] /\ active_workers' = a[Len(log')]
  BY <1>1, CountGoesOn
<1> DEFINE w == Job(j).worker
           new == [i \in 1 .. Len(ev) |-> Line(j, w, ev[i])]
           c == [i \in 0 .. Len(ev) |-> a[Len(log) + i]]
<1>3. Len(ev) \in Nat /\ Len(log) \in Nat /\ log \in Seq(Entry)
  BY DEF LogTyped
<1>4. \A i \in 1 .. Len(ev) : Line(j, w, ev[i]) \in Entry
  <2>1. w \in Workers /\ now \in Nat
    BY JobsTyped
  <2>2. \A i \in 1 .. Len(ev) : ev[i] \in EventTypes \cup States
    OBVIOUS
  <2> HIDE DEF w
  <2> QED
    BY <2>1, <2>2 DEF Line, Entry
<1>5. /\ new \in Seq(Entry) /\ Len(new) = Len(ev)
      /\ \A i \in 1 .. Len(ev) : new[i] = Line(j, w, ev[i])
  BY <1>3, <1>4
<1>6. log' = log \o new
  BY DEF Write
<1> HIDE DEF new
<1>7. /\ Len(log') = Len(log) + Len(ev)
      /\ \A k \in 1 .. Len(log) + Len(ev) :
           log'[k] = IF k <= Len(log) THEN log[k] ELSE new[k - Len(log)]
  <2>1. /\ Len(log \o new) = Len(log) + Len(new)
        /\ \A k \in 1 .. Len(log) + Len(new) :
             (log \o new)[k] = IF k <= Len(log) THEN log[k] ELSE new[k - Len(log)]
    BY <1>3, <1>5, ConcatProperties, Zenon
  <2> QED
    BY <1>5, <1>6, <2>1
<1>8. ASSUME NEW i \in 1 .. Len(ev)
      PROVE  c[i] = CountActive(c[i - 1], Line(j, w, ev[i]))
  <2> DEFINE k == Len(log) + i
  <2>1. /\ k \in 1 .. Len(log') /\ ~(k <= Len(log)) /\ k - Len(log) = i
        /\ k - 1 = Len(log) + (i - 1) /\ i - 1 \in 0 .. Len(ev) /\ i \in 0 .. Len(ev)
    BY <1>3, <1>7
  <2>2. log'[k] = Line(j, w, ev[i])
    BY <1>5, <1>7, <2>1
  <2>3. c[i] = a[k] /\ c[i - 1] = a[k - 1]
    BY <2>1
  <2>4. a[k] = CountActive(a[k - 1], log'[k])
    BY <1>2, <2>1 DEF Run
  <2> HIDE DEF k, c, w
  <2> QED
    BY <2>2, <2>3, <2>4
<1>9. c[0] = active_workers /\ c[Len(ev)] = active_workers'
  BY <1>2, <1>3, <1>7
<1>10. CountsThrough(c, j, ev)
  BY <1>8, <1>9 DEF CountsThrough
<1> HIDE DEF c
<1> QED
  BY <1>10

-----------------------------------------------------------------------------

\* The jobs that a worker is at, or for ever at.
Busy(w) == {j \in SameWorker(w) : ~Aggregation(j) /\ phase[j] \in AtWork \cup {"raised"}}

\* The jobs that a queue thread has answered and not left.
Leaving(w) == {j \in SameWorker(w) : j \in leaving}

Counted ==
  /\ active_workers \in [Workers -> Nat]
  /\ \A w \in Workers :
       active_workers[w] = 2 * Cardinality(Busy(w)) + Cardinality(Leaving(w))

LEMMA BusyFinite ==
  ASSUME TypeOK, NEW w
  PROVE  /\ IsFiniteSet(Busy(w)) /\ Cardinality(Busy(w)) \in Nat
         /\ IsFiniteSet(Leaving(w)) /\ Cardinality(Leaving(w)) \in Nat
<1>1. IsFiniteSet(JobIds)
  BY JobsTyped, FS_Interval
<1>2. IsFiniteSet(Busy(w)) /\ IsFiniteSet(Leaving(w))
  BY <1>1, FS_Subset DEF Busy, Leaving, SameWorker
<1> QED
  BY <1>2, FS_CardinalityType

\* It is enough to look at the worker of the job that takes the step.
LEMMA Recounted ==
  ASSUME Counted, scenario' = scenario, NEW v \in Workers, NEW b \in Nat, NEW l \in Nat,
         Cardinality(Busy(v)') = b, Cardinality(Leaving(v)') = l,
         \A w \in Workers \ {v} : Busy(w)' = Busy(w) /\ Leaving(w)' = Leaving(w),
         active_workers' = [active_workers EXCEPT ![v] = 2 * b + l]
  PROVE  Counted'
<1>1. Workers' = Workers
  BY DEF Workers, JobIds, Job
<1>2. active_workers \in [Workers -> Nat] /\ 2 * b + l \in Nat
  BY DEF Counted
<1>3. active_workers' \in [Workers -> Nat]
  BY <1>2
<1>4. ASSUME NEW w \in Workers
      PROVE  active_workers'[w] = 2 * Cardinality(Busy(w)') + Cardinality(Leaving(w)')
  <2>1. CASE w = v
    BY <1>2, <2>1
  <2>2. CASE w # v
    BY <1>2, <2>2 DEF Counted
  <2> QED
    BY <2>1, <2>2
<1> QED
  BY <1>1, <1>3, <1>4 DEF Counted

\* A worker that takes a job is counted twice.
LEMMA BeginCounted ==
  ASSUME TypeOK, LogTyped, Counted, scenario' = scenario, NEW j \in JobIds, Begin(j)
  PROVE  active_workers' = [active_workers EXCEPT ![Job(j).worker] = @ + 2]
<1>1. /\ Begins \in Seq(EventTypes \cup States) /\ Lists(Begins, BeginEvents)
      /\ Write(j, Begins)
  BY BeginsList DEF Begin
<1>2. PICK c : CountsThrough(c, j, Begins)
  BY <1>1, CountWrite, Zenon
<1> DEFINE w == Job(j).worker
           n == active_workers
           up(m) == [m EXCEPT ![w] = m[w] + 1]
<1>3. /\ c[0] = n
      /\ \A i \in 1 .. Len(Begins) : c[i] = CountActive(c[i - 1], Line(j, w, Begins[i]))
      /\ active_workers' = c[Len(Begins)]
  BY <1>2 DEF CountsThrough
<1>4. w \in Workers /\ n \in [Workers -> Nat]
  BY JobsTyped DEF Counted
<1>5. ASSUME NEW m \in [Workers -> Nat], NEW what
      PROVE  /\ what \in Starts => CountActive(m, Line(j, w, what)) = up(m)
             /\ what \notin Starts \cup Ends => CountActive(m, Line(j, w, what)) = m
             /\ up(m) \in [Workers -> Nat]
  <2>1. Line(j, w, what).worker = w /\ Line(j, w, what).what = what
    BY DEF Line
  <2>2. up(m) \in [Workers -> Nat]
    BY <1>4
  <2> HIDE DEF w
  <2> QED
    BY <1>4, <2>1, <2>2, CountEffect DEF Starts, Ends
<1>6. up(up(n)) = [n EXCEPT ![w] = @ + 2]
  BY <1>4
<1> HIDE DEF w, n
\* The two starts are at different places in the four architectures.
<1>7. PICK p \in 1 .. Len(Begins), q \in 1 .. Len(Begins) :
        /\ p < q /\ Begins[p] \in Starts /\ Begins[q] \in Starts
        /\ \A i \in 1 .. Len(Begins) : i \notin {p, q} => Begins[i] \notin Starts \cup Ends
  <2>1. CASE Queue
    <3>1. Begins = <<"DEQUEUED", "INFERENCE_START", "busy", "EXECUTION_START", "blocked">>
      BY <2>1 DEF Begins
    <3>2. Len(Begins) = 5 /\ 2 \in 1 .. 5 /\ 4 \in 1 .. 5
      BY <3>1
    <3>3. /\ Begins[2] \in Starts /\ Begins[4] \in Starts
          /\ \A i \in 1 .. 5 : i \notin {2, 4} => Begins[i] \notin Starts \cup Ends
      BY <3>1 DEF Starts, Ends
    <3> QED
      BY <3>2, <3>3
  <2>2. CASE Pool
    <3>1. Begins = <<"busy", "DEQUEUED", "INFERENCE_START", "EXECUTION_START", "blocked">>
      BY <2>2, ArchitecturesApart DEF Begins
    <3>2. Len(Begins) = 5 /\ 3 \in 1 .. 5 /\ 4 \in 1 .. 5
      BY <3>1
    <3>3. /\ Begins[3] \in Starts /\ Begins[4] \in Starts
          /\ \A i \in 1 .. 5 : i \notin {3, 4} => Begins[i] \notin Starts \cup Ends
      BY <3>1 DEF Starts, Ends
    <3> QED
      BY <3>2, <3>3
  <2>3. CASE Monolithic
    <3>1. Begins = <<"busy", "INFERENCE_START", "EXECUTION_START", "blocked">>
      BY <2>3, ArchitecturesApart DEF Begins
    <3>2. Len(Begins) = 4 /\ 2 \in 1 .. 4 /\ 3 \in 1 .. 4
      BY <3>1
    <3>3. /\ Begins[2] \in Starts /\ Begins[3] \in Starts
          /\ \A i \in 1 .. 4 : i \notin {2, 3} => Begins[i] \notin Starts \cup Ends
      BY <3>1 DEF Starts, Ends
    <3> QED
      BY <3>2, <3>3
  <2> QED
    BY <2>1, <2>2, <2>3, ArchitecturesApart
<1> DEFINE r(i) == IF i < p THEN n ELSE IF i < q THEN up(n) ELSE up(up(n))
           G == {i \in Nat : i <= Len(Begins) => c[i] = r(i)}
<1>8. 0 \in G
  BY <1>3, <1>7
<1>9. ASSUME NEW i \in G
      PROVE  i + 1 \in G
  <2> SUFFICES ASSUME i + 1 <= Len(Begins)
               PROVE  c[i + 1] = r(i + 1)
    OBVIOUS
  <2> DEFINE k == i + 1
  <2>1. i \in Nat /\ k \in 1 .. Len(Begins) /\ k - 1 = i /\ c[i] = r(i)
    OBVIOUS
  <2>2. c[k] = CountActive(r(i), Line(j, w, Begins[k]))
    BY <1>3, <2>1
  <2>3. r(i) \in [Workers -> Nat]
    BY <1>4, <1>5
  <2> HIDE DEF up
  <2>4. CASE k \in {p, q}
    <3>1. c[k] = up(r(i))
      BY <1>5, <1>7, <2>2, <2>3, <2>4
    <3>2. r(k) = up(r(i))
      BY <1>7, <2>1, <2>4
    <3> QED
      BY <3>1, <3>2
  <2>5. CASE k \notin {p, q}
    <3>1. c[k] = r(i)
      BY <1>5, <1>7, <2>1, <2>2, <2>3, <2>5
    <3>2. r(k) = r(i)
      BY <1>7, <2>1, <2>5
    <3> QED
      BY <3>1, <3>2
  <2> QED
    BY <2>4, <2>5
<1> HIDE DEF G
<1>10. G = Nat
  <2>1. G \in SUBSET Nat
    BY DEF G
  <2> QED
    BY <1>8, <1>9, <2>1, AllNumbers
<1>11. Len(Begins) \in Nat
  BY <1>1
<1>12. c[Len(Begins)] = up(up(n))
  <2>1. Len(Begins) \in G /\ Len(Begins) <= Len(Begins)
    BY <1>10, <1>11
  <2>2. c[Len(Begins)] = r(Len(Begins))
    BY <2>1 DEF G
  <2>3. ~(Len(Begins) < p) /\ ~(Len(Begins) < q)
    BY <1>7, <1>11
  <2> HIDE DEF up
  <2> QED
    BY <2>2, <2>3
<1> QED
  BY <1>3, <1>6, <1>12 DEF w, n

\* A worker that answers is not counted for the job any more, if it is not a queue
\* thread.
LEMMA AnswerCounted ==
  ASSUME TypeOK, LogTyped, Counted, scenario' = scenario, NEW j \in JobIds, Answer(j),
         ~Aggregation(j), ~Queue, active_workers[Job(j).worker] >= 2
  PROVE  active_workers' = [active_workers EXCEPT ![Job(j).worker] = @ - 2]
<1> DEFINE w == Job(j).worker
           n == active_workers
           m == [n EXCEPT ![w] = n[w] - 1]
<1>1. /\ Answers(j) \in Seq(EventTypes \cup States) /\ Lists(Answers(j), AnswerEvents(j))
      /\ Write(j, Answers(j))
  BY AnswersList DEF Answer
<1>2. PICK c : CountsThrough(c, j, Answers(j))
  BY <1>1, CountWrite, Zenon
<1>3. Answers(j) = <<"EXECUTION_END", "INFERENCE_END", "idle">>
  BY DEF Answers
<1>4. /\ c[0] = n
      /\ c[1] = CountActive(c[0], Line(j, w, "EXECUTION_END"))
      /\ c[2] = CountActive(c[1], Line(j, w, "INFERENCE_END"))
      /\ c[3] = CountActive(c[2], Line(j, w, "idle"))
      /\ active_workers' = c[3]
  <2>1. /\ Len(Answers(j)) = 3
        /\ Answers(j)[1] = "EXECUTION_END" /\ Answers(j)[2] = "INFERENCE_END"
        /\ Answers(j)[3] = "idle"
    BY <1>3
  <2>2. /\ c[0] = n /\ active_workers' = c[3]
        /\ \A i \in 1 .. 3 : c[i] = CountActive(c[i - 1], Line(j, w, Answers(j)[i]))
    BY <1>2, <2>1 DEF CountsThrough
  <2>3. 1 \in 1 .. 3 /\ 2 \in 1 .. 3 /\ 3 \in 1 .. 3 /\ 1 - 1 = 0 /\ 2 - 1 = 1 /\ 3 - 1 = 2
    OBVIOUS
  <2> QED
    BY <2>1, <2>2, <2>3
<1>5. w \in Workers /\ n \in [Workers -> Nat] /\ n[w] >= 2
  BY JobsTyped DEF Counted
<1>6. m \in [Workers -> Nat] /\ m[w] = n[w] - 1 /\ m[w] > 0
  BY <1>5
<1>7. [m EXCEPT ![w] = m[w] - 1] = [n EXCEPT ![w] = @ - 2]
      /\ [m EXCEPT ![w] = m[w] - 1] \in [Workers -> Nat]
  BY <1>5, <1>6
<1>8. \A what : Line(j, w, what).worker = w /\ Line(j, w, what).what = what
  BY DEF Line
<1> HIDE DEF w, n, m
<1>9. c[1] = m
  BY <1>4, <1>5, <1>8, CountEffect DEF m
<1>10. c[2] = [m EXCEPT ![w] = m[w] - 1]
  BY <1>4, <1>5, <1>6, <1>8, <1>9, CountEffect
<1>11. c[3] = c[2]
  BY <1>4, <1>5, <1>7, <1>8, <1>10, CountEffect
<1> QED
  BY <1>4, <1>7, <1>10, <1>11 DEF w, n

\* A queue thread ends the execution and the inference in two steps.
LEMMA EndCounted ==
  ASSUME TypeOK, LogTyped, Counted, scenario' = scenario, NEW j \in JobIds,
         NEW ev \in Seq(EventTypes \cup States), NEW E, Lists(ev, E), Write(j, ev),
         ev[1] \in Ends, Len(ev) = 1 \/ (Len(ev) = 2 /\ ev[2] = "idle"),
         active_workers[Job(j).worker] >= 1
  PROVE  active_workers' = [active_workers EXCEPT ![Job(j).worker] = @ - 1]
<1> DEFINE w == Job(j).worker
           n == active_workers
           m == [n EXCEPT ![w] = n[w] - 1]
<1>1. PICK c : CountsThrough(c, j, ev)
  BY CountWrite, Zenon
<1>2. /\ c[0] = n /\ active_workers' = c[Len(ev)]
      /\ c[1] = CountActive(c[0], Line(j, w, ev[1]))
      /\ Len(ev) = 2 => c[2] = CountActive(c[1], Line(j, w, "idle"))
  <2>1. \A i \in 1 .. Len(ev) : c[i] = CountActive(c[i - 1], Line(j, w, ev[i]))
    BY <1>1 DEF CountsThrough
  <2>2. 1 \in 1 .. Len(ev) /\ 1 - 1 = 0 /\ (Len(ev) = 2 => 2 \in 1 .. Len(ev) /\ 2 - 1 = 1)
    OBVIOUS
  <2> QED
    BY <1>1, <2>1, <2>2 DEF CountsThrough
<1>3. w \in Workers /\ n \in [Workers -> Nat] /\ n[w] > 0
  BY JobsTyped DEF Counted
<1>4. m \in [Workers -> Nat]
  BY <1>3
<1>5. \A what : Line(j, w, what).worker = w /\ Line(j, w, what).what = what
  BY DEF Line
<1> HIDE DEF w, n, m
<1>6. c[1] = m
  <2> DEFINE e == Line(j, w, ev[1])
  <2>2. e.worker = w /\ e.what \in {"INFERENCE_END", "EXECUTION_END"}
    BY <1>5 DEF Ends
  <2> HIDE DEF e
  <2>1. CountActive(n, e) = m
    BY <1>3, <2>2, CountEffect DEF m
  <2> QED
    BY <1>2, <2>1 DEF e
<1>7. Len(ev) = 2 => c[2] = m
  <2> DEFINE e == Line(j, w, "idle")
  <2>2. e.worker = w /\ e.what = "idle"
    BY <1>5
  <2> HIDE DEF e
  <2>1. CountActive(m, e) = m
    BY <1>3, <1>4, <2>2, CountEffect
  <2> QED
    BY <1>2, <1>6, <2>1 DEF e
<1> QED
  BY <1>2, <1>6, <1>7 DEF m, n, w

\* A step that begins no job and ends none leaves the counts as they are.
LEMMA OthersNotCounted ==
  ASSUME TypeOK, LogTyped, Counted, Started, [Next]_vars,
         \A j \in JobIds : ~Begin(j) /\ ~Leave(j) /\ (Answer(j) => Aggregation(j))
  PROVE  /\ active_workers' = active_workers
         /\ \A w \in Workers : Busy(w)' = Busy(w) /\ Leaving(w)' = Leaving(w)
<1>1. scenario' = scenario /\ active_workers \in [Workers -> Nat]
  BY ScenarioFixed DEF Counted
<1>2. ASSUME NEW j, NEW E, Adds(j, E), E \cap (Starts \cup Ends) = {}
      PROVE  active_workers' = active_workers
  BY <1>1, <1>2, NotCounted
<1>3. ASSUME NEW j \in JobIds, JobStep(j)
      PROVE  \E E : Adds(j, E) /\ E \cap (Starts \cup Ends) = {}
  <2>1. /\ PublishEvents(j) \cap (Starts \cup Ends) = {}
        /\ {"QUEUED"} \cap (Starts \cup Ends) = {}
        /\ CollectEvents(j) \cap (Starts \cup Ends) = {}
        /\ CrashEvents \cap (Starts \cup Ends) = {}
        /\ {"busy"} \cap (Starts \cup Ends) = {}
        /\ {"busy", "AGGREGATION_START"} \cap (Starts \cup Ends) = {}
        /\ Aggregation(j) => AnswerEvents(j) \cap (Starts \cup Ends) = {}
        /\ {} \cap (Starts \cup Ends) = {}
    BY DEF PublishEvents, CollectEvents, CrashEvents, AnswerEvents, Starts, Ends
  <2> QED
    BY <1>3, <2>1, JobAdds DEF JobStep
<1>4. ASSUME NEW t \in Threads, Wake(t)
      PROVE  Adds(NoJob, {"idle"}) /\ {"idle"} \cap (Starts \cup Ends) = {}
  BY <1>4, WakeAdds DEF Starts, Ends
<1>5. ASSUME Tick \/ UNCHANGED vars
      PROVE  Adds(NoJob, {})
  BY <1>5, NothingAdded DEF Tick, vars
<1>6. active_workers' = active_workers
  BY <1>2, <1>3, <1>4, <1>5 DEF Next
<1>7. ASSUME NEW i \in JobIds, ~Aggregation(i)
      PROVE  phase'[i] \in AtWork \cup {"raised"} <=> phase[i] \in AtWork \cup {"raised"}
  <2>1. ASSUME NEW j \in JobIds, JobStep(j)
        PROVE  phase'[i] \in AtWork \cup {"raised"} <=> phase[i] \in AtWork \cup {"raised"}
    BY <1>7, <2>1 DEF TypeOK, JobStep, Publish, Announce, Collect, Crash, Free, Call, Aggregate,
         Answer, Leave, Raise, Move, AtWork
  <2> QED
    BY <2>1 DEF Next, Wake, Tick, vars
<1>8. leaving' = leaving
  <2>1. ASSUME NEW j \in JobIds, JobStep(j)
        PROVE  leaving' = leaving
    BY <2>1, ScenarioRules DEF JobStep, Publish, Announce, Collect, Begin, Crash, Call, Aggregate,
       Answer, Raise
  <2> QED
    BY <2>1 DEF Next, Wake, Tick, vars
<1>9. \A w \in Workers : Busy(w)' = Busy(w) /\ Leaving(w)' = Leaving(w)
  BY <1>1, <1>7, <1>8 DEF Busy, Leaving, SameWorker, JobIds, Job, Aggregation, AtWork
<1> QED
  BY <1>6, <1>9

LEMMA CountedStep ==
  ASSUME TypeOK, LogTyped, Started, Counted, [Next]_vars
  PROVE  Counted'
<1>1. scenario' = scenario /\ Workers' = Workers
  BY ScenarioFixed DEF Workers, JobIds, Job
<1>2. active_workers \in [Workers -> Nat]
      /\ \A w \in Workers :
           /\ active_workers[w] = 2 * Cardinality(Busy(w)) + Cardinality(Leaving(w))
           /\ IsFiniteSet(Busy(w)) /\ Cardinality(Busy(w)) \in Nat
           /\ IsFiniteSet(Leaving(w)) /\ Cardinality(Leaving(w)) \in Nat
  BY BusyFinite DEF Counted
<1> DEFINE b(w) == Cardinality(Busy(w))
           l(w) == Cardinality(Leaving(w))
\* What the steps do to the two sets.
<1>3. ASSUME NEW j \in JobIds, NEW p, phase' = [phase EXCEPT ![j] = p], leaving' = leaving
      PROVE  \A w \in Workers :
               /\ Leaving(w)' = Leaving(w)
               /\ Job(j).worker # w => Busy(w)' = Busy(w)
               /\ Job(j).worker = w =>
                    Busy(w)' = IF ~Aggregation(j) /\ p \in AtWork \cup {"raised"}
                               THEN Busy(w) \cup {j} ELSE Busy(w) \ {j}
  BY <1>1, <1>3 DEF TypeOK, Busy, Leaving, SameWorker, JobIds, Job, Aggregation, AtWork
<1>4. ASSUME NEW j \in JobIds, Begin(j)
      PROVE  Counted'
  <2>0. PICK v \in Workers : Job(j).worker = v
    BY JobsTyped
  <2>1. active_workers' = [active_workers EXCEPT ![v] = @ + 2]
    BY <1>1, <1>4, <2>0, BeginCounted
  <2>2. /\ ~Aggregation(j) /\ j \notin Busy(v) /\ v \in Workers
        /\ phase' = [phase EXCEPT ![j] = "blocked"] /\ leaving' = leaving
    BY <1>4, <2>0 DEF Begin, Free, Move, Started, StartedAt, Busy, AtWork
  <2>3. /\ Busy(v)' = Busy(v) \cup {j} /\ Leaving(v)' = Leaving(v)
        /\ \A w \in Workers \ {v} : Busy(w)' = Busy(w) /\ Leaving(w)' = Leaving(w)
    BY <1>3, <2>0, <2>2 DEF AtWork
  <2>4. Cardinality(Busy(v) \cup {j}) = b(v) + 1
    BY <1>2, <2>2, FS_AddElement
  <2>5. b(v) + 1 \in Nat /\ l(v) \in Nat
        /\ active_workers[v] + 2 = 2 * (b(v) + 1) + l(v)
    BY <1>2, <2>2
  <2> QED
    BY <1>1, <2>1, <2>2, <2>3, <2>4, <2>5, Recounted
<1>5. ASSUME NEW j \in JobIds, Answer(j), ~Aggregation(j)
      PROVE  Counted'
  <2>0. PICK v \in Workers : Job(j).worker = v
    BY JobsTyped
  <2>1. /\ j \in Busy(v) /\ j \notin Leaving(v) /\ v \in Workers
        /\ phase' = [phase EXCEPT ![j] = "answered"]
    BY <1>5, <2>0
       DEF Answer, Move, Busy, Leaving, AtWork, SameWorker, Started, StartedAt, Answered
  <2>2. Cardinality(Busy(v) \ {j}) = b(v) - 1 /\ b(v) >= 1
    BY <1>2, <2>1, FS_RemoveElement, FS_EmptySet
  <2>3. b(v) - 1 \in Nat /\ l(v) \in Nat /\ l(v) + 1 \in Nat
        /\ active_workers[v] = 2 * b(v) + l(v) /\ active_workers[v] >= 2
    BY <1>2, <2>1, <2>2
  <2>4. CASE Queue
    <3>1. PICK ev, E : ev = Answers(j) /\ E = AnswerEvents(j)
      OBVIOUS
    <3>2. ev \in Seq(EventTypes \cup States) /\ Lists(ev, E) /\ Write(j, ev)
      BY <1>5, <3>1, AnswersList DEF Answer
    <3>8. ev[1] \in Ends /\ Len(ev) = 1
      BY <1>5, <2>4, <3>1 DEF Answers, Ends
    <3>9. active_workers[Job(j).worker] >= 1
      BY <1>2, <2>0, <2>3
    <3>3. active_workers' = [active_workers EXCEPT ![v] = @ - 1]
      BY <1>1, <2>0, <3>2, <3>8, <3>9, EndCounted
    <3>4. leaving' = leaving \cup {j}
      BY <1>5, <2>4 DEF Answer
    <3>5. /\ Busy(v)' = Busy(v) \ {j} /\ Leaving(v)' = Leaving(v) \cup {j}
          /\ \A w \in Workers \ {v} : Busy(w)' = Busy(w) /\ Leaving(w)' = Leaving(w)
      BY <1>1, <2>0, <2>1, <3>4
         DEF TypeOK, Busy, Leaving, SameWorker, JobIds, Job, Aggregation, AtWork
    <3>6. Cardinality(Leaving(v) \cup {j}) = l(v) + 1
      BY <1>2, <2>1, FS_AddElement
    <3>7. active_workers[v] - 1 = 2 * (b(v) - 1) + (l(v) + 1)
      BY <1>2, <2>3
    <3> QED
      BY <1>1, <2>1, <2>2, <2>3, <3>3, <3>5, <3>6, <3>7, Recounted
  <2>5. CASE ~Queue
    <3>1. active_workers' = [active_workers EXCEPT ![v] = @ - 2]
      BY <1>1, <1>5, <2>0, <2>3, <2>5, AnswerCounted
    <3>2. leaving' = leaving
      BY <1>5, <2>5 DEF Answer
    <3>3. /\ Busy(v)' = Busy(v) \ {j} /\ Leaving(v)' = Leaving(v)
          /\ \A w \in Workers \ {v} : Busy(w)' = Busy(w) /\ Leaving(w)' = Leaving(w)
      <4>1. "answered" \notin AtWork \cup {"raised"}
        BY DEF AtWork
      <4> QED
        BY <1>3, <2>0, <2>1, <3>2, <4>1
    <3>4. active_workers[v] - 2 = 2 * (b(v) - 1) + l(v)
      BY <1>2, <2>3
    <3> QED
      BY <1>1, <2>1, <2>2, <2>3, <3>1, <3>3, <3>4, Recounted
  <2> QED
    BY <2>4, <2>5
<1>6. ASSUME NEW j \in JobIds, Leave(j)
      PROVE  Counted'
  <2>0. PICK v \in Workers : Job(j).worker = v
    BY JobsTyped
  <2> DEFINE ev == <<"INFERENCE_END", "idle">>
  <2>1. /\ j \in Leaving(v) /\ v \in Workers
        /\ phase' = phase /\ leaving' = leaving \ {j}
    BY <1>6, <2>0 DEF Leave, Leaving, SameWorker
  <2>2. Cardinality(Leaving(v) \ {j}) = l(v) - 1 /\ l(v) >= 1
    BY <1>2, <2>1, FS_RemoveElement, FS_EmptySet
  <2>3. b(v) \in Nat /\ l(v) - 1 \in Nat
        /\ active_workers[v] = 2 * b(v) + l(v) /\ active_workers[v] >= 1
    BY <1>2, <2>1, <2>2
  <2>4. /\ ev \in Seq(EventTypes \cup States) /\ Lists(ev, {"INFERENCE_END", "idle"})
        /\ Write(j, ev) /\ ev[1] \in Ends /\ Len(ev) = 2 /\ ev[2] = "idle"
    BY <1>6, LeavesList DEF Leave, Ends
  <2>5. active_workers' = [active_workers EXCEPT ![v] = @ - 1]
    <3> HIDE DEF ev
    <3> QED
      BY <1>1, <2>0, <2>3, <2>4, EndCounted
  <2>6. /\ Busy(v)' = Busy(v) /\ Leaving(v)' = Leaving(v) \ {j}
        /\ \A w \in Workers \ {v} : Busy(w)' = Busy(w) /\ Leaving(w)' = Leaving(w)
    BY <1>1, <2>0, <2>1 DEF Busy, Leaving, SameWorker, JobIds, Job, Aggregation, AtWork
  <2>7. active_workers[v] - 1 = 2 * b(v) + (l(v) - 1)
    BY <1>2, <2>3
  <2> QED
    BY <1>1, <2>1, <2>2, <2>3, <2>5, <2>6, <2>7, Recounted
<1>7. CASE \A j \in JobIds : ~Begin(j) /\ ~Leave(j) /\ (Answer(j) => Aggregation(j))
  BY <1>1, <1>2, <1>7, OthersNotCounted DEF Counted
<1> QED
  BY <1>4, <1>5, <1>6, <1>7

\* When the queue threads of the first request say that they are idle.
LEMMA CountedInit ==
  ASSUME Init
  PROVE  Counted
<1>1. TypeOK /\ LogTyped /\ log \in Seq(Entry)
  BY InitTyped DEF LogTyped
<1>2. PICK a : Run(a, log) /\ ReadThrough(CountActive, NoneActive, log) = a[Len(log)]
  BY <1>1, CountRun
<1>3. \A k \in 1 .. Len(log) : log[k].what = "idle" /\ log[k].worker \in Workers
  <2>1. \A k \in DOMAIN log : log[k].what = "idle"
    BY DEF Init, Line
  <2>2. \A k \in DOMAIN log : log[k] \in Entry
    BY <1>1
  <2> QED
    BY <1>1, <2>1, <2>2 DEF Entry
<1> DEFINE G == {k \in Nat : k <= Len(log) => a[k] = NoneActive}
<1>4. NoneActive \in [Workers -> Nat]
  BY DEF NoneActive
<1>5. 0 \in G
  BY <1>2 DEF Run
<1>6. ASSUME NEW k \in G
      PROVE  k + 1 \in G
  <2> SUFFICES ASSUME k + 1 <= Len(log)
               PROVE  a[k + 1] = NoneActive
    OBVIOUS
  <2>1. k + 1 \in 1 .. Len(log) /\ (k + 1) - 1 = k /\ a[k] = NoneActive
    BY <1>1
  <2>2. a[k + 1] = CountActive(NoneActive, log[k + 1])
    BY <1>2, <2>1 DEF Run
  <2> QED
    BY <1>3, <1>4, <2>1, <2>2, CountEffect
<1> HIDE DEF G
<1>7. G = Nat
  <2>1. G \in SUBSET Nat
    BY DEF G
  <2> QED
    BY <1>5, <1>6, <2>1, AllNumbers
<1>8. active_workers = NoneActive
  <2>1. Len(log) \in G /\ Len(log) <= Len(log)
    BY <1>1, <1>7
  <2> QED
    BY <1>2, <2>1 DEF G, active_workers
<1>9. \A w \in Workers : Busy(w) = {} /\ Leaving(w) = {}
  BY DEF Busy, Leaving, SameWorker, Init, AtWork
<1> QED
  BY <1>4, <1>8, <1>9, FS_EmptySet DEF Counted, NoneActive

\* The parser takes a worker for active as long as it is at a job, once for the
\* inference and once for the execution, and for ever when the LLM call raised;
\* a queue thread stays active once between the two ends that it logs, and a crash
\* before the start leaves no trace in the counts.
THEOREM ActiveCounted == Spec => []ActiveMeansWorking
<1>1. Init => Counted
  BY CountedInit
<1>2. IInv /\ Counted /\ [Next]_vars => Counted'
  BY CountedStep DEF IInv
<1>3. Counted => ActiveMeansWorking
  BY DEF Counted, ActiveMeansWorking, Busy, Leaving
<1> QED
  BY <1>1, <1>2, <1>3, Invariance, PTL DEF Spec

-----------------------------------------------------------------------------
(* The time that the workers spend in their states. *)

\* The time after k events, the events of worker w among them, and the state that
\* the last one of them reported.
At(k) == IF k = 0 THEN 0 ELSE log[k].at
Seen(w, k) == {i \in Transitions(w) : i <= k}
StateAt(w, k) == IF Seen(w, k) = {} THEN "none" ELSE log[Max(Seen(w, k))].what

\* What the log would say of a state if it ended with event k.
LastsTo(k, i) ==
  LET next == {m \in Seen(log[i].worker, k) : m > i}
  IN (IF next = {} THEN At(k) ELSE log[Min(next)].at) - log[i].at
Visits(w, k, s) == {i \in Seen(w, k) : log[i].what = s}
TimeTo(w, k, s) == SumFunctionOnSet([i \in DOMAIN log |-> LastsTo(k, i)], Visits(w, k, s))
Gap(k) == At(k + 1) - At(k)

\* The log of a run.
LEMMA LogIs ==
  ASSUME LogTyped
  PROVE  /\ Len(log) \in Nat /\ DOMAIN log = 1 .. Len(log)
         /\ \A i \in 1 .. Len(log) :
              log[i].at \in Nat /\ log[i].worker \in Workers
         /\ \A i, k \in 1 .. Len(log) : i <= k => log[i].at <= log[k].at
         /\ \A k \in 0 .. Len(log) : At(k) \in Nat
         /\ \A k \in 0 .. Len(log), i \in 1 .. Len(log) : i <= k => log[i].at <= At(k)
         /\ \A k \in 0 .. Len(log) - 1 : Gap(k) \in Nat /\ At(k + 1) = At(k) + Gap(k)
         /\ EndTime = At(Len(log))
<1>1. log \in Seq(Entry) /\ Len(log) \in Nat /\ DOMAIN log = 1 .. Len(log)
  BY DEF LogTyped
<1>2. \A i \in 1 .. Len(log) : log[i].at \in Nat /\ log[i].worker \in Workers
  <2>1. \A i \in 1 .. Len(log) : log[i] \in Entry
    BY <1>1
  <2> QED
    BY <2>1 DEF Entry
<1>3. \A i, k \in 1 .. Len(log) : i <= k => log[i].at <= log[k].at
  BY <1>1 DEF LogTyped
<1>4. \A k \in 0 .. Len(log) : At(k) \in Nat
  BY <1>1, <1>2 DEF At
<1>5. \A k \in 0 .. Len(log), i \in 1 .. Len(log) : i <= k => log[i].at <= At(k)
  BY <1>1, <1>3 DEF At
<1>6. ASSUME NEW k \in 0 .. Len(log) - 1
      PROVE  Gap(k) \in Nat /\ At(k + 1) = At(k) + Gap(k)
  <2>1. k \in 0 .. Len(log) /\ k + 1 \in 0 .. Len(log) /\ k + 1 \in 1 .. Len(log)
    BY <1>1
  <2>2. At(k) \in Nat /\ At(k + 1) \in Nat
    BY <1>4, <2>1
  <2>3. At(k) <= At(k + 1)
    <3>1. CASE k = 0
      BY <2>2, <3>1 DEF At
    <3>2. CASE k # 0
      BY <1>1, <1>3, <2>1, <3>2 DEF At
    <3> QED
      BY <3>1, <3>2
  <2> QED
    BY <2>2, <2>3 DEF Gap
<1>7. EndTime = At(Len(log))
  BY <1>1 DEF EndTime, At, Last
<1> QED
  BY <1>1, <1>2, <1>3, <1>4, <1>5, <1>6, <1>7

\* The events of a worker that have been read.
LEMMA SeenIs ==
  ASSUME LogTyped, NEW w, NEW k \in 0 .. Len(log)
  PROVE  /\ Seen(w, k) \in SUBSET (1 .. k) /\ Seen(w, k) \in SUBSET (1 .. Len(log))
         /\ IsFiniteSet(Seen(w, k))
         /\ Seen(w, k) # {} => /\ Max(Seen(w, k)) \in Seen(w, k)
                               /\ \A i \in Seen(w, k) : i <= Max(Seen(w, k))
<1>1. k \in Nat /\ k <= Len(log) /\ DOMAIN log = 1 .. Len(log) /\ Len(log) \in Nat
  BY LogIs
<1>2. Seen(w, k) \in SUBSET (1 .. k) /\ Seen(w, k) \in SUBSET (1 .. Len(log))
  BY <1>1 DEF Seen, Transitions
<1>3. IsFiniteSet(Seen(w, k))
  <2>1. IsFiniteSet(1 .. k)
    BY <1>1, FS_Interval
  <2> QED
    BY <1>2, <2>1, FS_Subset
<1> QED
  BY <1>1, <1>2, <1>3, LastOf

LEMMA SeenNext ==
  ASSUME LogTyped, NEW w, NEW k \in 0 .. Len(log) - 1
  PROVE  Seen(w, k + 1) = IF log[k + 1].worker = w /\ log[k + 1].what \in States
                          THEN Seen(w, k) \cup {k + 1} ELSE Seen(w, k)
<1>1. Len(log) \in Nat /\ DOMAIN log = 1 .. Len(log) /\ k + 1 \in 1 .. Len(log) /\ k \in Nat
  BY LogIs
<1>2. \A i \in 1 .. Len(log) : i <= k + 1 <=> i <= k \/ i = k + 1
  BY <1>1
<1> QED
  BY <1>1, <1>2 DEF Seen, Transitions

\* A state lasts to the next event of the worker, or on.
LEMMA LastsNext ==
  ASSUME LogTyped, NEW w, NEW k \in 0 .. Len(log) - 1, NEW i \in Seen(w, k)
  PROVE  /\ LastsTo(k, i) \in Nat
         /\ LastsTo(k + 1, i) = LastsTo(k, i) + (IF i = Max(Seen(w, k)) THEN Gap(k) ELSE 0)
<1> DEFINE next(m) == {n \in Seen(w, m) : n > i}
<1>1. /\ Len(log) \in Nat /\ k \in 0 .. Len(log) /\ k + 1 \in 1 .. Len(log) /\ k \in Nat
      /\ i \in 1 .. k /\ i \in 1 .. Len(log) /\ i <= k
      /\ log[i].worker = w /\ log[i].at \in Nat
      /\ At(k) \in Nat /\ Gap(k) \in Nat /\ At(k + 1) = At(k) + Gap(k)
      /\ At(k + 1) = log[k + 1].at
      /\ log[i].at <= At(k)
  BY LogIs, SeenIs DEF Seen, Transitions, At
<1>2. \A m : LastsTo(m, i) = (IF next(m) = {} THEN At(m) ELSE log[Min(next(m))].at) - log[i].at
  BY <1>1 DEF LastsTo
<1>3. next(k) = {} <=> i = Max(Seen(w, k))
  <2>1. /\ \A n \in Seen(w, k) : n \in Nat /\ n <= Max(Seen(w, k))
        /\ Max(Seen(w, k)) \in Seen(w, k)
    BY <1>1, SeenIs
  <2>2. Max(Seen(w, k)) \in Nat /\ i <= Max(Seen(w, k)) /\ i \in Nat
    BY <2>1
  <2>3. ASSUME next(k) = {}
        PROVE  i = Max(Seen(w, k))
    <3>1. ~(Max(Seen(w, k)) > i)
      BY <2>1, <2>3
    <3> QED
      BY <2>2, <3>1
  <2>4. ASSUME i = Max(Seen(w, k))
        PROVE  next(k) = {}
    <3>1. \A n \in Seen(w, k) : ~(n > i)
      BY <2>1, <2>2, <2>4
    <3> QED
      BY <3>1
  <2> QED
    BY <2>3, <2>4
<1>4. next(k) # {} => /\ Min(next(k)) \in next(k) /\ \A y \in next(k) : Min(next(k)) <= y
                      /\ log[Min(next(k))].at \in Nat /\ log[i].at <= log[Min(next(k))].at
  <2> SUFFICES ASSUME next(k) # {}
               PROVE  /\ Min(next(k)) \in next(k) /\ \A y \in next(k) : Min(next(k)) <= y
                      /\ log[Min(next(k))].at \in Nat /\ log[i].at <= log[Min(next(k))].at
    OBVIOUS
  <2>1. next(k) \in SUBSET Nat
    BY <1>1, SeenIs
  <2>2. Min(next(k)) \in next(k) /\ \A y \in next(k) : Min(next(k)) <= y
    BY <2>1, FirstOf
  <2>3. Min(next(k)) \in 1 .. Len(log) /\ i <= Min(next(k))
    BY <1>1, <2>2, SeenIs
  <2> QED
    BY <1>1, <2>2, <2>3, LogIs
<1>5. LastsTo(k, i) \in Nat
  <2> HIDE DEF next
  <2> QED
    BY <1>1, <1>2, <1>4
<1>6. /\ k + 1 > i
      /\ next(k + 1) = IF log[k + 1].worker = w /\ log[k + 1].what \in States
                       THEN next(k) \cup {k + 1} ELSE next(k)
  <2>1. k + 1 > i
    BY <1>1
  <2>2. Seen(w, k + 1) = IF log[k + 1].worker = w /\ log[k + 1].what \in States
                         THEN Seen(w, k) \cup {k + 1} ELSE Seen(w, k)
    BY SeenNext
  <2> QED
    BY <2>1, <2>2
<1>7. CASE next(k) = {}
  <2>1. LastsTo(k + 1, i) = At(k + 1) - log[i].at
    <3>1. CASE next(k + 1) = {}
      BY <1>2, <3>1
    <3>2. CASE next(k + 1) # {}
      <4>1. next(k + 1) = {k + 1}
        BY <1>6, <1>7, <3>2
      <4>2. {k + 1} \in SUBSET Nat /\ {k + 1} # {}
        BY <1>1
      <4>3. Min(next(k + 1)) = k + 1
        BY <4>1, <4>2, FirstOf
      <4> HIDE DEF next
      <4> QED
        BY <1>1, <1>2, <3>2, <4>3
    <3> QED
      BY <3>1, <3>2
  <2> HIDE DEF next
  <2> QED
    BY <1>1, <1>2, <1>3, <1>5, <1>7, <2>1
<1>8. CASE next(k) # {}
  <2>1. next(k + 1) \in SUBSET Nat /\ next(k + 1) # {}
    BY <1>1, <1>6, <1>8, SeenIs
  <2>2. Min(next(k + 1)) = Min(next(k))
    <3>1. Min(next(k + 1)) \in next(k + 1) /\ \A y \in next(k + 1) : Min(next(k + 1)) <= y
      BY <2>1, FirstOf
    <3>2. next(k) \subseteq next(k + 1) /\ \A y \in next(k) : y \in Nat /\ y <= k
      BY <1>1, <1>6, SeenIs
    <3>3. \A y \in next(k + 1) : y \in next(k) \/ y = k + 1
      BY <1>6
    <3> DEFINE b == Min(next(k + 1))
               c == Min(next(k))
    <3>4. c \in next(k) /\ c \in Nat /\ b \in Nat /\ b <= c /\ c <= k
      BY <1>4, <1>8, <2>1, <3>1, <3>2
    <3>5. b \in next(k)
      BY <1>1, <3>1, <3>3, <3>4
    <3>6. c <= b
      BY <1>4, <1>8, <3>5
    <3> HIDE DEF b, c
    <3>7. b = c
      BY <3>4, <3>6
    <3> QED
      BY <3>7 DEF b, c
  <2> HIDE DEF next
  <2> QED
    BY <1>2, <1>3, <1>5, <1>8, <2>1, <2>2
<1> QED
  BY <1>5, <1>7, <1>8

LEMMA StateNext ==
  ASSUME LogTyped, NEW w, NEW k \in 0 .. Len(log) - 1
  PROVE  /\ StateAt(w, 0) = "none"
         /\ StateAt(w, k + 1) = IF log[k + 1].worker = w /\ log[k + 1].what \in States
                                THEN log[k + 1].what ELSE StateAt(w, k)
         /\ StateAt(w, k) \in States \cup {"none"}
         /\ StateAt(w, k) = "none" <=> Seen(w, k) = {}
<1>1. k \in 0 .. Len(log) /\ k \in Nat /\ Len(log) \in Nat /\ k + 1 \in 0 .. Len(log)
  BY LogIs
<1>2. StateAt(w, 0) = "none"
  <2>1. 0 \in 0 .. Len(log) /\ 1 .. 0 = {}
    BY <1>1
  <2>2. Seen(w, 0) = {}
    BY <2>1, SeenIs
  <2> QED
    BY <2>2 DEF StateAt
<1>3. ASSUME log[k + 1].worker = w /\ log[k + 1].what \in States
      PROVE  StateAt(w, k + 1) = log[k + 1].what
  <2>1. Seen(w, k + 1) = Seen(w, k) \cup {k + 1}
    BY <1>3, SeenNext
  <2>2. Max(Seen(w, k + 1)) \in Seen(w, k + 1) /\ k + 1 <= Max(Seen(w, k + 1))
    BY <1>1, <2>1, SeenIs
  <2>3. Max(Seen(w, k + 1)) \in 1 .. k + 1
    BY <1>1, <2>2, SeenIs
  <2>4. Max(Seen(w, k + 1)) = k + 1
    BY <1>1, <2>2, <2>3
  <2>5. Seen(w, k + 1) # {}
    BY <2>2
  <2>6. StateAt(w, k + 1) = log[Max(Seen(w, k + 1))].what
    BY <2>5 DEF StateAt
  <2> QED
    BY <1>3, <2>4, <2>6
<1>4. ASSUME ~(log[k + 1].worker = w /\ log[k + 1].what \in States)
      PROVE  StateAt(w, k + 1) = StateAt(w, k)
  <2>1. Seen(w, k + 1) = Seen(w, k)
    BY <1>4, SeenNext
  <2>2. StateAt(w, k + 1) = StateAt(w, k)
    BY <2>1 DEF StateAt
  <2> QED
    BY <1>4, <2>2
<1>5. Seen(w, k) # {} => log[Max(Seen(w, k))].what \in States
  <2>1. Seen(w, k) # {} => Max(Seen(w, k)) \in Seen(w, k)
    BY <1>1, SeenIs
  <2>2. \A i \in Seen(w, k) : log[i].what \in States
    BY DEF Seen, Transitions
  <2> QED
    BY <2>1, <2>2
<1> QED
  BY <1>2, <1>3, <1>4, <1>5 DEF StateAt, States

\* The time between two events goes to the state of the worker.
LEMMA TimeNext ==
  ASSUME LogTyped, NEW w, NEW s \in States, NEW k \in 0 .. Len(log) - 1
  PROVE  /\ TimeTo(w, k, s) \in Nat
         /\ TimeTo(w, k + 1, s) =
              TimeTo(w, k, s) + (IF StateAt(w, k) = s THEN Gap(k) ELSE 0)
<1> DEFINE f == [i \in DOMAIN log |-> LastsTo(k, i)]
           h == [i \in DOMAIN log |-> LastsTo(k + 1, i)]
           V == Visits(w, k, s)
           L == {Max(Seen(w, k))} \cap V
           d == [i \in V |-> IF i \in L THEN Gap(k) ELSE 0]
<1>1. /\ k \in 0 .. Len(log) /\ k + 1 \in 0 .. Len(log) /\ k + 1 \in 1 .. Len(log)
      /\ k \in Nat /\ Len(log) \in Nat
      /\ DOMAIN log = 1 .. Len(log) /\ Gap(k) \in Nat
  BY LogIs
<1>2. V \in SUBSET Seen(w, k) /\ IsFiniteSet(V) /\ V \in SUBSET (DOMAIN log)
  <2>1. V \in SUBSET Seen(w, k)
    BY DEF Visits
  <2>2. IsFiniteSet(Seen(w, k)) /\ Seen(w, k) \in SUBSET (1 .. Len(log))
    BY <1>1, SeenIs
  <2> QED
    BY <1>1, <2>1, <2>2, FS_Subset
<1>3. \A i \in V : f[i] \in Nat /\ d[i] \in Nat /\ h[i] = f[i] + d[i]
  <2> SUFFICES ASSUME NEW i \in V
               PROVE  f[i] \in Nat /\ d[i] \in Nat /\ h[i] = f[i] + d[i]
    OBVIOUS
  <2>1. i \in Seen(w, k) /\ i \in DOMAIN log
    BY <1>2
  <2>2. /\ LastsTo(k, i) \in Nat
        /\ LastsTo(k + 1, i) = LastsTo(k, i) + (IF i = Max(Seen(w, k)) THEN Gap(k) ELSE 0)
    BY <2>1, LastsNext
  <2>3. i \in L <=> i = Max(Seen(w, k))
    OBVIOUS
  <2> HIDE DEF V, L
  <2> QED
    BY <1>1, <2>1, <2>2, <2>3
<1>4. SumFunctionOnSet(f, V) \in Nat
  <2> HIDE DEF f, V
  <2> QED
    BY <1>2, <1>3, SumTyped
<1>5. SumFunctionOnSet(h, V) = SumFunctionOnSet(f, V) + SumFunctionOnSet(d, V)
  <2> HIDE DEF f, h, d, V
  <2> QED
    BY <1>2, <1>3, SumPlus
<1>6. SumFunctionOnSet(d, V) = IF StateAt(w, k) = s THEN Gap(k) ELSE 0
  <2>1. L \in SUBSET V /\ \A i \in V : d[i] = IF i \in L THEN Gap(k) ELSE 0
    OBVIOUS
  <2>2. SumFunctionOnSet(d, V) = Cardinality(L) * Gap(k)
    <3> HIDE DEF d, V, L
    <3> QED
      BY <1>1, <1>2, <2>1, SumCount
  <2>3. CASE StateAt(w, k) = s
    <3>1. Seen(w, k) # {} /\ log[Max(Seen(w, k))].what = s
      BY <2>3 DEF StateAt, States
    <3>2. L = {Max(Seen(w, k))}
      BY <1>1, <3>1, SeenIs DEF Visits
    <3>3. Cardinality(L) = 1
      BY <3>2, FS_Singleton
    <3> HIDE DEF d, V, L
    <3> QED
      BY <1>1, <2>2, <2>3, <3>3
  <2>4. CASE StateAt(w, k) # s
    <3>1. L = {}
      BY <2>4 DEF Visits, StateAt
    <3>2. Cardinality(L) = 0
      BY <3>1, FS_EmptySet
    <3> HIDE DEF d, V, L
    <3> QED
      BY <1>1, <2>2, <2>4, <3>2
  <2> QED
    BY <2>3, <2>4
\* The event itself adds nothing.
<1>7. SumFunctionOnSet(h, Visits(w, k + 1, s)) = SumFunctionOnSet(h, V)
  <2> DEFINE W == Visits(w, k + 1, s)
  <2>1. V \in SUBSET W /\ \A i \in W \ V : i = k + 1 /\ log[k + 1].worker = w
    BY SeenNext DEF Visits
  <2>2. \A i \in W \ V : h[i] = 0
    <3> SUFFICES ASSUME k + 1 \in W
                 PROVE  h[k + 1] = 0
      BY <2>1
    <3>1. log[k + 1].worker = w
      BY <1>1 DEF Visits, Seen, Transitions
    <3>2. {m \in Seen(w, k + 1) : m > k + 1} = {}
      BY <1>1, SeenIs
    <3>3. LastsTo(k + 1, k + 1) = At(k + 1) - log[k + 1].at
      BY <3>1, <3>2 DEF LastsTo
    <3>4. At(k + 1) = log[k + 1].at /\ log[k + 1].at \in Nat
      BY <1>1, LogIs DEF At
    <3> QED
      BY <1>1, <3>3, <3>4
  <2>3. IsFiniteSet(W)
    BY <1>1, SeenIs, FS_Subset DEF Visits
  <2>4. \A i \in V : h[i] \in Nat
    <3> HIDE DEF f, h, d, V
    <3> QED
      BY <1>3
  <2> HIDE DEF h, V, W
  <2>5. SumFunctionOnSet(h, W) = SumFunctionOnSet(h, V)
    BY <2>1, <2>2, <2>3, <2>4, SumPart
  <2> QED
    BY <2>5 DEF W
<1>8. TimeTo(w, k, s) = SumFunctionOnSet(f, V)
      /\ TimeTo(w, k + 1, s) = SumFunctionOnSet(h, Visits(w, k + 1, s))
  BY DEF TimeTo
<1> HIDE DEF f, h, d, V
<1> QED
  BY <1>4, <1>5, <1>6, <1>7, <1>8

LEMMA TimeTyped ==
  ASSUME LogTyped, NEW w, NEW s \in States
  PROVE  /\ TimeTo(w, 0, s) = 0
         /\ \A k \in 0 .. Len(log) : TimeTo(w, k, s) \in Nat
<1>1. Len(log) \in Nat /\ \A k \in 0 .. Len(log) - 1 : Gap(k) \in Nat
  BY LogIs
<1>2. TimeTo(w, 0, s) = 0
  <2>1. 0 \in 0 .. Len(log) /\ 1 .. 0 = {}
    BY <1>1
  <2>2. Visits(w, 0, s) = {}
    BY <2>1, SeenIs DEF Visits
  <2> QED
    BY <2>2, SumEmpty DEF TimeTo
<1>3. ASSUME NEW k \in 0 .. Len(log)
      PROVE  TimeTo(w, k, s) \in Nat
  <2>1. CASE k = 0
    BY <1>2, <2>1
  <2>2. CASE k # 0
    <3>1. k - 1 \in 0 .. Len(log) - 1 /\ (k - 1) + 1 = k
      BY <1>1, <2>2
    <3>2. /\ TimeTo(w, k - 1, s) \in Nat
          /\ TimeTo(w, k, s) = TimeTo(w, k - 1, s)
                               + (IF StateAt(w, k - 1) = s THEN Gap(k - 1) ELSE 0)
      BY <3>1, TimeNext
    <3> QED
      BY <1>1, <3>1, <3>2
  <2> QED
    BY <2>1, <2>2
<1> QED
  BY <1>2, <1>3

\* At the end of the log these are the times of the parser.
LEMMA TimeAtEnd ==
  ASSUME LogTyped, NEW w, NEW s \in States
  PROVE  /\ TimeTo(w, Len(log), s) = TimeIn(w, s)
         /\ Seen(w, Len(log)) = Transitions(w)
<1>1. Len(log) \in Nat /\ DOMAIN log = 1 .. Len(log) /\ EndTime = At(Len(log))
  BY LogIs
<1>2. \A v : Seen(v, Len(log)) = Transitions(v)
  BY <1>1 DEF Seen, Transitions
<1>3. ASSUME NEW i
      PROVE  LastsTo(Len(log), i) = Lasts(i)
  <2>1. {m \in Seen(log[i].worker, Len(log)) : m > i} =
          {m \in Transitions(log[i].worker) : m > i}
    BY <1>2
  <2> QED
    BY <1>1, <2>1 DEF LastsTo, Lasts
<1> DEFINE V == {k \in Transitions(w) : log[k].what = s}
           f == [i \in DOMAIN log |-> LastsTo(Len(log), i)]
           g == [i \in V |-> Lasts(i)]
<1>4. V = Visits(w, Len(log), s) /\ V \in SUBSET (DOMAIN log)
  BY <1>2 DEF Visits, Transitions
<1>5. IsFiniteSet(V) /\ \A i \in V : f[i] \in Nat
  <2>1. IsFiniteSet(1 .. Len(log))
    BY <1>1, FS_Interval
  <2>2. ASSUME NEW i \in V
        PROVE  f[i] \in Nat
    <3>1. /\ i \in 1 .. Len(log) /\ log[i].at \in Nat
          /\ \A n \in 1 .. Len(log) : i <= n => log[n].at \in Nat /\ log[i].at <= log[n].at
          /\ log[i].at <= At(Len(log)) /\ At(Len(log)) \in Nat
      BY <1>1, LogIs DEF Transitions
    <3> DEFINE next == {m \in Seen(log[i].worker, Len(log)) : m > i}
    <3>2. next \in SUBSET Nat /\ next \in SUBSET (1 .. Len(log)) /\ \A m \in next : i <= m
      BY <1>1, <3>1 DEF Seen, Transitions
    <3>3. next # {} => Min(next) \in next
      BY <3>2, FirstOf
    <3>4. f[i] = (IF next = {} THEN At(Len(log)) ELSE log[Min(next)].at) - log[i].at
      BY <1>1, <3>1 DEF LastsTo
    <3> HIDE DEF f, next
    <3>5. CASE next = {}
      BY <3>1, <3>4, <3>5
    <3>6. CASE next # {}
      <4>1. Min(next) \in 1 .. Len(log) /\ i <= Min(next)
        BY <3>2, <3>3, <3>6
      <4>2. log[Min(next)].at \in Nat /\ log[i].at <= log[Min(next)].at
        BY <3>1, <4>1
      <4> QED
        BY <3>1, <3>4, <3>6, <4>2
    <3> QED
      BY <3>5, <3>6
  <2> QED
    BY <1>1, <1>4, <2>1, <2>2, FS_Subset
<1>6. \A i \in V : f[i] = g[i]
  BY <1>3, <1>4
<1>7. TimeIn(w, s) = SumFunctionOnSet(g, V)
  BY DEF TimeIn, SumFunction, SumFunctionOnSet, FoldFunction, FoldFunctionOnSet
<1>8. TimeTo(w, Len(log), s) = SumFunctionOnSet(f, V)
  BY <1>4 DEF TimeTo
<1> HIDE DEF f, g, V
<1>9. SumFunctionOnSet(f, V) = SumFunctionOnSet(g, V)
  BY <1>5, <1>6, SumSame
<1> QED
  BY <1>2, <1>7, <1>8, <1>9

-----------------------------------------------------------------------------
(* The extractor and the analyzer of the swarm. *)

Entries == [state : States \cup {"none"}, last_ts : Nat, spent : [States -> Nat]]

\* The entry of worker w after k events: what is booked, and what is not booked
\* yet, is the time in each state.
Balanced(r, w, k) ==
  /\ r \in Entries /\ r.state = StateAt(w, k) /\ r.last_ts <= At(k)
  /\ \A s \in States :
       r.spent[s] + (IF r.state = s THEN At(k) - r.last_ts ELSE 0) = TimeTo(w, k, s)

LEMMA BookEffect ==
  ASSUME NEW r \in Entries, NEW at \in Nat, r.last_ts <= at
  PROVE  /\ Book(r, at) \in Entries
         /\ Book(r, at).state = r.state /\ Book(r, at).last_ts = r.last_ts
         /\ \A s \in States :
              Book(r, at).spent[s] =
                r.spent[s] + (IF r.state = s THEN at - r.last_ts ELSE 0)
<1>1. /\ r.state \in States \cup {"none"} /\ r.last_ts \in Nat /\ at - r.last_ts \in Nat
      /\ r.spent \in [States -> Nat]
  BY DEF Entries
<1>2. CASE r.state = "none"
  <2>1. Book(r, at) = r /\ "none" \notin States
    BY <1>2 DEF Book, States
  <2> QED
    BY <1>1, <1>2, <2>1
<1>3. CASE r.state # "none"
  <2> DEFINE d == at - r.last_ts
             p == [r.spent EXCEPT ![r.state] = @ + d]
  <2>1. Book(r, at) = [r EXCEPT !.spent = p]
    BY <1>3 DEF Book, Entries
  <2>2. r.state \in States
    BY <1>1, <1>3
  <2>3. p \in [States -> Nat]
    BY <1>1, <2>2
  <2>4. \A s \in States : p[s] = r.spent[s] + (IF r.state = s THEN d ELSE 0)
    BY <1>1, <2>2
  <2> HIDE DEF p
  <2> QED
    BY <2>1, <2>3, <2>4 DEF Entries
<1> QED
  BY <1>2, <1>3

\* An event leaves the entries balanced.
LEMMA ExtractStep ==
  ASSUME LogTyped, NEW k \in 0 .. Len(log) - 1, NEW r \in [Workers -> Entries],
         \A w \in Workers : Balanced(r[w], w, k)
  PROVE  /\ Extract(r, log[k + 1]) \in [Workers -> Entries]
         /\ \A w \in Workers : Balanced(Extract(r, log[k + 1])[w], w, k + 1)
<1> DEFINE e == log[k + 1]
           q == Extract(r, e)
           u == e.worker
<1>1. /\ u \in Workers /\ e.at \in Nat /\ At(k + 1) = e.at
      /\ At(k) \in Nat /\ Gap(k) \in Nat /\ At(k + 1) = At(k) + Gap(k)
      /\ k \in Nat /\ Len(log) \in Nat /\ k + 1 \in 1 .. Len(log)
  BY LogIs DEF At
<1> HIDE DEF e
\* The time of a worker that reports nothing goes on.
<1>2. ASSUME NEW w \in Workers, ~(u = w /\ e.what \in States)
      PROVE  Balanced(r[w], w, k + 1)
  <2>1. Balanced(r[w], w, k)
    OBVIOUS
  <2>2. StateAt(w, k + 1) = StateAt(w, k)
    BY <1>2, StateNext DEF e
  <2>3. ASSUME NEW s \in States
        PROVE  r[w].spent[s] + (IF r[w].state = s THEN At(k + 1) - r[w].last_ts ELSE 0)
                 = TimeTo(w, k + 1, s)
    <3>1. /\ r[w].spent[s] \in Nat /\ r[w].last_ts \in Nat /\ r[w].state = StateAt(w, k)
          /\ r[w].spent[s] + (IF r[w].state = s THEN At(k) - r[w].last_ts ELSE 0)
               = TimeTo(w, k, s)
      BY <2>1 DEF Balanced, Entries
    <3>2. TimeTo(w, k + 1, s) = TimeTo(w, k, s) + (IF StateAt(w, k) = s THEN Gap(k) ELSE 0)
      BY TimeNext
    <3> QED
      BY <1>1, <3>1, <3>2
  <2>4. r[w].last_ts <= At(k + 1)
    BY <1>1, <2>1 DEF Balanced, Entries
  <2> QED
    BY <2>1, <2>2, <2>3, <2>4 DEF Balanced
<1>3. CASE e.what \notin States
  <2>1. q = r
    BY <1>3 DEF Extract
  <2> QED
    BY <1>2, <1>3, <2>1 DEF e
<1>4. CASE e.what \in States
  <2> DEFINE b == Book(r[u], e.at)
             n == Enter(b, e)
  <2>1. q = [r EXCEPT ![u] = n]
    BY <1>4 DEF Extract
  <2>2. r[u] \in Entries /\ Balanced(r[u], u, k)
    BY <1>1
  <2>3. r[u].last_ts \in Nat /\ r[u].last_ts <= At(k) /\ r[u].last_ts <= e.at
    BY <1>1, <2>2 DEF Balanced, Entries
  <2>4. /\ b \in Entries /\ b.state = r[u].state
        /\ \A s \in States :
             b.spent[s] = r[u].spent[s] + (IF r[u].state = s THEN e.at - r[u].last_ts ELSE 0)
    BY <1>1, <2>2, <2>3, BookEffect
  <2>5. n \in Entries /\ n.state = e.what /\ n.last_ts = e.at /\ n.spent = b.spent
    <3> HIDE DEF b
    <3> QED
      BY <1>1, <1>4, <2>4 DEF Enter, Entries
  <2>6. StateAt(u, k + 1) = e.what
    BY <1>4, StateNext DEF e
  <2>7. ASSUME NEW s \in States
        PROVE  n.spent[s] + (IF n.state = s THEN At(k + 1) - n.last_ts ELSE 0)
                 = TimeTo(u, k + 1, s)
    <3>1. /\ r[u].spent[s] \in Nat /\ r[u].state = StateAt(u, k)
          /\ r[u].spent[s] + (IF r[u].state = s THEN At(k) - r[u].last_ts ELSE 0)
               = TimeTo(u, k, s)
      BY <2>2 DEF Balanced, Entries
    <3>2. TimeTo(u, k + 1, s) = TimeTo(u, k, s) + (IF StateAt(u, k) = s THEN Gap(k) ELSE 0)
      BY <1>1, TimeNext
    <3>3. n.spent[s] = r[u].spent[s] + (IF r[u].state = s THEN e.at - r[u].last_ts ELSE 0)
      BY <2>4, <2>5
    <3>4. At(k + 1) - n.last_ts = 0
      BY <1>1, <2>5
    <3> HIDE DEF n, b, u
    <3> QED
      BY <1>1, <2>3, <3>1, <3>2, <3>3, <3>4
  <2>8. Balanced(n, u, k + 1)
    <3>1. n.last_ts <= At(k + 1)
      BY <1>1, <2>5
    <3> HIDE DEF n, b, u
    <3> QED
      BY <2>5, <2>6, <2>7, <3>1 DEF Balanced
  <2> HIDE DEF n
  <2>9. q \in [Workers -> Entries]
    BY <1>1, <2>1, <2>5
  <2>10. \A w \in Workers : q[w] = IF w = u THEN n ELSE r[w]
    BY <1>1, <2>1
  <2> HIDE DEF q
  <2> QED
    BY <1>2, <2>8, <2>9, <2>10 DEF q, e
<1> QED
  BY <1>3, <1>4

\* What the extractor books is what the parser adds up.
LEMMA Extracted ==
  ASSUME LogTyped, NEW w \in Workers, NEW s \in States
  PROVE  worker_states[w].spent[s] = TimeIn(w, s)
<1>1. /\ Len(log) \in Nat /\ log \in Seq(Entry) /\ EndTime = At(Len(log))
      /\ At(0) = 0 /\ At(Len(log)) \in Nat
  BY LogIs DEF LogTyped, At
<1> DEFINE base == [v \in Workers |-> Unseen]
<1>2. PICK a : ExtractRuns(a, log) /\ ReadThrough(Extract, base, log) = a[Len(log)]
  BY <1>1, ExtractRun
<1> DEFINE Good(k) == /\ a[k] \in [Workers -> Entries]
                      /\ \A v \in Workers : Balanced(a[k][v], v, k)
           G == {k \in Nat : k <= Len(log) => Good(k)}
<1>3. 0 \in G
  <2>1. a[0] = base
    BY <1>2 DEF ExtractRuns
  <2>2. Unseen \in Entries /\ Unseen.state = "none" /\ Unseen.last_ts = 0
        /\ \A x \in States : Unseen.spent[x] = 0
    BY DEF Unseen, Entries
  <2>3. ASSUME NEW v \in Workers
        PROVE  Balanced(Unseen, v, 0)
    <3>1. StateAt(v, 0) = "none"
      <4>1. 0 \in 0 .. Len(log) /\ 1 .. 0 = {}
        BY <1>1
      <4>2. Seen(v, 0) = {}
        BY <4>1, SeenIs
      <4> QED
        BY <4>2 DEF StateAt
    <3>2. \A x \in States : TimeTo(v, 0, x) = 0 /\ x # "none"
      BY TimeTyped DEF States
    <3> QED
      BY <1>1, <2>2, <3>1, <3>2 DEF Balanced
  <2> QED
    BY <2>1, <2>2, <2>3
<1>4. ASSUME NEW k \in G
      PROVE  k + 1 \in G
  <2> SUFFICES ASSUME k + 1 <= Len(log)
               PROVE  Good(k + 1)
    OBVIOUS
  <2>1. k \in 0 .. Len(log) - 1 /\ Good(k) /\ k + 1 \in 1 .. Len(log) /\ (k + 1) - 1 = k
    BY <1>1
  <2>2. a[k + 1] = Extract(a[k], log[k + 1])
    BY <1>2, <2>1 DEF ExtractRuns
  <2>3. /\ Extract(a[k], log[k + 1]) \in [Workers -> Entries]
        /\ \A v \in Workers : Balanced(Extract(a[k], log[k + 1])[v], v, k + 1)
    BY <2>1, ExtractStep
  <2> QED
    BY <2>2, <2>3
<1> HIDE DEF G
<1>5. G = Nat
  <2>1. G \in SUBSET Nat
    BY DEF G
  <2> QED
    BY <1>3, <1>4, <2>1, AllNumbers
<1>6. Good(Len(log))
  <2>1. Len(log) \in G /\ Len(log) <= Len(log)
    BY <1>1, <1>5
  <2> HIDE DEF Good
  <2> QED
    BY <2>1 DEF G
<1>7. worker_states[w] = Book(a[Len(log)][w], EndTime)
  BY <1>2 DEF worker_states
<1> DEFINE r == a[Len(log)][w]
<1>8. r \in Entries /\ Balanced(r, w, Len(log)) /\ r.last_ts <= At(Len(log))
  BY <1>6 DEF Balanced
<1>9. worker_states[w].spent[s] =
        r.spent[s] + (IF r.state = s THEN EndTime - r.last_ts ELSE 0)
  BY <1>1, <1>7, <1>8, BookEffect
<1>10. r.spent[s] + (IF r.state = s THEN At(Len(log)) - r.last_ts ELSE 0)
         = TimeTo(w, Len(log), s)
  BY <1>8 DEF Balanced
<1> QED
  BY <1>1, <1>9, <1>10, TimeAtEnd

LEMMA WorkersFinite ==
  ASSUME TypeOK
  PROVE  IsFiniteSet(Workers)
<1> DEFINE f == [j \in JobIds |-> Job(j).worker]
<1>1. IsFiniteSet(JobIds)
  BY JobsTyped, FS_Interval
<1>2. f \in Surjection(JobIds, {Job(j).worker : j \in JobIds})
  BY DEF Surjection
<1> DEFINE g == [t \in scenario.late |-> t[2]]
<1>3. g \in Surjection(scenario.late, {t[2] : t \in scenario.late})
  BY DEF Surjection
<1>4. IsFiniteSet(scenario.late)
  BY ConstantsAssumption DEF TypeOK
<1> HIDE DEF f, g
<1>5. IsFiniteSet({Job(j).worker : j \in JobIds}) /\ IsFiniteSet({t[2] : t \in scenario.late})
  BY <1>1, <1>2, <1>3, <1>4, FS_Surjection
<1> QED
  BY <1>5, FS_Union DEF Workers

\* The workers that are busy after k events, and the time that any was.
BusyAt(k) == {w \in Workers : StateAt(w, k) = "busy"}
BusyTo(k) == SumFunctionOnSet([w \in Workers |-> TimeTo(w, k, "busy")], Workers)

LEMMA BusyNext ==
  ASSUME TypeOK, LogTyped, NEW k \in 0 .. Len(log) - 1
  PROVE  /\ BusyTo(k) \in Nat /\ Cardinality(BusyAt(k)) \in Nat
         /\ BusyTo(k + 1) = BusyTo(k) + Cardinality(BusyAt(k)) * Gap(k)
<1> DEFINE f == [w \in Workers |-> TimeTo(w, k, "busy")]
           h == [w \in Workers |-> TimeTo(w, k + 1, "busy")]
           B == BusyAt(k)
           d == [w \in Workers |-> IF w \in B THEN Gap(k) ELSE 0]
<1>1. IsFiniteSet(Workers) /\ Gap(k) \in Nat /\ B \in SUBSET Workers /\ IsFiniteSet(B)
  BY WorkersFinite, LogIs, FS_Subset DEF BusyAt
<1>2. \A w \in Workers : f[w] \in Nat /\ d[w] \in Nat /\ h[w] = f[w] + d[w]
  <2> SUFFICES ASSUME NEW w \in Workers
               PROVE  f[w] \in Nat /\ d[w] \in Nat /\ h[w] = f[w] + d[w]
    OBVIOUS
  <2>1. "busy" \in States
    BY DEF States
  <2>2. /\ TimeTo(w, k, "busy") \in Nat
        /\ TimeTo(w, k + 1, "busy") =
             TimeTo(w, k, "busy") + (IF StateAt(w, k) = "busy" THEN Gap(k) ELSE 0)
    BY <2>1, TimeNext
  <2>3. w \in B <=> StateAt(w, k) = "busy"
    BY DEF BusyAt
  <2> HIDE DEF B
  <2> QED
    BY <1>1, <2>2, <2>3
<1>3. \A w \in Workers : d[w] = IF w \in B THEN Gap(k) ELSE 0
  OBVIOUS
<1> HIDE DEF f, h, d, B
<1>4. SumFunctionOnSet(f, Workers) \in Nat
  BY <1>1, <1>2, SumTyped
<1>5. SumFunctionOnSet(h, Workers) =
        SumFunctionOnSet(f, Workers) + SumFunctionOnSet(d, Workers)
  BY <1>1, <1>2, SumPlus
<1>6. SumFunctionOnSet(d, Workers) = Cardinality(B) * Gap(k)
  BY <1>1, <1>3, SumCount
<1>7. Cardinality(B) \in Nat
  BY <1>1, FS_CardinalityType
<1> QED
  BY <1>4, <1>5, <1>6, <1>7 DEF BusyTo, f, h, B

Agents == [busy_agents : SUBSET Workers, last_ts : Nat, weighted : Nat]

\* What is booked, and what is not booked yet, is the time of the busy workers.
Watched(r, k) ==
  /\ r \in Agents /\ r.busy_agents = BusyAt(k) /\ r.last_ts <= At(k)
  /\ r.weighted + Cardinality(BusyAt(k)) * (At(k) - r.last_ts) = BusyTo(k)

LEMMA Spread ==
  ASSUME NEW a \in Int, NEW b \in Int, NEW c \in Int
  PROVE  a * (b + c) = a * b + a * c
OBVIOUS

LEMMA FollowStep ==
  ASSUME TypeOK, LogTyped, NEW k \in 0 .. Len(log) - 1, NEW r, Watched(r, k)
  PROVE  Watched(Follow(r, log[k + 1]), k + 1)
<1> DEFINE e == log[k + 1]
           q == Follow(r, e)
           c == Cardinality(BusyAt(k))
           t == r.last_ts
<1>1. /\ e.worker \in Workers /\ e.at \in Nat /\ At(k + 1) = e.at
      /\ At(k) \in Nat /\ Gap(k) \in Nat /\ At(k + 1) = At(k) + Gap(k)
      /\ k \in Nat /\ Len(log) \in Nat /\ k + 1 \in 1 .. Len(log)
  BY LogIs DEF At
<1>2. /\ BusyTo(k) \in Nat /\ c \in Nat
      /\ BusyTo(k + 1) = BusyTo(k) + c * Gap(k)
  BY BusyNext
<1>3. /\ r \in Agents /\ r.busy_agents = BusyAt(k) /\ t \in Nat /\ t <= At(k)
      /\ r.weighted \in Nat /\ r.weighted + c * (At(k) - t) = BusyTo(k)
  BY DEF Watched, Agents
<1>4. \A w \in Workers : StateAt(w, k + 1) = IF e.worker = w /\ e.what \in States
                                             THEN e.what ELSE StateAt(w, k)
  BY StateNext
<1> HIDE DEF e, c
\* Whether it is booked or not, the time up to the event is counted.
<1>5. r.weighted + c * (At(k + 1) - t) = BusyTo(k + 1)
  <2>1. At(k + 1) - t = (At(k) - t) + Gap(k) /\ At(k) - t \in Int /\ Gap(k) \in Int /\ c \in Int
    BY <1>1, <1>2, <1>3
  <2>2. c * (At(k + 1) - t) = c * (At(k) - t) + c * Gap(k)
    BY <2>1, Spread
  <2>3. c * (At(k) - t) \in Int /\ c * Gap(k) \in Int
    BY <2>1
  <2> QED
    BY <1>2, <1>3, <2>2, <2>3
<1>6. CASE e.what \notin States
  <2>1. q = r
    BY <1>6 DEF Follow
  <2>2. BusyAt(k + 1) = BusyAt(k)
    BY <1>4, <1>6 DEF BusyAt
  <2>3. t <= At(k + 1)
    BY <1>1, <1>3
  <2> QED
    BY <1>3, <1>5, <2>1, <2>2, <2>3 DEF Watched, e, c
<1>7. CASE e.what \in States
  <2>1. /\ q = [Spend(r, e.at) EXCEPT !.busy_agents =
                  IF e.what = "busy" THEN @ \cup {e.worker} ELSE @ \ {e.worker}]
        /\ Spend(r, e.at) = [r EXCEPT !.weighted = @ + Cardinality(r.busy_agents) * (e.at - t),
                                      !.last_ts = e.at]
    BY <1>7 DEF Follow, Spend
  <2>2. /\ r.busy_agents \in SUBSET Workers
        /\ r = [busy_agents |-> BusyAt(k), last_ts |-> t, weighted |-> r.weighted]
    BY <1>3 DEF Agents
  <2> DEFINE N == r.weighted + c * (e.at - t)
             M == IF e.what = "busy" THEN BusyAt(k) \cup {e.worker} ELSE BusyAt(k) \ {e.worker}
  <2>3. q = [busy_agents |-> M, last_ts |-> e.at, weighted |-> N]
    BY <1>3, <2>1, <2>2 DEF c
  <2>4. M = BusyAt(k + 1)
    BY <1>1, <1>4, <1>7 DEF BusyAt
  <2>5. N = BusyTo(k + 1) /\ N \in Nat
    <3>1. N = BusyTo(k + 1)
      BY <1>1, <1>5
    <3>2. c * Gap(k) \in Nat
      BY <1>1, <1>2
    <3> QED
      BY <1>2, <3>1, <3>2
  <2>6. M \in SUBSET Workers
    BY <2>4 DEF BusyAt
  <2> DEFINE C == Cardinality(BusyAt(k + 1))
  <2>7. C * (At(k + 1) - e.at) = 0
    <3>1. BusyAt(k + 1) \in SUBSET Workers
      BY DEF BusyAt
    <3>2. C \in Nat
      BY <3>1, WorkersFinite, FS_Subset, FS_CardinalityType
    <3>3. At(k + 1) - e.at = 0
      BY <1>1
    <3> HIDE DEF C
    <3> QED
      BY <3>2, <3>3
  <2> HIDE DEF M, N, q
  <2>8. q \in Agents /\ q.busy_agents = M /\ q.last_ts = e.at /\ q.weighted = N
    BY <1>1, <2>3, <2>5, <2>6 DEF Agents
  <2>9. Watched(q, k + 1)
    <3>1. q.last_ts <= At(k + 1)
      BY <1>1, <2>8
    <3>2. q.weighted + C * (At(k + 1) - q.last_ts) = BusyTo(k + 1)
      <4> HIDE DEF C
      <4> QED
        BY <2>5, <2>7, <2>8
    <3> QED
      BY <2>4, <2>8, <3>1, <3>2 DEF Watched
  <2> QED
    BY <2>9 DEF q, e
<1> QED
  BY <1>6, <1>7

\* What the analyzer of the swarm books is what the parser adds up.
LEMMA Followed ==
  ASSUME TypeOK, LogTyped
  PROVE  busy_distribution.weighted = BusyTo(Len(log))
<1>1. /\ Len(log) \in Nat /\ log \in Seq(Entry) /\ EndTime = At(Len(log)) /\ At(0) = 0
  BY LogIs DEF LogTyped, At
<1>2. PICK a : FollowRuns(a, log) /\ ReadThrough(Follow, NoAgents, log) = a[Len(log)]
  BY <1>1, FollowRun
<1> DEFINE G == {k \in Nat : k <= Len(log) => Watched(a[k], k)}
<1>3. 0 \in G
  <2>1. a[0] = NoAgents /\ NoAgents \in Agents
    BY <1>2 DEF FollowRuns, NoAgents, Agents
  <2>2. BusyAt(0) = {}
    <3>1. 0 \in 0 .. Len(log) /\ 1 .. 0 = {}
      BY <1>1
    <3>2. \A w : Seen(w, 0) = {}
      BY <3>1, SeenIs
    <3> QED
      BY <3>2 DEF BusyAt, StateAt
  <2>3. BusyTo(0) = 0
    <3> DEFINE f == [w \in Workers |-> TimeTo(w, 0, "busy")]
    <3>1. \A w \in Workers : f[w] = 0
      BY TimeTyped DEF States
    <3> HIDE DEF f
    <3>2. SumFunctionOnSet(f, Workers) = SumFunctionOnSet(f, {})
      BY <3>1, WorkersFinite, SumPart
    <3> QED
      BY <3>2, SumEmpty DEF BusyTo, f
  <2>4. Cardinality({}) = 0
    BY FS_EmptySet
  <2>5. /\ NoAgents.busy_agents = {} /\ NoAgents.last_ts = 0 /\ NoAgents.weighted = 0
        /\ NoAgents.last_ts <= At(0)
    BY <1>1 DEF NoAgents
  <2>6. 0 + Cardinality({}) * (At(0) - 0) = 0
    BY <1>1, <2>4
  <2>7. Watched(NoAgents, 0)
    BY <2>1, <2>2, <2>3, <2>5, <2>6 DEF Watched
  <2> QED
    BY <2>1, <2>7
<1>4. ASSUME NEW k \in G
      PROVE  k + 1 \in G
  <2> SUFFICES ASSUME k + 1 <= Len(log)
               PROVE  Watched(a[k + 1], k + 1)
    OBVIOUS
  <2>1. k \in 0 .. Len(log) - 1 /\ Watched(a[k], k) /\ k + 1 \in 1 .. Len(log) /\ (k + 1) - 1 = k
    BY <1>1
  <2>2. a[k + 1] = Follow(a[k], log[k + 1])
    BY <1>2, <2>1 DEF FollowRuns
  <2> QED
    BY <2>1, <2>2, FollowStep
<1> HIDE DEF G
<1>5. G = Nat
  <2>1. G \in SUBSET Nat
    BY DEF G
  <2> QED
    BY <1>3, <1>4, <2>1, AllNumbers
<1> DEFINE r == a[Len(log)]
<1>6. Watched(r, Len(log))
  <2>1. Len(log) \in G /\ Len(log) <= Len(log)
    BY <1>1, <1>5
  <2> QED
    BY <2>1 DEF G
<1>7. busy_distribution = Spend(r, EndTime)
  BY <1>2 DEF busy_distribution
<1> HIDE DEF r
<1>8. busy_distribution.weighted =
        r.weighted + Cardinality(r.busy_agents) * (EndTime - r.last_ts)
  BY <1>6, <1>7 DEF Spend, Watched, Agents
<1> QED
  BY <1>1, <1>6, <1>8 DEF Watched

\* The states share out the time of a worker from its first event.
LEMMA Shared ==
  ASSUME LogTyped, NEW w, NEW k \in 0 .. Len(log)
  PROVE  TimeTo(w, k, "busy") + TimeTo(w, k, "idle") + TimeTo(w, k, "blocked") =
           IF Seen(w, k) = {} THEN 0 ELSE At(k) - log[Min(Transitions(w))].at
<1>1. /\ Len(log) \in Nat /\ DOMAIN log = 1 .. Len(log) /\ At(0) = 0
  BY LogIs DEF At
<1>2. "busy" \in States /\ "idle" \in States /\ "blocked" \in States
  BY DEF States
<1> DEFINE All(m) == TimeTo(w, m, "busy") + TimeTo(w, m, "idle") + TimeTo(w, m, "blocked")
           Good(m) == All(m) = IF Seen(w, m) = {} THEN 0
                               ELSE At(m) - log[Min(Transitions(w))].at
           G == {m \in Nat : m <= Len(log) => Good(m)}
<1>3. 0 \in G
  <2>1. Seen(w, 0) = {}
    <3>1. 0 \in 0 .. Len(log) /\ 1 .. 0 = {}
      BY <1>1
    <3> QED
      BY <3>1, SeenIs
  <2>2. All(0) = 0
    BY <1>2, TimeTyped
  <2> QED
    BY <2>1, <2>2
<1>4. ASSUME NEW m \in G
      PROVE  m + 1 \in G
  <2> SUFFICES ASSUME m + 1 <= Len(log)
               PROVE  Good(m + 1)
    OBVIOUS
  <2> DEFINE first == Min(Transitions(w))
  <2>1. m \in 0 .. Len(log) - 1 /\ Good(m) /\ m + 1 \in 1 .. Len(log) /\ m \in 0 .. Len(log)
        /\ m \in Nat
    BY <1>1
  <2>2. /\ At(m) \in Nat /\ Gap(m) \in Nat /\ At(m + 1) = At(m) + Gap(m)
        /\ At(m + 1) = log[m + 1].at
    BY <2>1, LogIs DEF At
  <2>3. \A s \in States :
          /\ TimeTo(w, m, s) \in Nat
          /\ TimeTo(w, m + 1, s) =
               TimeTo(w, m, s) + (IF StateAt(w, m) = s THEN Gap(m) ELSE 0)
    BY <2>1, TimeNext
  <2>4. /\ StateAt(w, m) \in States \cup {"none"}
        /\ StateAt(w, m) = "none" <=> Seen(w, m) = {}
    BY <2>1, StateNext
  <2>5. All(m + 1) = All(m) + (IF Seen(w, m) = {} THEN 0 ELSE Gap(m)) /\ All(m) \in Nat
    <3>1. /\ TimeTo(w, m, "busy") \in Nat /\ TimeTo(w, m, "idle") \in Nat
          /\ TimeTo(w, m, "blocked") \in Nat
          /\ TimeTo(w, m + 1, "busy") =
               TimeTo(w, m, "busy") + (IF StateAt(w, m) = "busy" THEN Gap(m) ELSE 0)
          /\ TimeTo(w, m + 1, "idle") =
               TimeTo(w, m, "idle") + (IF StateAt(w, m) = "idle" THEN Gap(m) ELSE 0)
          /\ TimeTo(w, m + 1, "blocked") =
               TimeTo(w, m, "blocked") + (IF StateAt(w, m) = "blocked" THEN Gap(m) ELSE 0)
      BY <1>2, <2>3
    <3>2. CASE StateAt(w, m) = "none"
      BY <2>2, <2>4, <3>1, <3>2
    <3>3. CASE StateAt(w, m) = "busy"
      BY <2>2, <2>4, <3>1, <3>3
    <3>4. CASE StateAt(w, m) = "idle"
      BY <2>2, <2>4, <3>1, <3>4
    <3>5. CASE StateAt(w, m) = "blocked"
      BY <2>2, <2>4, <3>1, <3>5
    <3> QED
      BY <2>4, <3>2, <3>3, <3>4, <3>5 DEF States
  <2>6. Seen(w, m + 1) = IF log[m + 1].worker = w /\ log[m + 1].what \in States
                         THEN Seen(w, m) \cup {m + 1} ELSE Seen(w, m)
    BY <2>1, SeenNext
  <2> HIDE DEF All
  <2>7. CASE Seen(w, m) # {}
    <3>1. Seen(w, m + 1) # {}
      BY <2>6, <2>7
    <3>2. first \in Transitions(w) /\ log[first].at \in Nat
      <4>1. Transitions(w) # {} /\ Transitions(w) \in SUBSET Nat
        BY <1>1, <2>7 DEF Seen, Transitions
      <4>2. first \in Transitions(w)
        BY <4>1, FirstOf
      <4> QED
        BY <1>1, <4>2, LogIs DEF Transitions
    <3> HIDE DEF first
    <3>3. All(m) = At(m) - log[first].at
      BY <2>1, <2>7 DEF first
    <3>4. All(m + 1) = At(m + 1) - log[first].at
      BY <2>2, <2>5, <2>7, <3>2, <3>3
    <3> QED
      BY <3>1, <3>4 DEF first
  <2>8. CASE Seen(w, m) = {}
    <3>1. All(m + 1) = 0
      BY <2>1, <2>5, <2>8
    <3>2. CASE Seen(w, m + 1) = {}
      BY <3>1, <3>2
    <3>3. CASE Seen(w, m + 1) # {}
      <4>1. m + 1 \in Transitions(w)
        BY <2>6, <2>8, <3>3 DEF Seen
      <4>2. \A i \in Transitions(w) : i \in Nat /\ ~(i <= m)
        BY <1>1, <2>8 DEF Seen, Transitions
      <4>3. first \in Transitions(w) /\ first <= m + 1
        <5>1. Transitions(w) # {} /\ Transitions(w) \in SUBSET Nat
          BY <4>1, <4>2
        <5> QED
          BY <4>1, <5>1, FirstOf
      <4>4. first = m + 1
        BY <2>1, <4>2, <4>3
      <4> HIDE DEF first
      <4>5. At(m + 1) - log[first].at = 0
        BY <2>2, <4>4
      <4> QED
        BY <3>1, <3>3, <4>5 DEF first
    <3> QED
      BY <3>2, <3>3
  <2> QED
    BY <2>7, <2>8
<1> HIDE DEF G
<1>5. G = Nat
  <2>1. G \in SUBSET Nat
    BY DEF G
  <2> QED
    BY <1>3, <1>4, <2>1, AllNumbers
<1>6. k \in G /\ k <= Len(log)
  BY <1>1, <1>5
<1> QED
  BY <1>6 DEF G

\* A sum over the three states.
LEMMA ThreeStates ==
  ASSUME NEW f, \A s \in States : f[s] \in Nat
  PROVE  SumFunctionOnSet(f, States) = f["busy"] + f["idle"] + f["blocked"]
<1>1. f["busy"] \in Nat /\ f["idle"] \in Nat /\ f["blocked"] \in Nat
  BY DEF States
<1>2. IsFiniteSet({}) /\ IsFiniteSet({"busy"}) /\ IsFiniteSet({"busy", "idle"})
  <2>1. {} \cup {"busy"} = {"busy"} /\ {"busy"} \cup {"idle"} = {"busy", "idle"}
    OBVIOUS
  <2> QED
    BY <2>1, FS_EmptySet, FS_AddElement
<1>3. SumFunctionOnSet(f, {} \cup {"busy"}) = f["busy"] + SumFunctionOnSet(f, {})
  BY <1>1, <1>2, SumAdd
<1>4. SumFunctionOnSet(f, {"busy"} \cup {"idle"}) =
        f["idle"] + SumFunctionOnSet(f, {"busy"})
  BY <1>1, <1>2, SumAdd
<1>5. SumFunctionOnSet(f, {"busy", "idle"} \cup {"blocked"}) =
        f["blocked"] + SumFunctionOnSet(f, {"busy", "idle"})
  BY <1>1, <1>2, SumAdd
<1>6. /\ {} \cup {"busy"} = {"busy"} /\ {"busy"} \cup {"idle"} = {"busy", "idle"}
      /\ {"busy", "idle"} \cup {"blocked"} = States
  BY DEF States
<1>7. SumFunctionOnSet(f, {"busy"}) = f["busy"]
  BY <1>1, <1>3, <1>6, SumEmpty
<1>8. SumFunctionOnSet(f, {"busy", "idle"}) = f["idle"] + f["busy"]
  BY <1>4, <1>6, <1>7
<1>9. SumFunctionOnSet(f, States) = f["blocked"] + (f["idle"] + f["busy"])
  BY <1>5, <1>6, <1>8
<1> QED
  BY <1>1, <1>9

\* The tools agree on every log in the order of time.
LEMMA Agreed ==
  ASSUME TypeOK, LogTyped
  PROVE  ToolsAgree
<1> DEFINE N == Len(log)
           Part(s) == [w \in Workers |-> TimeIn(w, s)]
           Whole == [w \in Workers |-> IF Transitions(w) = {} THEN 0
                                       ELSE EndTime - log[Min(Transitions(w))].at]
           Met == {v \in Workers : Transitions(v) # {}}
<1>1. N \in Nat /\ N \in 0 .. N /\ EndTime = At(N)
  BY LogIs
<1>2. \A w \in Workers, s \in States :
        /\ TimeTo(w, N, s) = TimeIn(w, s) /\ TimeIn(w, s) \in Nat
        /\ Seen(w, N) = Transitions(w)
  BY <1>1, TimeAtEnd, TimeTyped
<1>3. \A s \in States : worker_times(s) = SumFunctionOnSet(Part(s), Workers)
  BY DEF worker_times, SumFunction
\* The extractor.
<1>4. \A s \in States :
        worker_times(s) = SumFunction([w \in Workers |-> worker_states[w].spent[s]])
  <2> SUFFICES ASSUME NEW s \in States
               PROVE  worker_times(s) =
                        SumFunction([w \in Workers |-> worker_states[w].spent[s]])
    OBVIOUS
  <2>1. [w \in Workers |-> worker_states[w].spent[s]] = Part(s)
    BY Extracted
  <2> QED
    BY <2>1 DEF worker_times
\* The analyzer of the swarm.
<1>5. busy_distribution.weighted = worker_times("busy")
  <2>1. "busy" \in States
    BY DEF States
  <2>2. [w \in Workers |-> TimeTo(w, N, "busy")] = Part("busy")
    BY <1>2, <2>1
  <2>3. busy_distribution.weighted = BusyTo(N)
    BY Followed
  <2> QED
    BY <1>3, <2>1, <2>2, <2>3 DEF BusyTo
\* Nothing is left out.
<1>6. SumFunction([s \in States |-> worker_times(s)]) =
        SumFunction([w \in Met |-> EndTime - log[Min(Transitions(w))].at])
  <2> DEFINE g == [s \in States |-> worker_times(s)]
             h == [w \in Workers |-> TimeIn(w, "busy") + TimeIn(w, "idle")]
             u == [w \in Met |-> EndTime - log[Min(Transitions(w))].at]
  <2>1. IsFiniteSet(Workers) /\ "busy" \in States /\ "idle" \in States /\ "blocked" \in States
    BY WorkersFinite DEF States
  <2>2. \A s \in States : SumFunctionOnSet(Part(s), Workers) \in Nat
    <3> SUFFICES ASSUME NEW s \in States
                 PROVE  SumFunctionOnSet(Part(s), Workers) \in Nat
      OBVIOUS
    <3>1. \A w \in Workers : Part(s)[w] \in Nat
      BY <1>2
    <3> HIDE DEF Part
    <3> QED
      BY <2>1, <3>1, SumTyped
  <2>3. SumFunctionOnSet(g, States) =
          worker_times("busy") + worker_times("idle") + worker_times("blocked")
    <3>1. \A s \in States : g[s] \in Nat
      BY <1>3, <2>2
    <3>2. SumFunctionOnSet(g, States) = g["busy"] + g["idle"] + g["blocked"]
      <4> HIDE DEF g
      <4> QED
        BY <3>1, ThreeStates
    <3> QED
      BY <2>1, <3>2
  <2>4. \A w \in Workers :
          /\ Part("busy")[w] \in Nat /\ Part("idle")[w] \in Nat /\ Part("blocked")[w] \in Nat
          /\ h[w] = Part("busy")[w] + Part("idle")[w] /\ h[w] \in Nat
          /\ Whole[w] = h[w] + Part("blocked")[w]
    <3> SUFFICES ASSUME NEW w \in Workers
                 PROVE  /\ Part("busy")[w] \in Nat /\ Part("idle")[w] \in Nat
                        /\ Part("blocked")[w] \in Nat
                        /\ h[w] = Part("busy")[w] + Part("idle")[w] /\ h[w] \in Nat
                        /\ Whole[w] = h[w] + Part("blocked")[w]
      OBVIOUS
    <3>1. TimeIn(w, "busy") \in Nat /\ TimeIn(w, "idle") \in Nat /\ TimeIn(w, "blocked") \in Nat
      BY <1>2, <2>1
    <3>2. TimeIn(w, "busy") + TimeIn(w, "idle") + TimeIn(w, "blocked") =
            IF Transitions(w) = {} THEN 0 ELSE EndTime - log[Min(Transitions(w))].at
      BY <1>1, <1>2, <2>1, Shared
    <3> QED
      BY <3>1, <3>2
  <2>5. /\ SumFunctionOnSet(h, Workers) =
             SumFunctionOnSet(Part("busy"), Workers) + SumFunctionOnSet(Part("idle"), Workers)
        /\ SumFunctionOnSet(Whole, Workers) =
             SumFunctionOnSet(h, Workers) + SumFunctionOnSet(Part("blocked"), Workers)
    <3> HIDE DEF h, Whole, Part
    <3> QED
      BY <2>1, <2>4, SumPlus
  <2>6. SumFunctionOnSet(Whole, Workers) = SumFunctionOnSet(Whole, Met)
    <3>1. Met \in SUBSET Workers /\ \A w \in Workers \ Met : Whole[w] = 0
      OBVIOUS
    <3>2. \A w \in Met : Whole[w] \in Nat
      <4> HIDE DEF Whole, h, Part
      <4> QED
        BY <2>4, <3>1
    <3> HIDE DEF Whole, Met
    <3> QED
      BY <2>1, <3>1, <3>2, SumPart
  <2>7. SumFunctionOnSet(Whole, Met) = SumFunctionOnSet(u, Met)
    <3>1. IsFiniteSet(Met)
      BY <2>1, FS_Subset
    <3>2. \A w \in Met : Whole[w] = u[w]
      OBVIOUS
    <3>3. \A w \in Met : Whole[w] \in Nat
      <4>1. Met \in SUBSET Workers
        OBVIOUS
      <4> HIDE DEF Whole, h, Part, Met
      <4> QED
        BY <2>4, <4>1
    <3> HIDE DEF Whole, Met, u
    <3> QED
      BY <3>1, <3>2, <3>3, SumSame
  <2>8. SumFunction(g) = SumFunctionOnSet(g, States) /\ SumFunction(u) = SumFunctionOnSet(u, Met)
    BY DEF SumFunction
  <2> HIDE DEF g, u, Whole, Met, h, Part
  <2>9. SumFunctionOnSet(g, States) = SumFunctionOnSet(u, Met)
    <3>1. /\ worker_times("busy") = SumFunctionOnSet(Part("busy"), Workers)
          /\ worker_times("idle") = SumFunctionOnSet(Part("idle"), Workers)
          /\ worker_times("blocked") = SumFunctionOnSet(Part("blocked"), Workers)
      BY <1>3, <2>1
    <3> QED
      BY <2>3, <2>5, <2>6, <2>7, <3>1
  <2> QED
    BY <2>8, <2>9 DEF g, u, Met
<1> DEFINE times == [busy |-> worker_times("busy"), idle |-> worker_times("idle"),
                     blocked |-> worker_times("blocked")]
<1>7. times = [s \in States |-> worker_times(s)]
  BY DEF States
<1>8. \A s \in States : times[s] = worker_times(s)
  BY DEF States
<1>9. SumFunction(times) = SumFunction([w \in Met |-> EndTime - log[Min(Transitions(w))].at])
  BY <1>6, <1>7
<1>10. times["busy"] = worker_times("busy")
  OBVIOUS
<1> HIDE DEF Met, times
<1> QED
  BY <1>4, <1>5, <1>8, <1>9, <1>10 DEF ToolsAgree, Met, times

\* The parser, the extractor and the analyzer of the swarm go different ways
\* through the log and come to the same times.
THEOREM TimesAgree == Spec => []ToolsAgree
<1>1. IInv => ToolsAgree
  BY Agreed DEF IInv
<1> QED
  BY <1>1, Invariance, PTL

-----------------------------------------------------------------------------
(* The busy time of an id and that of its jobs. *)

\* The next event of event i's worker, or of its job, that reports a state.
NextOfWorker(i) == {k \in Transitions(log[i].worker) : k > i}
NextOfJob(i) == {k \in DOMAIN log : k > i /\ log[k].job = log[i].job /\ log[k].what \in States}

\* The time up to the first of the positions S, or to the end.
UpTo(i, S) == (IF S = {} THEN EndTime ELSE log[Min(S)].at) - log[i].at

LEMMA UpToIs ==
  ASSUME LogTyped, NEW i \in DOMAIN log, NEW S \in SUBSET (DOMAIN log), \A k \in S : k > i,
         NEW R \in SUBSET S
  PROVE  /\ UpTo(i, S) \in Nat /\ UpTo(i, S) <= UpTo(i, R)
         /\ S # {} => Min(S) \in S /\ \A k \in S : Min(S) <= k
         /\ S # {} /\ Min(S) \in R => UpTo(i, R) = UpTo(i, S)
<1>1. /\ Len(log) \in Nat /\ DOMAIN log = 1 .. Len(log)
      /\ i \in 1 .. Len(log) /\ log[i].at \in Nat
      /\ EndTime = At(Len(log)) /\ At(Len(log)) \in Nat /\ log[i].at <= At(Len(log))
  BY LogIs
<1>2. ASSUME NEW T \in SUBSET S, T # {}
      PROVE  /\ Min(T) \in T /\ \A k \in T : Min(T) <= k
             /\ Min(T) \in 1 .. Len(log)
             /\ log[Min(T)].at \in Nat /\ log[i].at <= log[Min(T)].at
             /\ log[Min(T)].at <= EndTime
  <2>1. T \in SUBSET Nat
    BY <1>1
  <2>2. Min(T) \in T /\ \A k \in T : Min(T) <= k
    BY <1>2, <2>1, FirstOf
  <2>3. Min(T) \in 1 .. Len(log) /\ i <= Min(T)
    BY <1>1, <2>2
  <2>4. \A a, b \in 1 .. Len(log) : a <= b => log[a].at \in Nat /\ log[a].at <= log[b].at
    BY LogIs
  <2>5. log[Min(T)].at <= At(Len(log))
    <3>1. Len(log) \in 0 .. Len(log) /\ Min(T) <= Len(log)
      BY <1>1, <2>3
    <3> QED
      BY <2>3, <3>1, LogIs
  <2> QED
    BY <1>1, <2>2, <2>3, <2>4, <2>5, LogIs
<1>3. UpTo(i, S) \in Nat
  BY <1>1, <1>2 DEF UpTo
<1>4. UpTo(i, S) <= UpTo(i, R)
  <2>1. CASE R = {}
    BY <1>1, <1>2, <2>1 DEF UpTo
  <2>2. CASE R # {}
    <3>1. S # {} /\ Min(R) \in S
      BY <1>2, <2>2
    <3>2. Min(S) <= Min(R) /\ Min(S) \in 1 .. Len(log) /\ Min(R) \in 1 .. Len(log)
      BY <1>2, <2>2, <3>1
    <3>3. /\ log[Min(S)].at <= log[Min(R)].at
          /\ log[Min(S)].at \in Nat /\ log[Min(R)].at \in Nat
      BY <3>2, LogIs
    <3> QED
      BY <1>1, <2>2, <3>1, <3>3 DEF UpTo
  <2> QED
    BY <2>1, <2>2
<1>5. ASSUME S # {}, Min(S) \in R
      PROVE  UpTo(i, R) = UpTo(i, S)
  <2>1. R # {} /\ Min(R) \in R /\ Min(R) <= Min(S)
    BY <1>2, <1>5
  <2>2. Min(S) <= Min(R) /\ Min(S) \in 1 .. Len(log) /\ Min(R) \in 1 .. Len(log)
    BY <1>2, <1>5, <2>1
  <2>3. Min(S) = Min(R)
    BY <1>1, <2>1, <2>2
  <2> QED
    BY <1>5, <2>1, <2>3 DEF UpTo
<1> QED
  BY <1>2, <1>3, <1>4, <1>5

\* When an id stands for one job at a time, its next event is the job's.
LEMMA AloneNext ==
  ASSUME TypeOK, LogTyped, Origin, Settled, NEW w, Alone(w),
         NEW i \in Transitions(w), log[i].what = "busy", NextOfWorker(i) # {}
  PROVE  Min(NextOfWorker(i)) \in NextOfJob(i)
<1> DEFINE j == log[i].job
           m == Min(NextOfWorker(i))
           Own(v) == {k \in DOMAIN log : log[k].job = v /\ log[k].what \in States}
<1>1. /\ Len(log) \in Nat /\ DOMAIN log = 1 .. Len(log)
      /\ i \in DOMAIN log /\ log[i].worker = w /\ log[i].what \in States
  BY LogIs DEF Transitions
<1>2. m \in Transitions(w) /\ m > i /\ m \in 1 .. Len(log) /\ \A k \in NextOfWorker(i) : m <= k
  <2>1. NextOfWorker(i) \in SUBSET (DOMAIN log) /\ \A k \in NextOfWorker(i) : k > i
    BY DEF NextOfWorker, Transitions
  <2>2. m \in NextOfWorker(i) /\ \A k \in NextOfWorker(i) : m <= k
    BY <1>1, <2>1, UpToIs
  <2> QED
    BY <1>1, <2>1, <2>2 DEF NextOfWorker
<1>3. j \in JobIds /\ j \in SameWorker(w) /\ j # NoJob
  <2>1. Placed(log[i])
    BY <1>1 DEF Origin
  <2>2. j \in JobIds /\ (j # NoJob => Job(j).worker = w)
    BY <1>1, <2>1 DEF Placed
  <2> QED
    BY <2>2, JobsTyped DEF SameWorker
<1> HIDE DEF m
<1>4. SUFFICES ASSUME log[m].job # j
               PROVE  FALSE
  BY <1>1, <1>2 DEF NextOfJob, Transitions, m
\* The job is running when the other event comes.
<1>5. m \in Runs(j)
  <2>1. i \in Own(j) /\ Own(j) \in SUBSET Nat /\ Own(j) \in SUBSET (1 .. Len(log))
    BY <1>1
  <2>2. Min(Own(j)) \in Own(j) /\ Min(Own(j)) <= i
    BY <2>1, FirstOf
  <2>3. Max(Own(j)) \in Own(j) /\ \A k \in Own(j) : k <= Max(Own(j))
    BY <1>1, <2>1, LastOf
  <2>4. Runs(j) = Min(Own(j)) .. (IF Working(j) THEN Len(log) ELSE Max(Own(j)))
    BY <2>1 DEF Runs
  <2>5. Min(Own(j)) <= m /\ m \in Nat /\ Min(Own(j)) \in Nat
    BY <1>1, <1>2, <2>1, <2>2
  <2>6. CASE Working(j)
    BY <1>1, <1>2, <2>4, <2>5, <2>6
  <2>7. CASE ~Working(j)
    <3>1. phase[j] \notin Lost
      BY <1>3 DEF Alone
    <3>2. PICK k \in DOMAIN log : k > i /\ log[k].job = j /\ log[k].what = "idle"
      BY <1>1, <2>7, <3>1 DEF Settled
    <3>3. k \in Own(j) /\ log[k].worker = w
      <4>1. Placed(log[k]) /\ Job(j).worker = w
        BY <1>3 DEF Origin, SameWorker
      <4> QED
        BY <1>3, <3>2, <4>1 DEF States, Placed
    <3>4. k \in NextOfWorker(i)
      BY <1>1, <3>2, <3>3 DEF NextOfWorker, Transitions, States
    <3>5. m <= k /\ k <= Max(Own(j)) /\ Max(Own(j)) \in Nat /\ k \in Nat
      BY <1>1, <1>2, <2>1, <2>3, <3>3, <3>4
    <3>6. m <= Max(Own(j))
      BY <1>2, <2>5, <3>5
    <3> QED
      BY <2>4, <2>5, <2>7, <3>5, <3>6
  <2> QED
    BY <2>6, <2>7
<1>6. CASE log[m].job = NoJob
  BY <1>2, <1>3, <1>5, <1>6 DEF Alone
<1>7. CASE log[m].job # NoJob
  <2> DEFINE v == log[m].job
  <2>1. v \in SameWorker(w) /\ v # j
    <3>1. log[m] \in Entry
      BY <1>2 DEF LogTyped
    <3>2. v \in JobIds
      BY <1>7, <3>1 DEF Entry
    <3>3. log[m].worker = w /\ Placed(log[m])
      BY <1>1, <1>2 DEF Origin, Transitions
    <3> QED
      BY <1>4, <1>7, <3>2, <3>3 DEF Placed, SameWorker
  <2>2. m \in Own(v) /\ Own(v) \in SUBSET Nat /\ Own(v) \in SUBSET (1 .. Len(log))
    BY <1>1, <1>2 DEF Transitions
  <2>3. /\ Min(Own(v)) \in Own(v) /\ Min(Own(v)) <= m
        /\ Max(Own(v)) \in Own(v) /\ m <= Max(Own(v))
    BY <1>1, <2>2, FirstOf, LastOf
  <2>4. Runs(v) = Min(Own(v)) .. (IF Working(v) THEN Len(log) ELSE Max(Own(v)))
    BY <2>2 DEF Runs
  <2>5. m \in Runs(v)
    <3>1. Min(Own(v)) \in 1 .. Len(log) /\ Max(Own(v)) \in 1 .. Len(log)
      BY <2>2, <2>3
    <3> QED
      BY <1>1, <1>2, <2>3, <2>4, <3>1
  <2> QED
    BY <1>3, <1>5, <2>1, <2>5 DEF Alone
<1> QED
  BY <1>6, <1>7

\* The events of the jobs behind an id are those of the id, and each of them is
\* followed by one of the id no later than by one of its job.
LEMMA BusyOf ==
  ASSUME TypeOK, LogTyped, Origin, Settled, NEW w \in Workers
  PROVE  LET real == SumFunction([j \in SameWorker(w) |-> JobTime(j, "busy")])
         IN TimeIn(w, "busy") <= real /\ (Alone(w) => TimeIn(w, "busy") = real)
<1> DEFINE J == SameWorker(w)
           K == [j \in J |-> {k \in Indices("busy") : log[k].job = j}]
           V == {k \in Transitions(w) : log[k].what = "busy"}
           f == [i \in DOMAIN log |-> Until(i, States)]
           g == [i \in DOMAIN log |-> Lasts(i)]
           t == [j \in J |-> JobTime(j, "busy")]
           own(j) == [i \in {k \in Indices("busy") : log[k].job = j} |-> Until(i, States)]
           lasts == [i \in V |-> Lasts(i)]
<1>1. Len(log) \in Nat /\ DOMAIN log = 1 .. Len(log) /\ IsFiniteSet(DOMAIN log)
  BY LogIs, FS_Interval
<1>2. IsFiniteSet(J) /\ V \in SUBSET (DOMAIN log) /\ IsFiniteSet(V)
  <2>1. IsFiniteSet(JobIds)
    BY JobsTyped, FS_Interval
  <2> QED
    BY <1>1, <2>1, FS_Subset DEF SameWorker, Transitions
<1>3. \A i \in DOMAIN log : f[i] = UpTo(i, NextOfJob(i)) /\ g[i] = UpTo(i, NextOfWorker(i))
  BY DEF Until, Lasts, UpTo, NextOfJob, NextOfWorker
\* A job has the events of its worker's id.
<1>4. ASSUME NEW i \in V
      PROVE  NextOfJob(i) \in SUBSET NextOfWorker(i) /\ NextOfWorker(i) \in SUBSET (DOMAIN log)
             /\ log[i].job \in JobIds /\ Job(log[i].job).worker = w
             /\ log[i].job # NoJob
  <2>1. log[i].what = "busy" /\ log[i].worker = w /\ i \in DOMAIN log
    BY DEF Transitions
  <2>2. Placed(log[i])
    BY <2>1 DEF Origin
  <2>3. log[i].job \in JobIds /\ log[i].job # NoJob /\ Job(log[i].job).worker = w
    BY <2>1, <2>2, JobsTyped DEF Placed
  <2>4. ASSUME NEW k \in NextOfJob(i)
        PROVE  k \in NextOfWorker(i)
    <3>1. Placed(log[k]) /\ k \in DOMAIN log /\ log[k].job = log[i].job
      BY DEF Origin, NextOfJob
    <3>2. log[k].worker = w
      BY <2>3, <3>1 DEF Placed
    <3> QED
      BY <2>1, <3>1, <3>2 DEF NextOfJob, NextOfWorker, Transitions
  <2> QED
    BY <2>3, <2>4 DEF NextOfWorker, Transitions
<1>5. \A i \in V : f[i] \in Nat /\ g[i] \in Nat /\ g[i] <= f[i]
  <2> SUFFICES ASSUME NEW i \in V
               PROVE  f[i] \in Nat /\ g[i] \in Nat /\ g[i] <= f[i]
    OBVIOUS
  <2> DEFINE S == NextOfWorker(i)
             R == NextOfJob(i)
  <2>1. /\ R \in SUBSET S /\ S \in SUBSET (DOMAIN log) /\ i \in DOMAIN log
        /\ \A k \in S : k > i
    BY <1>2, <1>4 DEF NextOfWorker
  <2>2. f[i] = UpTo(i, R) /\ g[i] = UpTo(i, S)
    BY <1>3, <2>1
  <2> HIDE DEF S, R, f, g
  <2>3. R \in SUBSET (DOMAIN log) /\ R \in SUBSET R /\ \A k \in R : k > i
    BY <2>1
  <2>4. UpTo(i, S) \in Nat /\ UpTo(i, S) <= UpTo(i, R)
    BY <2>1, UpToIs
  <2>5. UpTo(i, R) \in Nat
    BY <2>1, <2>3, UpToIs
  <2> QED
    BY <2>2, <2>4, <2>5
\* The jobs share out the events.
<1>6. UNION {K[j] : j \in J} = V
  <2>1. ASSUME NEW i \in V
        PROVE  i \in UNION {K[j] : j \in J}
    <3>1. log[i].job \in J /\ i \in K[log[i].job]
      BY <1>2, <1>4 DEF SameWorker, Indices
    <3> QED
      BY <3>1
  <2>2. ASSUME NEW j \in J, NEW i \in K[j]
        PROVE  i \in V
    <3>1. i \in DOMAIN log /\ log[i].what = "busy" /\ log[i].job = j
      BY DEF Indices
    <3>2. j # NoJob /\ Job(j).worker = w
      BY JobsTyped DEF SameWorker
    <3>3. log[i].worker = w
      BY <3>1, <3>2 DEF Origin, Placed
    <3> QED
      BY <3>1, <3>3 DEF Transitions, States
  <2> QED
    BY <2>1, <2>2
<1>7. \A j \in J : /\ IsFiniteSet(K[j]) /\ t[j] = SumFunctionOnSet(f, K[j])
                   /\ \A x \in K[j] : f[x] \in Nat
  <2> SUFFICES ASSUME NEW j \in J
               PROVE  /\ IsFiniteSet(K[j]) /\ t[j] = SumFunctionOnSet(f, K[j])
                      /\ \A x \in K[j] : f[x] \in Nat
    OBVIOUS
  <2>1. K[j] \in SUBSET V
    BY <1>6
  <2>2. IsFiniteSet(K[j]) /\ \A x \in K[j] : f[x] \in Nat
    <3> HIDE DEF K, V, f, g
    <3> QED
      BY <1>2, <1>5, <2>1, FS_Subset
  <2>3. t[j] = SumFunctionOnSet(own(j), K[j])
    BY DEF JobTime, SumFunction
  <2>4. \A x \in K[j] : f[x] = own(j)[x]
    BY DEF Indices
  <2>5. SumFunctionOnSet(f, K[j]) = SumFunctionOnSet(own(j), K[j])
    <3> HIDE DEF K, f, own
    <3> QED
      BY <2>2, <2>4, SumSame
  <2> QED
    BY <2>2, <2>3, <2>5
<1>8. \A i, j \in J : i # j => K[i] \cap K[j] = {}
  OBVIOUS
<1>9. SumFunction(t) = SumFunctionOnSet(f, V)
  <2>1. SumFunctionOnSet(t, J) = SumFunctionOnSet(f, V)
    <3> HIDE DEF J, K, V, f, t
    <3>1. V = UNION {K[j] : j \in J}
      BY <1>6
    <3> QED
      BY <1>2, <1>7, <1>8, <3>1, SumParts
  <2>2. SumFunction(t) = SumFunctionOnSet(t, J)
    BY DEF SumFunction
  <2> HIDE DEF t, K, V, f
  <2> QED
    BY <2>1, <2>2
<1>10. TimeIn(w, "busy") = SumFunctionOnSet(g, V)
  <2>1. TimeIn(w, "busy") = SumFunctionOnSet(lasts, V)
    BY DEF TimeIn, SumFunction
  <2>2. \A i \in V : g[i] = lasts[i]
    BY <1>2
  <2> HIDE DEF g, f, V, lasts
  <2>3. SumFunctionOnSet(g, V) = SumFunctionOnSet(lasts, V)
    BY <1>2, <1>5, <2>2, SumSame
  <2> QED
    BY <2>1, <2>3
<1>11. SumFunctionOnSet(g, V) <= SumFunctionOnSet(f, V)
  <2>1. V \in SUBSET V
    OBVIOUS
  <2> HIDE DEF f, g, V
  <2> QED
    BY <1>2, <1>5, <2>1, SumGrows
<1>12. ASSUME Alone(w)
       PROVE  SumFunctionOnSet(g, V) = SumFunctionOnSet(f, V)
  <2>1. ASSUME NEW i \in V
        PROVE  g[i] = f[i]
    <3>1. /\ i \in Transitions(w) /\ log[i].what = "busy" /\ i \in DOMAIN log
          /\ \A k \in NextOfWorker(i) : k > i
      BY DEF Transitions, NextOfWorker
    <3>2. NextOfWorker(i) # {} => Min(NextOfWorker(i)) \in NextOfJob(i)
      BY <1>12, <3>1, AloneNext
    <3>3. NextOfJob(i) \in SUBSET NextOfWorker(i) /\ NextOfWorker(i) \in SUBSET (DOMAIN log)
      BY <1>4
    <3>4. UpTo(i, NextOfJob(i)) = UpTo(i, NextOfWorker(i))
      <4>1. CASE NextOfWorker(i) = {}
        <5>1. NextOfJob(i) = {}
          BY <3>3, <4>1
        <5> QED
          BY <4>1, <5>1
      <4>2. CASE NextOfWorker(i) # {}
        BY <3>1, <3>2, <3>3, <4>2, UpToIs
      <4> QED
        BY <4>1, <4>2
    <3> QED
      BY <1>3, <3>1, <3>4
  <2> HIDE DEF f, g, V
  <2> QED
    BY <1>2, <1>5, <2>1, SumSame
<1> DEFINE real == SumFunction(t)
<1>13. TimeIn(w, "busy") <= real /\ (Alone(w) => TimeIn(w, "busy") = real)
  <2> HIDE DEF t, f, g, V
  <2> QED
    BY <1>9, <1>10, <1>11, <1>12
<1> QED
  BY <1>13

\* What is reported of an id is never more than the time its jobs were busy, and
\* all of it when it stands for one job at a time.
THEOREM BusyReported == Spec => []BusyTrue
<1>1. IInv => BusyTrue
  BY BusyOf DEF IInv, BusyTrue
<1> QED
  BY <1>1, Invariance, PTL

-----------------------------------------------------------------------------
(* The inferences that the analyzer of the swarm adds up. *)

\* An event of an inference with this task id.
Infers(n, id) == log[n].what \in {"INFERENCE_START", "INFERENCE_END"} /\ TaskId(log[n]) = id

\* The starts that are open after k events: no event of their task id has followed
\* them.  An end closes the open start of its task id.
Pending(k) ==
  {i \in Indices("INFERENCE_START") :
     i <= k /\ \A n \in DOMAIN log : i < n /\ n <= k => ~Infers(n, TaskId(log[i]))}
Closes(m, i) ==
  /\ m \in Indices("INFERENCE_END") /\ TaskId(log[m]) = TaskId(log[i])
  /\ i \in Pending(m - 1)
Closed(k) == {i \in Indices("INFERENCE_START") : \E m \in DOMAIN log : m <= k /\ Closes(m, i)}
EndOf(i) == CHOOSE m \in DOMAIN log : Closes(m, i)
Took == [i \in DOMAIN log |-> log[EndOf(i)].at - log[i].at]

\* The entries of the dictionary, and the total, after k events.
Tracks(r, k) ==
  /\ r = [open |-> r.open, total |-> r.total]
  /\ DOMAIN r.open = {TaskId(log[i]) : i \in Pending(k)}
  /\ \A i \in Pending(k) : r.open[TaskId(log[i])] = log[i].at
  /\ r.total = SumFunctionOnSet(Took, Closed(k))

\* What an event does to the dictionary.
LEMMA InferEffect ==
  ASSUME NEW o, NEW t, NEW e
  PROVE  LET r == [open |-> o, total |-> t]
         IN /\ e.what = "INFERENCE_START" =>
                 Infer(r, e) = [open |-> Put(o, TaskId(e), e.at), total |-> t]
            /\ e.what = "INFERENCE_END" /\ TaskId(e) \in DOMAIN o =>
                 Infer(r, e) = [open |-> Drop(o, TaskId(e)),
                                total |-> t + (e.at - o[TaskId(e)])]
            /\ e.what # "INFERENCE_START"
                 /\ ~(e.what = "INFERENCE_END" /\ TaskId(e) \in DOMAIN o) => Infer(r, e) = r
BY DEF Infer

\* No two starts of an id are pending, and a start is closed once.
LEMMA CloseOnce ==
  ASSUME LogTyped
  PROVE  /\ \A k \in Nat : \A i, n \in Pending(k) :
              TaskId(log[i]) = TaskId(log[n]) => i = n
         /\ \A k \in Nat : Pending(k) \cap Closed(k) = {}
         /\ \A i, m \in DOMAIN log : Closes(m, i) =>
              /\ EndOf(i) = m /\ i < m
              /\ Took[i] = log[m].at - log[i].at /\ Took[i] \in Nat
<1>1. Len(log) \in Nat /\ DOMAIN log = 1 .. Len(log)
  BY LogIs
<1>2. ASSUME NEW k \in Nat, NEW i \in Pending(k), NEW n \in Pending(k),
             TaskId(log[i]) = TaskId(log[n])
      PROVE  i = n
  <2>1. /\ i \in 1 .. Len(log) /\ n \in 1 .. Len(log) /\ i <= k /\ n <= k
        /\ Infers(i, TaskId(log[n])) /\ Infers(n, TaskId(log[i]))
    BY <1>1, <1>2 DEF Pending, Indices, Infers
  <2>2. ~(i < n) /\ ~(n < i)
    BY <1>1, <2>1 DEF Pending
  <2> QED
    BY <2>1, <2>2
<1>3. ASSUME NEW i, NEW m, Closes(m, i)
      PROVE  i \in 1 .. Len(log) /\ m \in 1 .. Len(log) /\ i < m /\ Infers(m, TaskId(log[i]))
             /\ \A n \in DOMAIN log : i < n /\ n <= m - 1 => ~Infers(n, TaskId(log[i]))
  BY <1>1, <1>3 DEF Closes, Pending, Indices, Infers
<1>4. ASSUME NEW k \in Nat, NEW i \in Pending(k), i \in Closed(k)
      PROVE  FALSE
  <2>1. PICK m \in DOMAIN log : m <= k /\ Closes(m, i)
    BY <1>4 DEF Closed
  <2>2. i < m /\ Infers(m, TaskId(log[i]))
    BY <1>3, <2>1
  <2> QED
    BY <2>1, <2>2 DEF Pending
<1>5. ASSUME NEW i \in DOMAIN log, NEW m \in DOMAIN log, Closes(m, i)
      PROVE  /\ EndOf(i) = m /\ i < m
             /\ Took[i] = log[m].at - log[i].at /\ Took[i] \in Nat
  <2> DEFINE p == EndOf(i)
  <2>1. p \in DOMAIN log /\ Closes(p, i)
    BY <1>5 DEF EndOf
  <2> HIDE DEF p
  <2>2. /\ p \in 1 .. Len(log) /\ i < p /\ Infers(p, TaskId(log[i]))
        /\ \A n \in DOMAIN log : i < n /\ n <= p - 1 => ~Infers(n, TaskId(log[i]))
    BY <1>3, <2>1
  <2>3. /\ m \in 1 .. Len(log) /\ i < m /\ Infers(m, TaskId(log[i])) /\ i \in 1 .. Len(log)
        /\ \A n \in DOMAIN log : i < n /\ n <= m - 1 => ~Infers(n, TaskId(log[i]))
    BY <1>3, <1>5
  <2>4. ~(p <= m - 1) /\ ~(m <= p - 1)
    BY <1>1, <2>2, <2>3
  <2>5. p = m
    BY <2>2, <2>3, <2>4
  <2>6. log[i].at \in Nat /\ log[m].at \in Nat /\ log[i].at <= log[m].at
    BY <2>3, LogIs
  <2> QED
    BY <2>3, <2>5, <2>6 DEF Took, p
<1> QED
  BY <1>2, <1>4, <1>5

\* What an event does to the starts.
LEMMA PendingNext ==
  ASSUME LogTyped, NEW k \in 0 .. Len(log) - 1
  PROVE  LET e == log[k + 1]
             before == {i \in Pending(k) : TaskId(log[i]) # TaskId(e)}
             ended == {i \in Pending(k) : TaskId(log[i]) = TaskId(e)}
         IN /\ Pending(k + 1) =
                 CASE e.what = "INFERENCE_START" -> before \cup {k + 1}
                   [] e.what = "INFERENCE_END" -> before
                   [] OTHER -> Pending(k)
            /\ Closed(k + 1) =
                 IF e.what = "INFERENCE_END" THEN Closed(k) \cup ended ELSE Closed(k)
<1> DEFINE e == log[k + 1]
           before == {i \in Pending(k) : TaskId(log[i]) # TaskId(e)}
           ended == {i \in Pending(k) : TaskId(log[i]) = TaskId(e)}
<1>1. /\ Len(log) \in Nat /\ DOMAIN log = 1 .. Len(log) /\ k \in Nat /\ k + 1 \in 1 .. Len(log)
      /\ (k + 1) - 1 = k
      /\ \A i \in 1 .. Len(log) : i <= k + 1 <=> i <= k \/ i = k + 1
  BY LogIs
<1>2. k + 1 \in Pending(k + 1) <=> e.what = "INFERENCE_START"
  BY <1>1 DEF Pending, Indices
<1>3. \A i : i # k + 1 =>
        (i \in Pending(k + 1) <=> i \in Pending(k) /\ ~Infers(k + 1, TaskId(log[i])))
  <2> SUFFICES ASSUME NEW i, i # k + 1
               PROVE  i \in Pending(k + 1) <=>
                        i \in Pending(k) /\ ~Infers(k + 1, TaskId(log[i]))
    OBVIOUS
  <2>1. ASSUME i \in Indices("INFERENCE_START")
        PROVE  i \in Pending(k + 1) <=> i \in Pending(k) /\ ~Infers(k + 1, TaskId(log[i]))
    <3>1. i \in 1 .. Len(log)
      BY <1>1, <2>1 DEF Indices
    <3>2. i <= k => i < k + 1
      BY <1>1, <3>1
    <3> QED
      BY <1>1, <2>1, <3>1, <3>2 DEF Pending
  <2> QED
    BY <2>1 DEF Pending
<1>4. Pending(k + 1) = CASE e.what = "INFERENCE_START" -> before \cup {k + 1}
                         [] e.what = "INFERENCE_END" -> before
                         [] OTHER -> Pending(k)
  <2>1. k + 1 \notin Pending(k)
    BY <1>1 DEF Pending
  <2>2. \A i : Infers(k + 1, TaskId(log[i])) <=>
                 /\ e.what \in {"INFERENCE_START", "INFERENCE_END"}
                 /\ TaskId(log[i]) = TaskId(e)
    BY DEF Infers
  <2>3. CASE e.what = "INFERENCE_START"
    <3>1. Pending(k + 1) = before \cup {k + 1}
      BY <1>2, <1>3, <2>1, <2>2, <2>3
    <3> QED
      BY <2>3, <3>1
  <2>4. CASE e.what = "INFERENCE_END"
    <3>1. Pending(k + 1) = before
      BY <1>2, <1>3, <2>1, <2>2, <2>4
    <3> QED
      BY <2>4, <3>1
  <2>5. CASE e.what \notin {"INFERENCE_START", "INFERENCE_END"}
    <3>1. Pending(k + 1) = Pending(k)
      BY <1>2, <1>3, <2>1, <2>2, <2>5
    <3> QED
      BY <2>5, <3>1
  <2> QED
    BY <2>3, <2>4, <2>5
<1>5. Closed(k + 1) = IF e.what = "INFERENCE_END" THEN Closed(k) \cup ended ELSE Closed(k)
  <2>1. \A i : i \in Closed(k + 1) <=>
                 i \in Closed(k) \/ (i \in Indices("INFERENCE_START") /\ Closes(k + 1, i))
    BY <1>1 DEF Closed
  <2>2. \A i : Closes(k + 1, i) <=> e.what = "INFERENCE_END" /\ i \in ended
    BY <1>1 DEF Closes, Indices
  <2>3. \A i \in ended : i \in Indices("INFERENCE_START")
    BY DEF Pending
  <2> HIDE DEF ended
  <2> QED
    BY <2>1, <2>2, <2>3
<1> QED
  BY <1>4, <1>5

LEMMA StartsFinite ==
  ASSUME LogTyped, NEW k
  PROVE  /\ Indices("INFERENCE_START") \in SUBSET (DOMAIN log)
         /\ IsFiniteSet(Indices("INFERENCE_START"))
         /\ Closed(k) \in SUBSET Indices("INFERENCE_START") /\ IsFiniteSet(Closed(k))
         /\ \A i \in Closed(k) : Took[i] \in Nat
<1>1. IsFiniteSet(DOMAIN log)
  BY LogIs, FS_Interval
<1>2. /\ Indices("INFERENCE_START") \in SUBSET (DOMAIN log)
      /\ Closed(k) \in SUBSET Indices("INFERENCE_START")
  BY DEF Indices, Closed
<1>3. IsFiniteSet(Indices("INFERENCE_START")) /\ IsFiniteSet(Closed(k))
  BY <1>1, <1>2, FS_Subset
<1>4. ASSUME NEW i \in Closed(k)
      PROVE  Took[i] \in Nat
  <2>1. PICK m \in DOMAIN log : Closes(m, i)
    BY DEF Closed
  <2>2. i \in DOMAIN log
    BY <1>2
  <2> QED
    BY <2>1, <2>2, CloseOnce
<1> QED
  BY <1>2, <1>3, <1>4

LEMMA InferStep ==
  ASSUME LogTyped, NEW k \in 0 .. Len(log) - 1, NEW r, Tracks(r, k)
  PROVE  Tracks(Infer(r, log[k + 1]), k + 1)
<1> DEFINE e == log[k + 1]
           id == TaskId(e)
           o == r.open
           t == r.total
           P == Pending(k)
           before == {i \in P : TaskId(log[i]) # id}
           ended == {i \in P : TaskId(log[i]) = id}
           q == Infer(r, e)
<1>1. /\ Len(log) \in Nat /\ DOMAIN log = 1 .. Len(log) /\ k \in Nat /\ k + 1 \in 1 .. Len(log)
      /\ (k + 1) - 1 = k
  BY LogIs
<1>2. /\ r = [open |-> o, total |-> t] /\ DOMAIN o = {TaskId(log[i]) : i \in P}
      /\ \A i \in P : o[TaskId(log[i])] = log[i].at
      /\ t = SumFunctionOnSet(Took, Closed(k))
  BY DEF Tracks
<1>3. /\ Pending(k + 1) = CASE e.what = "INFERENCE_START" -> before \cup {k + 1}
                            [] e.what = "INFERENCE_END" -> before
                            [] OTHER -> P
      /\ Closed(k + 1) = IF e.what = "INFERENCE_END" THEN Closed(k) \cup ended ELSE Closed(k)
  BY PendingNext
<1> HIDE DEF o, t, P
<1> DEFINE s == [open |-> o, total |-> t]
<1>4. /\ q = Infer(s, e)
      /\ e.what = "INFERENCE_START" => Infer(s, e) = [open |-> Put(o, id, e.at), total |-> t]
      /\ e.what = "INFERENCE_END" /\ id \in DOMAIN o =>
           Infer(s, e) = [open |-> Drop(o, id), total |-> t + (e.at - o[id])]
      /\ e.what # "INFERENCE_START" /\ ~(e.what = "INFERENCE_END" /\ id \in DOMAIN o) =>
           Infer(s, e) = r
  <2>1. q = Infer(s, e)
    BY <1>2
  <2> HIDE DEF q, e
  <2> QED
    BY <1>2, <2>1, InferEffect
<1> HIDE DEF s
<1>5. CASE e.what = "INFERENCE_START"
  <2> DEFINE n == Put(o, id, e.at)
  <2>1. q = [open |-> n, total |-> t]
    BY <1>4, <1>5
  <2>2. Pending(k + 1) = before \cup {k + 1} /\ Closed(k + 1) = Closed(k)
    BY <1>3, <1>5
  <2>3. DOMAIN n = DOMAIN o \cup {id}
        /\ \A x \in DOMAIN n : n[x] = IF x = id THEN e.at ELSE o[x]
    BY DEF Put
  <2> HIDE DEF n
  <2>4. DOMAIN n = {TaskId(log[i]) : i \in Pending(k + 1)}
    BY <1>2, <2>2, <2>3
  <2>5. ASSUME NEW i \in Pending(k + 1)
        PROVE  n[TaskId(log[i])] = log[i].at
    <3>1. TaskId(log[i]) \in DOMAIN n
      BY <2>4
    <3> QED
      BY <1>2, <2>2, <2>3, <3>1
  <2>6. q.open = n /\ q.total = t
    BY <2>1
  <2> QED
    BY <1>2, <2>1, <2>2, <2>4, <2>5, <2>6 DEF Tracks
<1>6. CASE e.what = "INFERENCE_END" /\ id \in DOMAIN o
  <2> DEFINE n == Drop(o, id)
  <2>1. q = [open |-> n, total |-> t + (e.at - o[id])]
    BY <1>4, <1>6
  <2>2. PICK i \in P : TaskId(log[i]) = id
    BY <1>2, <1>6
  <2>3. ended = {i}
    BY <1>1, <2>2, CloseOnce DEF P
  <2>4. Pending(k + 1) = before /\ Closed(k + 1) = Closed(k) \cup {i}
    BY <1>3, <1>6, <2>3
  <2>5. DOMAIN n = DOMAIN o \ {id} /\ \A x \in DOMAIN n : n[x] = o[x]
    BY DEF Drop
  <2> HIDE DEF n
  <2>6. DOMAIN n = {TaskId(log[x]) : x \in Pending(k + 1)}
    BY <1>2, <2>4, <2>5
  <2>7. \A x \in Pending(k + 1) : n[TaskId(log[x])] = log[x].at
    BY <1>2, <2>4, <2>5, <2>6
  <2>8. i \in DOMAIN log /\ Closes(k + 1, i) /\ i \notin Closed(k)
    <3>1. i \in DOMAIN log /\ Closes(k + 1, i)
      BY <1>1, <1>6, <2>2 DEF Closes, Indices, Pending, P
    <3> QED
      BY <1>1, <3>1, CloseOnce DEF P
  <2>9. Took[i] = e.at - o[id] /\ Took[i] \in Nat
    BY <1>1, <1>2, <2>2, <2>8, CloseOnce
  <2>10. SumFunctionOnSet(Took, Closed(k) \cup {i}) = Took[i] + t /\ t \in Nat
    BY <1>2, <2>8, <2>9, StartsFinite, SumAdd, SumTyped
  <2>11. q.open = n /\ q.total = SumFunctionOnSet(Took, Closed(k + 1))
    <3>1. q.open = n /\ q.total = t + Took[i]
      BY <2>1, <2>9
    <3>2. Took[i] + t = t + Took[i]
      BY <2>9, <2>10
    <3> HIDE DEF q, before, ended
    <3> QED
      BY <2>4, <2>10, <3>1, <3>2
  <2> HIDE DEF e, id
  <2> QED
    BY <2>1, <2>6, <2>7, <2>11 DEF Tracks, e
<1>7. CASE ~(e.what = "INFERENCE_START") /\ ~(e.what = "INFERENCE_END" /\ id \in DOMAIN o)
  <2>1. q = r
    BY <1>4, <1>7
  <2>2. Pending(k + 1) = P /\ Closed(k + 1) = Closed(k)
    <3>1. CASE e.what = "INFERENCE_END"
      <4>1. ended = {} /\ before = P
        BY <1>2, <1>7, <3>1
      <4> QED
        BY <1>3, <3>1, <4>1
    <3>2. CASE e.what # "INFERENCE_END"
      BY <1>3, <1>7, <3>2
    <3> QED
      BY <3>1, <3>2
  <2> QED
    BY <2>1, <2>2 DEF Tracks, P
<1> QED
  BY <1>5, <1>6, <1>7

\* The analyzer adds up the starts that were closed.
LEMMA Inferred ==
  ASSUME LogTyped
  PROVE  total_inference_time = SumFunctionOnSet(Took, Closed(Len(log)))
<1>1. Len(log) \in Nat /\ log \in Seq(Entry) /\ DOMAIN log = 1 .. Len(log)
  BY LogIs DEF LogTyped
<1>2. PICK a : InferRuns(a, log) /\ ReadThrough(Infer, NoInference, log) = a[Len(log)]
  BY <1>1, InferRun
<1> DEFINE G == {k \in Nat : k <= Len(log) => Tracks(a[k], k)}
<1>3. 0 \in G
  <2>1. a[0] = [open |-> <<>>, total |-> 0]
    BY <1>2 DEF InferRuns, NoInference
  <2>2. Pending(0) = {} /\ Closed(0) = {}
    BY <1>1 DEF Pending, Closed, Indices
  <2>3. SumFunctionOnSet(Took, {}) = 0
    BY SumEmpty
  <2>4. DOMAIN a[0].open = {} /\ a[0].total = 0 /\ a[0] = [open |-> a[0].open, total |-> a[0].total]
    BY <2>1
  <2> QED
    BY <2>2, <2>3, <2>4 DEF Tracks
<1>4. ASSUME NEW k \in G
      PROVE  k + 1 \in G
  <2> SUFFICES ASSUME k + 1 <= Len(log)
               PROVE  Tracks(a[k + 1], k + 1)
    OBVIOUS
  <2>1. k \in 0 .. Len(log) - 1 /\ Tracks(a[k], k) /\ k + 1 \in 1 .. Len(log) /\ (k + 1) - 1 = k
    BY <1>1
  <2>2. a[k + 1] = Infer(a[k], log[k + 1])
    BY <1>2, <2>1 DEF InferRuns
  <2> QED
    BY <2>1, <2>2, InferStep
<1> HIDE DEF G
<1>5. G = Nat
  <2>1. G \in SUBSET Nat
    BY DEF G
  <2> QED
    BY <1>3, <1>4, <2>1, AllNumbers
<1>6. Tracks(a[Len(log)], Len(log))
  <2>1. Len(log) \in G /\ Len(log) <= Len(log)
    BY <1>1, <1>5
  <2> QED
    BY <2>1 DEF G
<1> QED
  BY <1>2, <1>6 DEF Tracks, total_inference_time

\* The ends of the inferences of a job, after one of its events.
NextEnds(i) ==
  {k \in DOMAIN log : k > i /\ log[k].job = log[i].job /\ log[k].what \in {"INFERENCE_END"}}

\* An inference is not over before the first end of its id.
LEMMA TookNoLonger ==
  ASSUME LogTyped, NEW i \in Closed(Len(log))
  PROVE  /\ i \in DOMAIN log /\ Took[i] \in Nat
         /\ Until(i, {"INFERENCE_END"}) \in Nat /\ Took[i] <= Until(i, {"INFERENCE_END"})
<1>1. Len(log) \in Nat /\ DOMAIN log = 1 .. Len(log) /\ EndTime = At(Len(log))
      /\ i \in 1 .. Len(log) /\ log[i].at \in Nat
  BY LogIs DEF Closed, Indices
<1>2. PICK m \in DOMAIN log : Closes(m, i)
  BY DEF Closed
<1>3. /\ i < m /\ Took[i] = log[m].at - log[i].at /\ Took[i] \in Nat
      /\ \A n \in DOMAIN log : i < n /\ n <= m - 1 => ~Infers(n, TaskId(log[i]))
  BY <1>1, <1>2, CloseOnce DEF Closes, Pending
<1>4. Until(i, {"INFERENCE_END"}) = UpTo(i, NextEnds(i)) /\ UpTo(i, NextEnds(i)) \in Nat
  <2>1. NextEnds(i) \in SUBSET (DOMAIN log) /\ \A k \in NextEnds(i) : k > i
    BY DEF NextEnds
  <2>2. UpTo(i, NextEnds(i)) \in Nat
    BY <1>1, <2>1, UpToIs
  <2> QED
    BY <2>2 DEF Until, UpTo, NextEnds
<1>5. log[m].at \in Nat /\ log[m].at <= EndTime
  <2>1. Len(log) \in 0 .. Len(log) /\ m \in 1 .. Len(log) /\ m <= Len(log)
    BY <1>1
  <2> QED
    BY <1>1, <2>1, LogIs
<1>6. CASE NextEnds(i) = {}
  <2>1. UpTo(i, NextEnds(i)) = EndTime - log[i].at /\ EndTime \in Nat
    <3>1. Len(log) \in 0 .. Len(log)
      BY <1>1
    <3> QED
      BY <1>1, <1>6, <3>1, LogIs DEF UpTo
  <2> QED
    BY <1>1, <1>3, <1>4, <1>5, <2>1
<1>7. CASE NextEnds(i) # {}
  <2> DEFINE n == Min(NextEnds(i))
  <2>1. n \in NextEnds(i)
    <3>1. NextEnds(i) \in SUBSET Nat
      BY <1>1 DEF NextEnds
    <3> QED
      BY <1>7, <3>1, FirstOf
  <2>2. /\ n \in 1 .. Len(log) /\ n > i /\ log[n].job = log[i].job
        /\ log[n].what = "INFERENCE_END"
    BY <1>1, <2>1 DEF NextEnds
  <2>3. UpTo(i, NextEnds(i)) = log[n].at - log[i].at
    BY <1>7 DEF UpTo
  <2> HIDE DEF n
  <2>4. Infers(n, TaskId(log[i]))
    BY <2>2 DEF Infers, TaskId
  <2>5. m <= n
    BY <1>1, <1>3, <2>2, <2>4
  <2>6. log[m].at <= log[n].at /\ log[n].at \in Nat
    BY <1>1, <2>2, <2>5, LogIs
  <2> QED
    BY <1>1, <1>3, <1>4, <1>5, <2>3, <2>6
<1> QED
  BY <1>1, <1>3, <1>4, <1>6, <1>7

\* When each task id is one job's, its end closes its start.
LEMMA OwnEnd ==
  ASSUME TypeOK, LogTyped, Origin, Started, Paired, Once,
         \A i, j \in JobIds : i # j => Job(i).task # Job(j).task \/ Retry(i) # Retry(j)
  PROVE  /\ Closed(Len(log)) =
              {i \in Indices("INFERENCE_START") : /\ phase[log[i].job] \in {"answered", "received"}
                                                 /\ log[i].job \notin leaving}
         /\ \A i \in Closed(Len(log)) : Took[i] = Until(i, {"INFERENCE_END"})
<1> DEFINE S == Indices("INFERENCE_START")
           Past(i) == phase[log[i].job] \in Answered /\ log[i].job \notin leaving
<1>1. Len(log) \in Nat /\ DOMAIN log = 1 .. Len(log) /\ S \in SUBSET (DOMAIN log)
  BY LogIs DEF Indices
<1>2. ASSUME NEW i \in DOMAIN log, NEW n \in DOMAIN log,
             log[i].what \in {"INFERENCE_START", "INFERENCE_END"},
             log[n].what \in {"INFERENCE_START", "INFERENCE_END"},
             TaskId(log[i]) = TaskId(log[n])
      PROVE  log[i].job = log[n].job
  <2>1. log[i].job \in JobIds /\ log[n].job \in JobIds
    BY <1>2 DEF Origin, Placed
  <2>2. Job(log[i].job).task = Job(log[n].job).task /\ Retry(log[i].job) = Retry(log[n].job)
    BY <1>2 DEF TaskId
  <2> QED
    BY <2>1, <2>2
<1>3. \A i, n \in DOMAIN log : log[i].job = log[n].job => TaskId(log[i]) = TaskId(log[n])
  BY DEF TaskId
<1>4. \A i, n \in DOMAIN log :
        /\ log[i].what = log[n].what /\ log[i].job = log[n].job
        /\ log[i].what \in {"INFERENCE_START", "INFERENCE_END"}
        => i = n
  <2>1. "INFERENCE_START" \in Single /\ "INFERENCE_END" \in Single
    BY DEF Single
  <2> QED
    BY <2>1 DEF Once
<1>5. ASSUME NEW i \in S, NEW m \in DOMAIN log, Closes(m, i)
      PROVE  Past(i) /\ Took[i] = Until(i, {"INFERENCE_END"})
  <2>1. log[m].what = "INFERENCE_END" /\ log[i].what = "INFERENCE_START"
        /\ TaskId(log[i]) = TaskId(log[m])
    BY <1>5 DEF Closes, Indices
  <2>2. log[m].job = log[i].job
    BY <1>1, <1>2, <2>1
  <2>3. Past(i)
    BY <2>1, <2>2 DEF Origin, Placed
  <2>4. i < m /\ Took[i] = log[m].at - log[i].at
    BY <1>1, <1>5, CloseOnce
  <2>5. NextEnds(i) = {m}
    BY <1>1, <1>4, <2>1, <2>2, <2>4 DEF NextEnds
  <2>6. Min(NextEnds(i)) = m
    BY <1>1, <2>5, FirstOf
  <2>7. Until(i, {"INFERENCE_END"}) = log[m].at - log[i].at
    BY <2>5, <2>6 DEF Until, NextEnds
  <2> QED
    BY <2>3, <2>4, <2>7
<1>6. ASSUME NEW i \in S, Past(i)
      PROVE  \E m \in DOMAIN log : m <= Len(log) /\ Closes(m, i)
  <2>1. /\ i \in DOMAIN log /\ log[i].what = "INFERENCE_START"
        /\ log[i].job \in JobIds /\ ~Aggregation(log[i].job)
    BY <1>1 DEF Indices, Origin, Placed
  <2>2. PICK m \in DOMAIN log : log[m].job = log[i].job /\ log[m].what = "INFERENCE_END"
    BY <1>6, <2>1 DEF Started, StartedAt, Logged
  <2>3. i < m
    <3>1. PICK b \in DOMAIN log :
            b < m /\ log[b].job = log[m].job /\ log[b].what = "INFERENCE_START"
      BY <2>2 DEF Paired, After
    <3>2. b = i
      BY <1>4, <2>1, <2>2, <3>1
    <3> QED
      BY <3>1, <3>2
  <2>4. ASSUME NEW n \in DOMAIN log, i < n, n <= m - 1, Infers(n, TaskId(log[i]))
        PROVE  FALSE
    <3>1. log[n].job = log[i].job /\ log[n].what \in {"INFERENCE_START", "INFERENCE_END"}
      BY <1>2, <2>1, <2>4 DEF Infers
    <3>2. n # i /\ n # m
      BY <1>1, <2>4
    <3> QED
      BY <1>4, <2>1, <2>2, <3>1, <3>2
  <2>5. i <= m - 1
    BY <1>1, <2>1, <2>3
  <2>6. Closes(m, i)
    BY <1>3, <2>1, <2>2, <2>4, <2>5 DEF Closes, Pending, Indices
  <2> QED
    BY <1>1, <2>6
<1>7. \A i \in S : i \in Closed(Len(log)) <=> Past(i)
  BY <1>5, <1>6 DEF Closed
<1> QED
  BY <1>5, <1>7 DEF Closed, Answered

LEMMA InferenceOf ==
  ASSUME TypeOK, LogTyped, Origin, Started, Paired, Once
  PROVE  InferenceTrue
<1> DEFINE S == Indices("INFERENCE_START")
           C == Closed(Len(log))
           f == [i \in DOMAIN log |-> Until(i, {"INFERENCE_END"})]
           Real(T) == SumFunction([i \in T |-> Until(i, {"INFERENCE_END"})])
           g(T) == [i \in T |-> Until(i, {"INFERENCE_END"})]
           Heard == {i \in S : /\ phase[log[i].job] \in {"answered", "received"}
                               /\ log[i].job \notin leaving}
<1>1. /\ S \in SUBSET (DOMAIN log) /\ IsFiniteSet(S)
      /\ C \in SUBSET S /\ IsFiniteSet(C)
      /\ total_inference_time = SumFunctionOnSet(Took, C)
  BY StartsFinite, Inferred
<1>2. \A i \in S : f[i] \in Nat /\ f[i] = g(S)[i]
  <2> SUFFICES ASSUME NEW i \in S
               PROVE  f[i] \in Nat
    BY <1>1
  <2>1. i \in DOMAIN log
    BY <1>1
  <2>2. NextEnds(i) \in SUBSET (DOMAIN log) /\ \A k \in NextEnds(i) : k > i
    BY DEF NextEnds
  <2>3. UpTo(i, NextEnds(i)) \in Nat
    BY <2>1, <2>2, UpToIs
  <2> QED
    BY <2>1, <2>3 DEF Until, UpTo, NextEnds
<1>3. \A i \in C : Took[i] \in Nat /\ Took[i] <= f[i]
  BY <1>1, TookNoLonger
<1>4. \A T \in SUBSET S : Real(T) = SumFunctionOnSet(f, T)
  <2> SUFFICES ASSUME NEW T \in SUBSET S
               PROVE  SumFunctionOnSet(g(T), T) = SumFunctionOnSet(f, T)
    BY DEF SumFunction
  <2>1. IsFiniteSet(T) /\ \A i \in T : f[i] \in Nat /\ f[i] = g(T)[i]
    BY <1>1, <1>2, FS_Subset
  <2> HIDE DEF f, g
  <2> QED
    BY <2>1, SumSame
<1>5. total_inference_time <= Real(S)
  <2>1. SumFunctionOnSet(Took, C) <= SumFunctionOnSet(f, S)
    <3> HIDE DEF f, C, S
    <3> QED
      BY <1>1, <1>2, <1>3, SumGrows
  <2>2. Real(S) = SumFunctionOnSet(f, S)
    BY <1>4
  <2> HIDE DEF f, C, Real
  <2> QED
    BY <1>1, <2>1, <2>2
<1>6. ASSUME \A i, j \in JobIds : i # j => Job(i).task # Job(j).task \/ Retry(i) # Retry(j)
      PROVE  total_inference_time = Real(Heard)
  <2>1. C = Heard /\ \A i \in C : Took[i] = f[i]
    BY <1>1, <1>6, OwnEnd
  <2>2. SumFunctionOnSet(Took, C) = SumFunctionOnSet(f, C)
    <3> HIDE DEF f, C, Heard
    <3> QED
      BY <1>1, <1>3, <2>1, SumSame
  <2>3. Real(C) = SumFunctionOnSet(f, C)
    BY <1>1, <1>4
  <2> HIDE DEF f, C, Real, Heard
  <2> QED
    BY <1>1, <2>1, <2>2, <2>3
<1> QED
  BY <1>5, <1>6 DEF InferenceTrue

\* The total is never more than the real one, and the real one of the jobs that
\* answered when no two jobs have the same task id.
THEOREM InferencesReported == Spec => []InferenceTrue
<1>1. IInv => InferenceTrue
  BY InferenceOf DEF IInv
<1> QED
  BY <1>1, Invariance, PTL
=============================================================================
