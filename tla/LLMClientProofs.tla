-------------------------- MODULE LLMClientProofs --------------------------
(***************************************************************************)
(* Proofs about LLMClient, for any number of threads, keys and attempts    *)
(* and any quotas.  They use the safety part of the specification only.    *)
(***************************************************************************)
EXTENDS LLMClient, FiniteSetTheorems, TLAPS

\* The rotations since a key was the current one.
Behind(k) == IF k < current THEN current - k ELSE current + key_count - k

-----------------------------------------------------------------------------
(* The invariant. *)

\* What a thread knows of its own call.
Progress ==
  \A t \in Threads :
    /\ pc[t] = "fetch" => attempts[t] = 0 /\ refusals[t] = 0
    /\ pc[t] = "backoff" => attempts[t] < MaxAttempts
    /\ pc[t] = "calling" => refusals[t] < attempts[t]
    /\ pc[t] \in {"calling", "refused"} => using[t] \in Keys
    /\ pc[t] = "refused" => using[t] \in exhausted
    /\ pc[t] = "failed" /\ refusals[t] = attempts[t] => attempts[t] = MaxAttempts
    /\ refusals[t] <= attempts[t]

\* A lone caller that was refused by each key it tried has tried those that were
\* current last, as many as it was refused; its client is that of the current key.
Alone ==
  \A t \in callers : callers = {t} =>
    /\ pc[t] \in {"calling", "refused"} => using[t] = current
    /\ pc[t] \in {"fetch", "backoff", "failed"} /\ refusals[t] = attempts[t] =>
         \A k \in Keys : Behind(k) <= refusals[t] => k \in exhausted
    /\ pc[t] = "calling" /\ refusals[t] + 1 = attempts[t] =>
         \A k \in Keys : Behind(k) <= refusals[t] => k \in exhausted
    /\ pc[t] = "refused" /\ refusals[t] = attempts[t] =>
         \A k \in Keys : Behind(k) < refusals[t] => k \in exhausted

\* The threads that have yet to move on from a key.
Holders(e) == {t \in callers : pc[t] \in {"calling", "refused"} /\ using[t] = e}

\* Once the exhausted key is left behind it is never reached again: each thread
\* moves on once, and they are too few to go all the way round.
LeftBehind(e) ==
  /\ current # e => \/ Holders(e) = {}
                    \/ Cardinality(Holders(e)) + Behind(e) <= Cardinality(callers)
  /\ \A t \in callers : refusals[t] > 0 =>
       /\ refusals[t] = 1
       /\ pc[t] = "refused" \/ (current # e /\ t \notin Holders(e))

Rotation ==
  \A e \in Keys : exhausted = {e} /\ Cardinality(callers) < key_count => LeftBehind(e)

-----------------------------------------------------------------------------
(* The keys in a circle. *)

\* The key after a key, without the modulus.
LEMMA KeyAfter ==
  ASSUME TypeOK
  PROVE  /\ NextKey = IF current = key_count - 1 THEN 0 ELSE current + 1
         /\ NextKey \in Keys
<1>1. key_count \in Nat \ {0} /\ current \in 0 .. key_count - 1
  BY ConstantsAssumption DEF TypeOK, Keys
<1>2. CASE current = key_count - 1
  <2>1. key_count % key_count = 0
    BY <1>1
  <2>2. NextKey = 0
    BY <1>1, <1>2, <2>1 DEF NextKey
  <2> QED
    BY <1>1, <1>2, <2>2 DEF Keys
<1>3. CASE current # key_count - 1
  <2>1. current + 1 \in 0 .. key_count - 1
    BY <1>1, <1>3
  <2>2. \A n \in 0 .. key_count - 1 : n % key_count = n
    BY <1>1
  <2>3. NextKey = current + 1
    BY <2>1, <2>2 DEF NextKey
  <2> QED
    BY <1>3, <2>1, <2>3 DEF Keys
<1> QED
  BY <1>2, <1>3

\* A rotation moves every key one further back, and the current key just behind.
LEMMA BehindNextKey ==
  ASSUME TypeOK, current' = NextKey, key_count' = key_count, NEW k \in Keys
  PROVE  /\ Behind(k) \in 1 .. key_count
         /\ k # current => Behind(k) < key_count
         /\ Behind(k)' = IF k = current THEN 1 ELSE Behind(k) + 1
<1>1. key_count \in Nat \ {0} /\ current \in 0 .. key_count - 1 /\ k \in 0 .. key_count - 1
  BY ConstantsAssumption DEF TypeOK, Keys
<1>2. current' = IF current = key_count - 1 THEN 0 ELSE current + 1
  BY KeyAfter
<1> QED
  BY <1>1, <1>2 DEF Behind

\* A run has finitely many keys.
LEMMA FiniteQuota ==
  ASSUME TypeOK
  PROVE  exhausted \subseteq Keys /\ IsFiniteSet(exhausted)
<1>1. IsFiniteSet(Keys)
  <2>1. key_count \in Nat
    BY ConstantsAssumption DEF TypeOK
  <2> QED
    BY <2>1, FS_Interval DEF Keys
<1>2. exhausted \in SUBSET Keys
  BY DEF TypeOK
<1> QED
  BY <1>1, <1>2, FS_Subset

\* The n keys that were current last are n keys, or all of them.
LEMMA LastKeys ==
  ASSUME TypeOK, NEW n \in Nat, \A k \in Keys : Behind(k) <= n => k \in exhausted
  PROVE  Cardinality(exhausted) >= Min({n, key_count})
<1> DEFINE m == IF n <= key_count THEN n ELSE key_count
           key == [i \in 1 .. m |-> IF i <= current THEN current - i ELSE current + key_count - i]
<1>1. /\ key_count \in Nat \ {0} /\ current \in 0 .. key_count - 1
      /\ m \in Nat /\ m <= n /\ m <= key_count
  BY ConstantsAssumption DEF TypeOK, Keys
<1>2. Min({n, key_count}) = m
  <2>1. m \in {n, key_count} /\ \A x \in {n, key_count} : m <= x
    BY <1>1
  <2>2. \A x \in {n, key_count} : (\A y \in {n, key_count} : x <= y) => x = m
    BY <1>1
  <2> HIDE DEF m
  <2> QED
    BY <2>1, <2>2 DEF Min
<1> HIDE DEF m
<1>3. ASSUME NEW i \in 1 .. m
      PROVE  key[i] \in Keys /\ Behind(key[i]) = i
  BY <1>1 DEF Keys, Behind
<1>4. key \in [1 .. m -> exhausted]
  <2>1. ASSUME NEW i \in 1 .. m
        PROVE  key[i] \in exhausted
    <3>1. key[i] \in Keys /\ Behind(key[i]) <= n
      BY <1>1, <1>3
    <3> HIDE DEF key
    <3> QED
      BY <3>1
  <2> QED
    BY <2>1
<1>5. \A i, j \in 1 .. m : key[i] = key[j] => i = j
  BY <1>3
<1> HIDE DEF key
<1>6. key \in Injection(1 .. m, exhausted)
  BY <1>4, <1>5 DEF Injection, IsInjective
<1>7. IsFiniteSet(exhausted)
  BY FiniteQuota
<1>8. Cardinality(1 .. m) = m
  BY <1>1, FS_Interval
<1> QED
  BY <1>2, <1>6, <1>7, <1>8, FS_Injection

-----------------------------------------------------------------------------
(* Type correctness, from what a thread knows of its call. *)

\* The callers, the keys and the quotas of a run stay what they are.
LEMMA EnvironmentFixed ==
  ASSUME [Next]_vars
  PROVE  UNCHANGED <<callers, key_count, exhausted>> /\ Keys' = Keys
<1>1. ASSUME NEW t, Attempt(t) \/ Call(t)
      PROVE  UNCHANGED environment
  BY <1>1 DEF Attempt, get_client, Answered, Refused, rotate_key, Unavailable, Broken, Call
<1> QED
  BY <1>1 DEF Next, Done, vars, environment, Keys

LEMMA TypeInvariance == SafeSpec => [](TypeOK /\ Progress)
<1>1. Init => TypeOK /\ Progress
  BY ConstantsAssumption DEF Init, TypeOK, Progress, Keys, Ended
<1>2. TypeOK /\ Progress /\ [Next]_vars => TypeOK' /\ Progress'
  <2> SUFFICES ASSUME TypeOK, Progress, [Next]_vars
               PROVE  TypeOK' /\ Progress'
    OBVIOUS
  <2>0. /\ MaxAttempts \in Nat \ {0} /\ MaxCalls \in Nat \ {0}
        /\ key_count' = key_count /\ Keys' = Keys
    BY ConstantsAssumption, EnvironmentFixed
  <2>1. CASE UNCHANGED vars
    BY <2>0, <2>1 DEF vars, environment, TypeOK, Progress
  <2> SUFFICES ASSUME NEW t \in Threads, t \in callers, Attempt(t) \/ Call(t)
               PROVE  TypeOK' /\ Progress'
    BY <2>1 DEF Next, Done, TypeOK
  <2> USE <2>0 DEF environment, Ended
  <2>2. CASE get_client(t)
    <3>1. attempts[t] < MaxAttempts /\ attempts[t] \in Nat /\ refusals[t] <= attempts[t]
      BY <2>2 DEF get_client, TypeOK, Progress
    <3>2. TypeOK'
      BY <2>2, <3>1 DEF get_client, TypeOK
    <3>3. Progress'
      BY <2>2, <3>1 DEF get_client, TypeOK, Progress
    <3> QED
      BY <3>2, <3>3
  <2>3. CASE Answered(t)
    BY <2>3 DEF Answered, TypeOK, Progress
  <2>4. CASE Refused(t)
    <3>1. refusals[t] < attempts[t] /\ attempts[t] \in 0 .. MaxAttempts /\ refusals[t] \in Nat
      BY <2>4 DEF Refused, TypeOK, Progress
    <3>2. TypeOK'
      BY <2>4, <3>1 DEF Refused, TypeOK
    <3>3. Progress'
      BY <2>4, <3>1 DEF Refused, TypeOK, Progress
    <3> QED
      BY <3>2, <3>3
  <2>5. CASE rotate_key(t)
    <3>1. NextKey \in Keys
      BY KeyAfter
    <3>2. TypeOK'
      BY <2>5, <3>1 DEF rotate_key, Again, TypeOK
    <3>3. Progress'
      BY <2>5 DEF rotate_key, Again, TypeOK, Progress
    <3> QED
      BY <3>2, <3>3
  <2>6. CASE Unavailable(t)
    BY <2>6 DEF Unavailable, Again, TypeOK, Progress
  <2>7. CASE Broken(t)
    BY <2>7 DEF Broken, TypeOK, Progress
  <2>8. CASE Call(t)
    <3>1. TypeOK'
      BY <2>8 DEF Call, TypeOK
    <3>2. Progress'
      BY <2>8 DEF Call, TypeOK, Progress
    <3> QED
      BY <3>1, <3>2
  <2> QED
    BY <2>2, <2>3, <2>4, <2>5, <2>6, <2>7, <2>8 DEF Attempt
<1> QED
  BY <1>1, <1>2, PTL DEF SafeSpec

\* Every reachable state has the types the code gives it.
THEOREM TypeCorrect == SafeSpec => []TypeOK
BY TypeInvariance, PTL

-----------------------------------------------------------------------------
(* A lone caller. *)

\* Each refusal of a lone caller is one more key in a row.
LEMMA AloneInvariance == SafeSpec => []Alone
<1>1. Init => Alone
  <2> SUFFICES ASSUME Init, NEW k \in Keys
               PROVE  ~(Behind(k) <= 0)
    BY DEF Init, Alone
  <2> QED
    BY ConstantsAssumption DEF Init, Behind, Keys
<1>2. TypeOK /\ Progress /\ Alone /\ [Next]_vars => Alone'
  <2> SUFFICES ASSUME TypeOK, Progress, Alone, [Next]_vars
               PROVE  Alone'
    OBVIOUS
  <2>env. UNCHANGED <<callers, key_count, exhausted>> /\ Keys' = Keys
    BY EnvironmentFixed
  <2> SUFFICES ASSUME NEW t \in callers, callers = {t}
               PROVE  Alone'
    BY <2>env DEF Alone
  <2>0. /\ t \in Threads /\ callers' = {t} /\ exhausted' = exhausted
        /\ key_count' = key_count /\ Keys' = Keys
        /\ attempts[t] \in Nat /\ refusals[t] \in Nat /\ refusals[t] <= attempts[t]
        /\ \A k \in Keys : Behind(k) \in Nat
    <3>1. \A k \in Keys : Behind(k) \in Nat
      BY ConstantsAssumption DEF Behind, Keys, TypeOK
    <3> QED
      BY <3>1, <2>env DEF TypeOK, Progress
  <2>1. CASE UNCHANGED vars
    BY <2>0, <2>1 DEF vars, environment, Alone, Behind
  <2> SUFFICES ASSUME Attempt(t) \/ Call(t)
               PROVE  Alone'
    BY <2>1 DEF Next, Done
  <2> USE <2>0 DEF environment, Ended, TypeOK
  <2>2. CASE current' = current
    <3>1. \A k \in Keys : Behind(k)' = Behind(k)
      BY <2>2 DEF Behind
    <3>2. CASE get_client(t)
      BY <3>1, <3>2 DEF get_client, Alone, Progress
    <3>3. CASE Answered(t)
      BY <3>1, <3>3 DEF Answered, Alone
    <3>4. CASE Refused(t)
      <4>1. refusals'[t] = refusals[t] + 1 /\ attempts'[t] = attempts[t] /\ pc'[t] = "refused"
        BY <3>4 DEF Refused
      <4>2. using'[t] = current'
        BY <2>2, <3>4 DEF Refused, Alone
      <4>3. refusals'[t] = attempts'[t] =>
              \A k \in Keys : Behind(k) < refusals'[t] => k \in exhausted
        BY <3>4, <4>1 DEF Refused, Alone
      <4> QED
        BY <3>1, <4>1, <4>2, <4>3 DEF Alone
    <3>5. CASE Unavailable(t)
      BY <3>1, <3>5 DEF Unavailable, Again, Alone, Progress
    <3>6. CASE Broken(t)
      BY <3>1, <3>6 DEF Broken, Alone, Progress
    <3>7. CASE Call(t)
      <4>1. /\ pc'[t] = "fetch" /\ refusals'[t] = 0
        BY <3>7 DEF Call
      <4>2. \A k \in Keys : ~(Behind(k) <= 0)
        BY ConstantsAssumption DEF Behind, Keys
      <4> QED
        BY <3>1, <4>1, <4>2 DEF Alone
    <3>8. CASE rotate_key(t)
      <4>1. key_count = 1
        BY <2>2, <3>8, KeyAfter, ConstantsAssumption DEF rotate_key, Keys
      <4>2. /\ current \in exhausted /\ \A k \in Keys : k = current
        BY <3>8, <4>1 DEF rotate_key, Progress, Alone, Keys
      <4>3. \A k \in Keys : k \in exhausted
        BY <4>2
      <4>4. pc'[t] \in {"backoff", "failed"} /\ UNCHANGED refusals
        BY <3>8 DEF rotate_key, Again
      <4> QED
        BY <4>3, <4>4 DEF Alone
    <3> QED
      BY <3>2, <3>3, <3>4, <3>5, <3>6, <3>7, <3>8 DEF Attempt
  <2>3. CASE rotate_key(t)
    <3>1. \A k \in Keys : /\ Behind(k) \in Nat
                          /\ Behind(k)' = IF k = current THEN 1 ELSE Behind(k) + 1
      BY <2>3, BehindNextKey DEF rotate_key
    <3>2. current \in exhausted
      BY <2>3 DEF rotate_key, Progress, Alone
    <3>3. pc'[t] \in {"backoff", "failed"} /\ UNCHANGED <<refusals, attempts>>
      BY <2>3 DEF rotate_key, Again
    <3>4. refusals[t] = attempts[t] =>
            \A k \in Keys : Behind(k)' <= refusals[t] => k \in exhausted
      BY <2>3, <3>1, <3>2 DEF rotate_key, Alone
    <3> QED
      BY <3>3, <3>4 DEF Alone
  <2> QED
    BY <2>2, <2>3 DEF Attempt, get_client, Answered, Refused, Unavailable, Broken, Call
<1> QED
  BY <1>1, <1>2, TypeInvariance, PTL DEF SafeSpec

\* A lone caller whose call fails by refusals alone was refused by as many keys
\* as it may make attempts, or by all there are.
THEOREM GivesUpLast == SafeSpec => []GivesUpOnlyWhenExhausted
<1>1. TypeOK /\ Progress /\ Alone => GivesUpOnlyWhenExhausted
  <2> SUFFICES ASSUME TypeOK, Progress, Alone, NEW t \in callers, callers = {t},
                      pc[t] = "failed", refusals[t] = attempts[t]
               PROVE  Cardinality(exhausted) >= Min({MaxAttempts, key_count})
    BY DEF GivesUpOnlyWhenExhausted
  <2>1. refusals[t] = MaxAttempts
    BY DEF Progress, TypeOK
  <2>2. \A k \in Keys : Behind(k) <= MaxAttempts => k \in exhausted
    BY <2>1 DEF Alone
  <2> QED
    BY <2>2, LastKeys, ConstantsAssumption
<1> QED
  BY <1>1, TypeInvariance, AloneInvariance, PTL

-----------------------------------------------------------------------------
(* More keys than callers, one of them exhausted. *)

\* The callers and the holders among them can be counted.
LEMMA HoldersFinite ==
  ASSUME TypeOK
  PROVE  /\ IsFiniteSet(callers) /\ Cardinality(callers) \in Nat
         /\ \A H \in SUBSET callers : /\ IsFiniteSet(H) /\ Cardinality(H) \in Nat
                                      /\ Cardinality(H) <= Cardinality(callers)
<1>1. IsFiniteSet(callers)
  <2>1. callers \in SUBSET Threads
    BY DEF TypeOK
  <2> QED
    BY <2>1, FS_Subset, ConstantsAssumption
<1> QED
  BY <1>1, FS_Subset, FS_CardinalityType

\* A thread that moves on from the exhausted key is a holder no more.
LEMMA RotationInvariance == SafeSpec => []Rotation
<1>1. Init => Rotation
  <2>1. Init => /\ \A e : Holders(e) = {}
                /\ \A t \in callers : refusals[t] = 0
    BY DEF Init, Holders
  <2> QED
    BY <2>1 DEF Rotation, LeftBehind
<1>2. TypeOK /\ Progress /\ Rotation /\ [Next]_vars => Rotation'
  <2> SUFFICES ASSUME TypeOK, Progress, Rotation, [Next]_vars
               PROVE  Rotation'
    OBVIOUS
  <2>env. UNCHANGED <<callers, key_count, exhausted>> /\ Keys' = Keys
    BY EnvironmentFixed
  <2> SUFFICES ASSUME NEW e \in Keys, exhausted = {e}, Cardinality(callers) < key_count
               PROVE  LeftBehind(e)'
    BY <2>env DEF Rotation
  <2>1. /\ IsFiniteSet(callers) /\ IsFiniteSet(Holders(e))
        /\ Cardinality(Holders(e)) \in Nat /\ Cardinality(callers) \in Nat
        /\ Cardinality(Holders(e)) <= Cardinality(callers)
        /\ key_count \in Nat \ {0} /\ Behind(e) \in Nat
    BY HoldersFinite, ConstantsAssumption DEF Holders, Behind, Keys, TypeOK
  <2>2. /\ current # e => \/ Holders(e) = {}
                          \/ Cardinality(Holders(e)) + Behind(e) <= Cardinality(callers)
        /\ \A u \in callers : refusals[u] > 0 =>
             /\ refusals[u] = 1
             /\ pc[u] = "refused" \/ (current # e /\ u \notin Holders(e))
    BY DEF Rotation, LeftBehind
  <2>3. CASE UNCHANGED vars
    BY <2>2, <2>3 DEF LeftBehind, vars, environment, Holders, Behind
  <2> SUFFICES ASSUME NEW t \in callers, Attempt(t) \/ Call(t)
               PROVE  LeftBehind(e)'
    BY <2>3 DEF Next, Done
  <2>4. t \in Threads /\ (\A u \in callers : u \in Threads /\ refusals[u] \in Nat)
    BY DEF TypeOK
  <2> USE DEF environment, Ended
  <2>5. CASE rotate_key(t)
    <3>1. /\ UNCHANGED <<callers, key_count, exhausted, using, refusals>>
          /\ pc' = [pc EXCEPT ![t] = Again(t)] /\ Again(t) \in {"backoff", "failed"}
          /\ current' = NextKey
      BY <2>5 DEF rotate_key, Again
    <3>2. t \in Holders(e)
      BY <2>4, <2>5 DEF rotate_key, Holders, Progress
    <3>3. Holders(e)' = Holders(e) \ {t}
      BY <2>4, <3>1 DEF Holders, TypeOK
    <3>4. Cardinality(Holders(e)') = Cardinality(Holders(e)) - 1
      BY <2>1, <3>2, <3>3, FS_RemoveElement
    <3>5. /\ Behind(e)' = IF e = current THEN 1 ELSE Behind(e) + 1
      BY <3>1, BehindNextKey
    <3>6. Cardinality(Holders(e)') + Behind(e)' <= Cardinality(callers)
      BY <2>1, <2>2, <3>2, <3>4, <3>5
    <3>7. Cardinality(Holders(e)') \in Nat
      BY <2>1, <3>3, FS_RemoveElement, FS_CardinalityType
    <3>8. current' # e
      <4>1. current' = e => Behind(e)' = key_count
        BY <2>1, <3>1 DEF Behind, Keys
      <4> QED
        BY <2>1, <3>6, <3>7, <4>1
    <3>9. ASSUME NEW u \in callers, refusals'[u] > 0
          PROVE  /\ refusals'[u] = 1
                 /\ pc'[u] = "refused" \/ (current' # e /\ u \notin Holders(e)')
      BY <2>2, <2>4, <3>1, <3>3, <3>8, <3>9 DEF TypeOK
    <3> QED
      BY <3>1, <3>6, <3>9 DEF LeftBehind
  <2>6. CASE current' = current /\ ~rotate_key(t)
    <3>1. Behind(e)' = Behind(e) /\ UNCHANGED <<callers, key_count, exhausted>>
      BY <2>6, <2>env DEF Behind
    <3>2. CASE get_client(t)
      <4>1. /\ pc' = [pc EXCEPT ![t] = "calling"] /\ using' = [using EXCEPT ![t] = current]
            /\ UNCHANGED refusals
        BY <3>2 DEF get_client
      <4>2. current # e => Holders(e)' = Holders(e)
        BY <2>4, <3>1, <3>2, <4>1 DEF get_client, Holders, TypeOK
      <4>3. \A u \in callers : refusals[u] > 0 => u # t \/ current # e
        BY <2>2, <3>2 DEF get_client
      <4> QED
        BY <2>2, <2>4, <2>6, <3>1, <3>2, <4>1, <4>2, <4>3
        DEF LeftBehind, get_client, Holders, TypeOK
    <3>3. CASE Refused(t)
      <4>1. /\ pc' = [pc EXCEPT ![t] = "refused"]
            /\ refusals' = [refusals EXCEPT ![t] = @ + 1]
            /\ UNCHANGED using /\ pc[t] = "calling"
        BY <3>3 DEF Refused
      <4>2. t \in Holders(e) /\ Holders(e)' = Holders(e)
        BY <2>4, <3>1, <3>3, <4>1 DEF Refused, Holders, TypeOK
      <4>3. refusals[t] = 0
        BY <2>2, <2>4, <4>1, <4>2
      <4> QED
        BY <2>2, <2>4, <2>6, <3>1, <4>1, <4>2, <4>3 DEF LeftBehind, TypeOK
    <3>4. CASE Answered(t) \/ Unavailable(t) \/ Broken(t) \/ Call(t)
      <4>1. /\ pc'[t] \notin {"calling", "refused"} /\ pc[t] # "refused"
            /\ \A u \in callers \ {t} : /\ pc'[u] = pc[u] /\ using'[u] = using[u]
                                        /\ refusals'[u] = refusals[u]
            /\ refusals'[t] \in {0, refusals[t]}
        BY <2>4, <3>4 DEF Answered, Unavailable, Broken, Call, Again, TypeOK
      <4>2. Holders(e)' = Holders(e) \ {t}
        BY <3>1, <4>1 DEF Holders
      <4>3. /\ Cardinality(Holders(e)') <= Cardinality(Holders(e))
            /\ Cardinality(Holders(e)') \in Nat
            /\ Holders(e) = {} => Holders(e)' = {}
        BY <2>1, <4>2, FS_Subset, FS_CardinalityType
      <4>4. current' # e => \/ Holders(e)' = {}
                            \/ Cardinality(Holders(e)') + Behind(e)' <= Cardinality(callers)
        BY <2>1, <2>2, <2>6, <3>1, <4>3
      <4>5. \A u \in callers : refusals'[u] > 0 =>
              /\ refusals'[u] = 1
              /\ pc'[u] = "refused" \/ (current' # e /\ u \notin Holders(e)')
        BY <2>2, <2>4, <2>6, <4>1, <4>2
      <4> QED
        BY <3>1, <4>4, <4>5 DEF LeftBehind
    <3> QED
      BY <2>6, <3>2, <3>3, <3>4 DEF Attempt
  <2> QED
    BY <2>5, <2>6 DEF Attempt, get_client, Answered, Refused, Unavailable, Broken, Call
<1> QED
  BY <1>1, <1>2, TypeInvariance, PTL DEF SafeSpec

\* With more keys than callers, late refusals rotate past good keys but never all
\* the way round to the exhausted one: no call is refused twice.
THEOREM RefusedOnce == SafeSpec => []OneRefusalAtMost
<1>1. TypeOK /\ Rotation => OneRefusalAtMost
  <2> SUFFICES ASSUME TypeOK, Rotation, Cardinality(exhausted) = 1,
                      Cardinality(callers) < key_count, NEW t \in callers
               PROVE  refusals[t] <= 1
    BY DEF OneRefusalAtMost
  <2>1. \E e : exhausted = {e}
    BY FiniteQuota, FS_Singleton
  <2>2. refusals[t] > 0 => refusals[t] = 1
    BY <2>1, FiniteQuota DEF Rotation, LeftBehind
  <2> QED
    BY <2>2 DEF TypeOK
<1> QED
  BY <1>1, TypeInvariance, RotationInvariance, PTL

-----------------------------------------------------------------------------
(* A call never goes on for ever. *)

\* An upper bound of the steps a call has left, whatever the service answers.
StepsLeft(t) ==
  3 * (MaxAttempts - attempts[t]) +
    CASE pc[t] \in {"fetch", "backoff"} -> 1
      [] pc[t] = "calling"              -> 3
      [] pc[t] = "refused"              -> 2
      [] pc[t] \in Ended                -> 0

\* No call is held up by the rotations of the others: each of its own steps brings
\* it nearer to its end, 3 MaxAttempts + 1 steps after its begin at the latest, and
\* the steps of other threads leave it where it is.
THEOREM CallsRunOut ==
  SafeSpec => /\ [](\A t \in Threads : /\ StepsLeft(t) \in Nat
                                       /\ pc[t] = "fetch" => StepsLeft(t) = 3 * MaxAttempts + 1)
              /\ [][\A t \in Threads :
                      \/ pc[t] \in Ended
                      \/ StepsLeft(t)' < StepsLeft(t)
                      \/ UNCHANGED <<pc[t], attempts[t], using[t]>>]_vars
<1>1. TypeOK /\ Progress =>
        \A t \in Threads : /\ StepsLeft(t) \in Nat
                           /\ pc[t] = "fetch" => StepsLeft(t) = 3 * MaxAttempts + 1
  BY ConstantsAssumption DEF TypeOK, Progress, StepsLeft, Ended
<1>2. TypeOK /\ Progress /\ [Next]_vars =>
        [\A t \in Threads : \/ pc[t] \in Ended
                            \/ StepsLeft(t)' < StepsLeft(t)
                            \/ UNCHANGED <<pc[t], attempts[t], using[t]>>]_vars
  <2> SUFFICES ASSUME TypeOK, Progress, Next, ~UNCHANGED vars, NEW t \in Threads,
                      pc[t] \notin Ended
               PROVE  StepsLeft(t)' < StepsLeft(t) \/ UNCHANGED <<pc[t], attempts[t], using[t]>>
    OBVIOUS
  <2>1. PICK u \in callers : Attempt(u) \/ Call(u)
    BY DEF Next, Done
  <2>2. CASE u # t
    BY <2>1, <2>2 DEF Attempt, get_client, Answered, Refused, rotate_key, Unavailable, Broken,
                      Call, TypeOK
  <2>3. CASE u = t
    <3>1. MaxAttempts \in Nat /\ attempts[t] \in 0 .. MaxAttempts /\ Attempt(t)
      BY <2>1, <2>3, ConstantsAssumption DEF TypeOK, Call
    <3>2. CASE get_client(t)
      BY <3>1, <3>2 DEF get_client, StepsLeft, TypeOK, Ended
    <3>3. CASE Answered(t) \/ Broken(t) \/ Refused(t)
      BY <3>1, <3>3 DEF Answered, Broken, Refused, StepsLeft, TypeOK, Ended
    <3>4. CASE rotate_key(t) \/ Unavailable(t)
      BY <3>1, <3>4 DEF rotate_key, Unavailable, Again, StepsLeft, TypeOK, Ended
    <3> QED
      BY <3>1, <3>2, <3>3, <3>4 DEF Attempt
  <2> QED
    BY <2>2, <2>3
<1> QED
  BY <1>1, <1>2, TypeInvariance, PTL DEF SafeSpec
=============================================================================
