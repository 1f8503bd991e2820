----------------------------- MODULE LLMClient -----------------------------
(***************************************************************************)
(* The LLM client every thread of every request shares                     *)
(* (core/llm_client.py): a call is attempted up to five times, each time   *)
(* on the key that is current then, and an attempt refused for the rate    *)
(* (429) moves the current key on.  The lock protects each access to the   *)
(* current key, not the attempt between two of them.                       *)
(*                                                                         *)
(* A key is its index.  The service is not part of the repository: it      *)
(* refuses the keys whose quota is exhausted, and may be overloaded (503)  *)
(* or answer with another error at any time.                               *)
(***************************************************************************)
EXTENDS Naturals, FiniteSets, FiniteSetsExt

CONSTANTS Threads,      \* the threads that may make calls
          KeyCounts,    \* how many keys the environment may hold
          MaxAttempts,  \* stop_after_attempt
          Overloaded,   \* whether the service may answer 503
          Faulty,       \* whether it may answer with another error
          MaxCalls,     \* BOUND: calls of each thread
          NoKey         \* no key yet

ASSUME ConstantsAssumption ==
  /\ IsFiniteSet(Threads)
  /\ KeyCounts \subseteq Nat \ {0}
  /\ MaxAttempts \in Nat \ {0} /\ MaxCalls \in Nat \ {0}
  /\ Overloaded \in BOOLEAN /\ Faulty \in BOOLEAN
  /\ NoKey \notin Nat

VARIABLES
  callers,    \* the threads that make calls in this run
  key_count,  \* len(clients), the keys found in the environment
  exhausted,  \* the keys whose quota is exhausted
  current,    \* key_manager.current_idx
  pc,         \* where each thread is
  using,      \* the key of the client each thread got last in its call
  attempts,   \* attempts of its call so far
  refusals,   \* those of them that ended with a 429 (history)
  calls       \* calls it has begun

environment == <<callers, key_count, exhausted>>
vars == <<environment, current, pc, using, attempts, refusals, calls>>

Keys == 0 .. key_count - 1

Ended == {"answered", "failed"}

TypeOK ==
  /\ callers \subseteq Threads
  /\ key_count \in KeyCounts
  /\ exhausted \subseteq Keys
  /\ current \in Keys
  /\ pc \in [Threads -> Ended \cup {"fetch", "calling", "refused", "backoff"}]
  /\ using \in [Threads -> Keys \cup {NoKey}]
  /\ attempts \in [Threads -> 0 .. MaxAttempts]
  /\ refusals \in [Threads -> 0 .. MaxAttempts]
  /\ calls \in [Threads -> 1 .. MaxCalls]

Init ==
  /\ callers \in SUBSET Threads \ {{}}
  /\ key_count \in KeyCounts
  /\ exhausted \in SUBSET Keys
  /\ current = 0
  /\ pc = [t \in Threads |-> "fetch"]
  /\ using = [t \in Threads |-> NoKey]
  /\ attempts = [t \in Threads |-> 0]
  /\ refusals = [t \in Threads |-> 0]
  /\ calls = [t \in Threads |-> 1]

-----------------------------------------------------------------------------

\* get_client, at the start of an attempt, the first one or one after a sleep.
get_client(t) ==
  /\ pc[t] \in {"fetch", "backoff"}
  /\ using' = [using EXCEPT ![t] = current]
  /\ attempts' = [attempts EXCEPT ![t] = @ + 1]
  /\ pc' = [pc EXCEPT ![t] = "calling"]
  /\ UNCHANGED <<environment, current, refusals, calls>>

Answered(t) ==
  /\ pc[t] = "calling" /\ using[t] \notin exhausted
  /\ pc' = [pc EXCEPT ![t] = "answered"]
  /\ UNCHANGED <<environment, current, using, attempts, refusals, calls>>

\* Where a call goes after an error that is worth a retry.
Again_OneLess(t) == IF attempts[t] < MaxAttempts - 1 THEN "backoff" ELSE "failed"
Again(t) == IF attempts[t] < MaxAttempts THEN "backoff" ELSE "failed"

\* 429: the key is to be moved on before the call is tried again.
Refused(t) ==
  /\ pc[t] = "calling" /\ using[t] \in exhausted
  /\ pc' = [pc EXCEPT ![t] = "refused"]
  /\ refusals' = [refusals EXCEPT ![t] = @ + 1]
  /\ UNCHANGED <<environment, current, using, attempts, calls>>

\* The key that rotate_key makes current: the one after the current key,
\* whichever key was refused.
Next_NoWrap == current + 1
Next_Stuck == current
NextKey == (current + 1) % key_count

rotate_key(t) ==
  /\ pc[t] = "refused"
  /\ current' = NextKey
  /\ pc' = [pc EXCEPT ![t] = Again(t)]
  /\ UNCHANGED <<environment, using, attempts, refusals, calls>>

\* 503: tried again, on the key that is current then.
Unavailable_Forever(t) ==
  /\ pc[t] = "calling" /\ Overloaded
  /\ pc' = [pc EXCEPT ![t] = "backoff"]
  /\ attempts' = [attempts EXCEPT ![t] = 0]
  /\ UNCHANGED <<environment, current, using, refusals, calls>>
Unavailable(t) ==
  /\ pc[t] = "calling" /\ Overloaded
  /\ pc' = [pc EXCEPT ![t] = Again(t)]
  /\ UNCHANGED <<environment, current, using, attempts, refusals, calls>>

\* Any other error is raised at once.
Broken(t) ==
  /\ pc[t] = "calling" /\ Faulty
  /\ pc' = [pc EXCEPT ![t] = "failed"]
  /\ UNCHANGED <<environment, current, using, attempts, refusals, calls>>

\* The thread calls again, for another chunk or step.
Call(t) ==
  /\ pc[t] \in Ended /\ calls[t] < MaxCalls
  /\ calls' = [calls EXCEPT ![t] = @ + 1]
  /\ pc' = [pc EXCEPT ![t] = "fetch"]
  /\ using' = [using EXCEPT ![t] = NoKey]
  /\ attempts' = [attempts EXCEPT ![t] = 0]
  /\ refusals' = [refusals EXCEPT ![t] = 0]
  /\ UNCHANGED <<environment, current>>

Attempt(t) == \/ get_client(t) \/ Answered(t) \/ Refused(t) \/ rotate_key(t)
              \/ Unavailable(t) \/ Broken(t)

Done == (\A t \in callers : pc[t] \in Ended) /\ UNCHANGED vars

Next == (\E t \in callers : Attempt(t) \/ Call(t)) \/ Done

SafeSpec == Init /\ [][Next]_vars

\* Every thread keeps running, and the service answers every attempt somehow.
Spec == SafeSpec /\ \A t \in Threads : WF_vars(t \in callers /\ Attempt(t))

-----------------------------------------------------------------------------
(* Properties. *)

\* A call is never stuck between rotations, sleeps and attempts.
EveryCallEnds == \A t \in Threads : t \in callers /\ pc[t] = "fetch" ~> pc[t] \in Ended

\* A lone caller that gives up because of refusals was refused by as many keys
\* as it may make attempts, or by all: the rotation wraps around, wherever the
\* call before left it, and no attempt is wasted on a key that has refused the
\* call while another is left.  With more keys than attempts the call may still
\* give up while a good key remains.
GivesUpOnlyWhenExhausted ==
  \A t \in callers :
    callers = {t} /\ pc[t] = "failed" /\ refusals[t] = attempts[t]
      => Cardinality(exhausted) >= Min({MaxAttempts, key_count})

\* With more keys than callers and one of them exhausted, late refusals rotate
\* past good keys but never all the way round: a call is refused once at most.
\* With as many callers as keys it is not so: rotate_key moves on from the
\* current key and not from the refused one, so both of two callers may come
\* back to it.
OneRefusalAtMost ==
  Cardinality(exhausted) = 1 /\ Cardinality(callers) < key_count
    => \A t \in callers : refusals[t] <= 1
=============================================================================
