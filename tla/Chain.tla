------------------------------- MODULE Chain -------------------------------
(***************************************************************************)
(* What one Task B request promises, whichever architecture serves it: the *)
(* reasoning chain advances one step at a time, each step built on the one *)
(* before it, and the request is answered only by a chain that             *)
(* TaskBAdapter.process_step calls complete.  A request may also fail; the *)
(* step under way is not recalled then.                                    *)
(***************************************************************************)
EXTENDS Naturals

VARIABLES total,   \* total_steps of the adapter, which never changes
          step,    \* steps done: current_step of the newest state
          status   \* "running", "answered" or "failed"

vars == <<total, step, status>>

\* is_complete is only ever set by a step: even a chain of no steps takes one.
Complete(n) == n > 0 /\ n >= total

Init == total \in Nat /\ step = 0 /\ status = "running"

Advance == /\ status # "answered" /\ ~Complete(step)
           /\ step' = step + 1
           /\ UNCHANGED <<total, status>>

Answer == /\ status = "running" /\ Complete(step)
          /\ status' = "answered"
          /\ UNCHANGED <<total, step>>

Fail == status = "running" /\ status' = "failed" /\ UNCHANGED <<total, step>>

Next == Advance \/ Answer \/ Fail

SafeSpec == Init /\ [][Next]_vars

\* A request is always decided in the end.
Spec == SafeSpec /\ WF_vars(Answer \/ Fail)
=============================================================================
