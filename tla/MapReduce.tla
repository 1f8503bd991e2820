----------------------------- MODULE MapReduce -----------------------------
(***************************************************************************)
(* What one Task A request promises, whichever architecture serves it.     *)
(* The document is split into chunks (TaskAAdapter.split), the summary of  *)
(* each chunk is gathered once, in any order, and the aggregation is asked *)
(* only when every chunk has been gathered.  A request may also fail, at   *)
(* any moment, and a request that has an answer or has failed is over.     *)
(***************************************************************************)
EXTENDS Functions, Sequences

CONSTANT Chunks      \* the chunks of the document

VARIABLES gathered,  \* the chunks whose summary was gathered, in order
          status     \* "running", "answered" or "failed"

vars == <<gathered, status>>

TypeOK == /\ gathered \in Seq(Chunks)
          /\ status \in {"running", "answered", "failed"}

Init == gathered = <<>> /\ status = "running"

Gather(c) == /\ status = "running"
             /\ c \in Chunks \ Range(gathered)
             /\ gathered' = Append(gathered, c)
             /\ UNCHANGED status

Answer == /\ status = "running"
          /\ Range(gathered) = Chunks
          /\ status' = "answered"
          /\ UNCHANGED gathered

Fail == status = "running" /\ status' = "failed" /\ UNCHANGED gathered

Next == (\E c \in Chunks : Gather(c)) \/ Answer \/ Fail

SafeSpec == Init /\ [][Next]_vars

\* A request is always decided in the end.
Spec == SafeSpec /\ WF_vars(Next)
=============================================================================
