----------------------------- MODULE TaskASplit -----------------------------
(***************************************************************************)
(* TaskAAdapter.split (workloads/task_a/__init__.py): the paragraphs of an *)
(* article, in chunk_count runs of ceil(paragraphs / chunk_count), the     *)
(* last ones shorter or without content.                                   *)
(*                                                                         *)
(* A paragraph is its index, a chunk the set of its paragraphs; P is the   *)
(* number of paragraphs of the article and K the chunk_count.              *)
(***************************************************************************)
EXTENDS Integers

\* math.ceil(a / b)
CeilDiv_Floor(a, b) == a \div b
CeilDiv(a, b) == (a + b - 1) \div b

chunk_size(P, K) == CeilDiv(P, K)

\* paragraphs[start:end] of chunk i, nothing ("No content") past the last one.
Content_Dealt(P, K, i) == {p \in 0 .. P - 1 : p % K = i}
Content(P, K, i) ==
  {p \in 0 .. P - 1 : i * chunk_size(P, K) <= p /\ p < (i + 1) * chunk_size(P, K)}

split(P, K) == [i \in 0 .. K - 1 |-> Content(P, K, i)]
=============================================================================
