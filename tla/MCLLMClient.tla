---------------------------- MODULE MCLLMClient ----------------------------
(* Small instances of LLMClient for TLC. *)
EXTENDS LLMClient

CONSTANTS t1, t2   \* threads

TwoThreads == {t1, t2}

\* Fewer keys than attempts, and more.
TwoOrFour == {2, 4}
=============================================================================
