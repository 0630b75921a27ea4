---------------------------- MODULE MCLLMRouter -----------------------------
(***************************************************************************)
(* Finite instances of LLMRouter for TLC.                                  *)
(***************************************************************************)
EXTENDS LLMRouter, TLC

CONSTANTS r1, r2, r3

Symmetry == Permutations(Requests)

=============================================================================
