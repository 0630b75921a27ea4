--------------------------- MODULE MCRateLimiter ---------------------------
(***************************************************************************)
(* Finite instances of RateLimiter for TLC.                                *)
(***************************************************************************)
EXTENDS RateLimiter, TLC

CONSTANTS w1, w2, c1, c2

Symmetry == Permutations(Workers) \cup Permutations(Clients)

=============================================================================
