--------------------------- MODULE MCVectorIndex ----------------------------
(***************************************************************************)
(* Finite instances of VectorIndex for TLC.                                *)
(***************************************************************************)
EXTENDS VectorIndex, TLC

CONSTANTS a, b, c, d, u, v, w

\* u and v come from one embedding model, w from another.
TwoModels == (u :> 2) @@ (v :> 2) @@ (w :> 3)

Symmetry == Permutations(Ids) \cup Permutations({u, v})

=============================================================================
