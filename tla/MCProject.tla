----------------------------- MODULE MCProject -----------------------------
(***************************************************************************)
(* Finite instances of ProjectWatcher for TLC.                             *)
(***************************************************************************)
EXTENDS ProjectWatcher

CONSTANTS f1, f2, a, b, t1, p1

BothThere == {[f \in Files |-> a]}

=============================================================================
