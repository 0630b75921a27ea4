-------------------------- MODULE MCBackupJournal --------------------------
(***************************************************************************)
(* Finite instances of BackupJournal for TLC.                              *)
(***************************************************************************)
EXTENDS BackupJournal, TLC

CONSTANTS m1, m2, s1, s2

Symmetry == Permutations(Managers) \cup Permutations(Ids)

=============================================================================
