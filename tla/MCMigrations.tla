---------------------------- MODULE MCMigrations ----------------------------
(***************************************************************************)
(* Migrations with the program's own statements, for TLC.                  *)
(***************************************************************************)
EXTENDS Migrations, MigrationScripts, TLC

CONSTANTS p1, p2

AnyName == STRING

\* Databases that need the upgrades: made before answer_cache knew namespaces,
\* and before facts and links had scores.
WithoutNamespaces == {"documents", "sections", "chunks", "answer_cache"}
WithoutScores ==
  WithoutNamespaces \cup {"answer_cache.namespace_id", "similarity_links", "atomic_facts"}
Found == {{}, WithoutNamespaces, WithoutScores}

Symmetry == Permutations(Processes)

=============================================================================
