---------------------------- MODULE MCMigration ----------------------------
(***************************************************************************)
(* TLC instances of Migration.                                             *)
(***************************************************************************)
EXTENDS Migration, TLC

CONSTANTS m1, m2, m3, m4

\* Commands are told apart by nothing but their name.
Symmetry == Permutations(Runners)
=============================================================================
