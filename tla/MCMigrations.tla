---------------------------- MODULE MCMigrations ----------------------------
(***************************************************************************)
(* Small instances of Migrations for TLC.  Processes are interchangeable.  *)
(***************************************************************************)
EXTENDS MigrationsSafety, TLC

RunnersAlike == Permutations(Runners)
=============================================================================
