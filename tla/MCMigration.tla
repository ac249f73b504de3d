------------------------------ MODULE MCMigration ------------------------------
(* Migration for TLC.                                                        *)
EXTENDS Migration

CONSTANTS r1, r2
=============================================================================
