----------------------------- MODULE MCMigrations -----------------------------
(* Instances of Migrations for TLC.                                        *)
EXTENDS Migrations

CONSTANTS t1, u1

\* The revisions on either side of every guard and conversion.
MCStops == {0, 3, 4, 6, 7, 10, 12, 13, 14, 17}
=============================================================================
