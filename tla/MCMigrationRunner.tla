-------------------------- MODULE MCMigrationRunner --------------------------
(***************************************************************************)
(* Constants of MigrationRunner for TLC: an old and a new checkout, and    *)
(* one in which somebody edited the second file.                           *)
(***************************************************************************)
EXTENDS MigrationRunner, TLC

CONSTANTS Original, Edited

MCFile == 1..3

Older == [f \in MCFile |-> IF f <= 2 THEN Original ELSE None]
Newer == [f \in MCFile |-> Original]
Tampered == [f \in MCFile |-> IF f = 2 THEN Edited ELSE Original]

MCCheckouts == {Older, Newer, Tampered}
=============================================================================
