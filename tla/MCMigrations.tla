---------------------------- MODULE MCMigrations ----------------------------
(***************************************************************************)
(* Instances of Migrations for TLC.                                        *)
(***************************************************************************)
EXTENDS Migrations, TLC

CONSTANTS m1, m2, u1, u2, u3, a, b

MCMigrators == {m1, m2}
MCIds == {u1, u2, u3}
MCNames == {a, b}

\* Processes, rows and names only ever stand for themselves.
Symmetry == Permutations(MCMigrators) \cup Permutations(MCIds) \cup Permutations(MCNames)
=============================================================================
