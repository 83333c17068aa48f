------------------------- MODULE MCPostgresArchive -------------------------
(* An instance of PostgresArchive with interchangeable dumps.              *)
EXTENDS PostgresArchive, TLC

CONSTANTS d1, d2
TwoDumps == {d1, d2}
Interchangeable == Permutations(Dumps)
=============================================================================
