--------------------------- MODULE MCDumpPublish ---------------------------
(* An instance of DumpPublish with interchangeable runs.                   *)
EXTENDS DumpPublish, TLC

CONSTANTS r1, r2, r3
ThreeRuns == {r1, r2, r3}
SomeOutputs == {Base(TRUE), Sequenced(Base(FALSE), 1)}
Interchangeable == Permutations(Run)
=============================================================================
