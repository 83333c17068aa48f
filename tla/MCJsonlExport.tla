--------------------------- MODULE MCJsonlExport ---------------------------
(* An instance of JsonlExport: the runs with a snapshot are interchangeable, *)
(* and so are the outputs.                                                 *)
EXTENDS JsonlExport, TLC

CONSTANTS r1, r2, r3, o1, o2
ThreeRuns == {r1, r2, r3}
TwoOutputs == {o1, o2}
(* The third run reads a source without a snapshot.                        *)
SnapshotRuns == {r1, r2}
Interchangeable == Permutations(Snapshot) \cup Permutations(Output)
=============================================================================
