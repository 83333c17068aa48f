SPECIFICATION Spec
CONSTANTS
  r1 = r1 r2 = r2 r3 = r3 o1 = o1 o2 = o2
  Run <- ThreeRuns
  Output <- TwoOutputs
  Tables = 1
  Snapshot <- SnapshotRuns
  NoFile = NoFile
  MaxCommits = 1
SYMMETRY Interchangeable
PROPERTIES ImplementsAtomicArtifacts PublishesItsOwn
CHECK_DEADLOCK FALSE
