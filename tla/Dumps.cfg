SPECIFICATION Spec
CONSTANTS
  r1 = r1 r2 = r2 r3 = r3
  Run <- ThreeRuns
  ExplicitOutput <- SomeOutputs
  Archives = {FALSE}
  Containers = {TRUE}
  MaxSequence = 2
  NoFile = NoFile
SYMMETRY Interchangeable
INVARIANTS SuccessNamesItsOwnDump NoResidue
PROPERTIES ImplementsAtomicArtifacts
CHECK_DEADLOCK FALSE
