SPECIFICATION Spec
CONSTANTS
  r1 = r1 r2 = r2 t1 = t1 t2 = t2 t3 = t3 t4 = t4
  Run <- Runs
  Target <- Targets
  Config <- InOrder
  Enabled = {t1, t3, t4}
  File <- FileNames
  Name <- Stems
  Modes = {"fresh", "resume"}
  MaxNumber = 3
  NoFile = NoFile
SYMMETRY Interchangeable
INVARIANTS ReportsAreTrue
PROPERTIES NothingIsReplaced
CHECK_DEADLOCK FALSE
