SPECIFICATION Spec
CONSTANTS
  Chunks = 2
  Capacity = 1
  MaxOutput = 2
  Alphabet <- Symbols
  MaxEdition = 1
INVARIANTS ServerGetsCheckedText LifecycleStatementsAreFound ReportIsTrue NoTemporariesLeft
PROPERTIES RestoreEnds
CHECK_DEADLOCK FALSE
