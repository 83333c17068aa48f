CONSTANTS
  Runs = {r1, r2}
  CommandLines <- MCCommandLines
  Setups <- MCSetups
  MaxFaults = 1
SPECIFICATION InstallSpec
INVARIANTS OutcomesAreTrue NothingIsLost ResidueIsExplained
PROPERTIES ApplyConverges
CHECK_DEADLOCK FALSE
