SPECIFICATION OrderSpec
CONSTANTS
  Table <- MCTable
  Selections <- MCSelections
INVARIANTS ReturnsCanonicalOrder CycleReportedExactly SubsetKeepsOrder
