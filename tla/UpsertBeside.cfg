SPECIFICATION UpsertSpec
CONSTANTS
  Key <- MCKey
  Value <- MCValue
  Absent = Absent
  Blocks <- ShortBlocks
  Isolation = {"statement", "snapshot", "database"}
  MaxOther = 3
PROPERTIES WrittenUnlessDeleted
CHECK_DEADLOCK FALSE
