SPECIFICATION Spec
CONSTANTS
  Key <- MCKey
  Value <- MCValue
  Absent = Absent
  Omitted = Omitted
  Default = 1
  NullKey = NullKey
  BadValue = BadValue
  Table <- MCTable
  Parents <- MCParents
  Documents <- MCDocuments
  Choices <- MCChoices
  Modes <- BothModes
  InitialStores <- MCStores
  MaxAttempts = 2
  MaxReplaced = 1
INVARIANTS DoneIsComplete PreflightIsThorough ForeignKeysSatisfiedByOrder RetryConverges
PROPERTIES ImplementsWholeTables
CHECK_DEADLOCK FALSE
