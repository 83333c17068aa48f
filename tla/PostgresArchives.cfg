SPECIFICATION Spec
CONSTANTS
  d1 = d1
  d2 = d2
  Dumps <- TwoDumps
  Restores = {r1}
  Name = {"app-20260101-000000.dump"}
  UsersFile = "users.dump"
  User = User
  NoFile = NoFile
SYMMETRY Interchangeable
INVARIANTS ReportsAreTrue NoResidue
PROPERTIES ImplementsAtomicArtifacts
CHECK_DEADLOCK FALSE
