CONSTANTS
  root = root
  dba = dba
  app = app
  t1 = t1
  Admins = {root, dba}
  Applications = {app}
  Commands <- MCCommands
  Databases = {"main", "orders"}
  Tables = {t1}
  Schema = "public"
  DsnDatabase = "main"
  FirstFacts <- MCFirstFacts
  MaxCommands = 2
SPECIFICATION Spec
INVARIANTS SuccessHolds FailedChangeCanBeRepeated AnAdministratorRemains
