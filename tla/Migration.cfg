SPECIFICATION Spec
CONSTANTS
  Module = {"a", "b"}
  Mig = {"a1", "a2", "a3", "a4", "b1"}
  Mod <- MCMod
  Time <- MCTime
  Ddl = {"a1", "a3", "a4"}
  HasMessage = {"a4"}
  AdminInitialMigration = "a1"
  AdminMigrationSeed = "a3"
  None = "none"
  MaxCalls = 5
  MaxFaults = 2
CHECK_DEADLOCK FALSE
INVARIANTS
  TypeOK
  RowsMatchSchema
  OneOffPerFailure
  NoGap
  RollbackIsExact
