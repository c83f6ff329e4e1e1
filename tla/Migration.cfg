SPECIFICATION MigrationSpec
CONSTANTS
  OldDocs = {d1, d2}
  NewDocs = {n1}
  MaxStarts = 2
INVARIANTS
  SetAsideAfterMigration
CHECK_DEADLOCK FALSE
