CONSTANTS
  Nothing = Nothing
  Settings <- MCSettings
  MaxHeight = 3
  MaxReorgs = 1
  MaxFailures = 1
SPECIFICATION AuditSpec
PROPERTY NotRewritten
CHECK_DEADLOCK FALSE
