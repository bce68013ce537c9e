SPECIFICATION AuditSpec
CONSTANTS
  Agents = {a1}
  EnvSecrets = {e1}
  MaxEvents = 1
  Retention = 1
  Day = 1
  Batch = 2
  MaxSaved = 2
  MaxKeys = 2
  MaxTime = 3
INVARIANTS
  ProvisionedRowsReadable
PROPERTIES
  NothingDeletedEarly
  RetentionEnforced
  EventuallyRelayed
