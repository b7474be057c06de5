SPECIFICATION Spec
CONSTANTS
  s1 = s1
  s2 = s2
  v1 = v1
  v2 = v2
  None = None
  Sessions <- MCSessions
  VMs <- MCVMs
  Statuses <- OneStatus
  ActiveStatuses <- OneStatus
  MaxRules = 0
  MaxAudit = 0
  CallersKeepOrder = TRUE
SYMMETRY Symmetry
INVARIANTS ReturnedDeletePurgesAllocations
