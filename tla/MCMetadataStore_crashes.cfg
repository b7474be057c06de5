SPECIFICATION Spec
CONSTANTS
  s1 = s1
  s2 = s2
  v1 = v1
  v2 = v2
  None = None
  Sessions <- MCSessions
  VMs <- MCVMs
  Statuses <- OneStatus
  ActiveStatuses <- OneStatus
  MaxRules = 2
  MaxAudit = 1
  CallersKeepOrder = TRUE
SYMMETRY Symmetry
INVARIANTS TypeOK NoRowWithoutSession OrphansOnlyFromCutDelete
  ReturnedDeleteLeavesNothing
PROPERTIES RuleIdsAreFresh
