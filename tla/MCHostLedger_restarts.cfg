SPECIFICATION HostSpec
CONSTANTS
  s1 = s1
  v1 = v1
  v2 = v2
  v3 = v3
  v4 = v4
  None = None
  Sessions <- MCSessions
  VMs <- MCVMs
  Statuses <- MCStatuses
  ActiveStatuses <- MCActive
  MaxRules = 0
  MaxAudit = 0
  CallersKeepOrder = FALSE
  NeedOf <- MCNeedOf
  Unreadable <- MCUnreadable
  Unadmitted <- MCUnadmitted
  TotalCPU = 4
  ReservedCPU = 1
  TotalMemory = 4
  ReservedMemory = 1
  TotalDisk = 3
  MaxVMs = 2
INVARIANTS HostTypeOK ActiveVMsAreAccounted LedgerLeaksNothing
  AdmittedVMsFitHost
