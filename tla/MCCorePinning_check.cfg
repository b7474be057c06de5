SPECIFICATION PinningSpec
CONSTANTS
  v1 = v1
  v2 = v2
  v3 = v3
  VMs <- MCVMs
  Needs <- MCNeeds
  Hosts <- MCHosts
  Reserved <- MCReserved
  TotalCPU = 6
  ReservedCPU = 2
  TotalMemory = 4
  ReservedMemory = 1
  TotalDisk = 3
  MaxVMs = 2
SYMMETRY Symmetry
INVARIANTS CapacityTypeOK CheckSpecIsExact
  PinsAreExclusive PinsAreWhatWasAdmitted AdmittedVMsGetCores
PROPERTIES OneNodeWherePossible
