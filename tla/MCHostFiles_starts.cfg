SPECIFICATION FilesSpec
CONSTANTS
  v1 = v1
  c1 = c1
  c2 = c2
  NoFile = NoFile
  Partial = Partial
  Bad = Bad
  Unset = Unset
  Guests <- MCGuests
  Configs <- MCConfigs
  AsInt <- MCAsInt
  AsBool <- MCAsBool
  AsList <- MCAsList
  AsNetwork <- MCAsNetwork
  AsAddress <- MCAsAddress
  Docs <- MCDocs
  Envs <- MCEnvs
  Paths <- MCPaths
  Parent <- MCParent
  CloudDir = "vms"
SYMMETRY Symmetry
INVARIANTS FilesTypeOK LoadedConfigIsUsable OverriddenIsNeverRead ServedTreeIsPrivate
  ReturnedImageIsCurrent DeletedIsGone
