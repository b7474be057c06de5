SPECIFICATION FairBridgeSpec
CONSTANTS
  s1 = s1
  s2 = s2
  s3 = s3
  aa = aa
  AA = AA
  bb = bb
  Sessions <- MCSessions
  Spellings <- MCSpellings
  LowerCase <- MCLowerCase
  NoSession = NoSession
  MaxRetries = 2
  MaxVnets = 4
INVARIANTS BridgeTypeOK SetsMatchMapping NoTwoSessionsShare
PROPERTIES ImplementsPool AllocationEnds
