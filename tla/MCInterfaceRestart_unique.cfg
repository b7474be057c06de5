SPECIFICATION RestartSpec
CONSTANTS
  s1 = s1
  s2 = s2
  aa = aa
  AA = AA
  bb = bb
  Sessions <- MCSessions
  Spellings <- MCSpellings
  LowerCase <- MCLowerCase
  NoSession = NoSession
  MaxRetries = 2
  MaxVnets = 2
INVARIANTS AttachedAreUnique
