SPECIFICATION FairConnSpec
CONSTANTS
  p1 = p1
  p2 = p2
  s1 = s1
  s2 = s2
  owner = owner
  status = status
  created_at = created_at
  text = text
  none = none
  noneText = noneText
  Missing = Missing
  Absent = Absent
  Procs <- MCProcs
  Keys <- MCKeys
  Fields <- MCFields
  Settable <- MCSettable
  Values <- MCValues
  Text <- MCText
  Default <- MCDefault
  Given <- MCGiven
  Updates <- MCUpdates
  Stubborn <- MCStubborn
PROPERTIES RetriesGetThrough
