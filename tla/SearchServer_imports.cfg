SPECIFICATION Spec
CONSTANTS
  w1 = w1
  w2 = w2
  Workers = {w1, w2}
  Nobody = Nobody
  Nothing = Nothing
  Refused = Refused
  Scenarios <- Troubles
  Script <- SecondWorks
  MaxCalls <- NoneAndTwo
CHECK_DEADLOCK FALSE
INVARIANT FreshAfterImport
INVARIANT ImportsTakeEffect
PROPERTY ArchiveMonotone
