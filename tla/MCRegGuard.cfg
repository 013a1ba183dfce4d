CONSTANTS
  NKeys = 2
  Values = {v1, v2}
  Long = {v2}
  MaxChanges = 2
SPECIFICATION RegFairSpec
CHECK_DEADLOCK FALSE
INVARIANT WaitsForNothingDue KeptIsNotReported
PROPERTY AddedIsRead
