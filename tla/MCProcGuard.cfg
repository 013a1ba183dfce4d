CONSTANTS
  Pids = {10, 20}
  Images = {"good", "guess"}
  MaxPids = 1
  MaxProcs = 3
  MaxFails = 1
SPECIFICATION FairSpec
CHECK_DEADLOCK FALSE
INVARIANT KnownIsChecked
PROPERTY EndsOnlyHits StartedIsChecked
