SPECIFICATION Spec
CONSTANTS
  Threads = {scan, shield}
  Versions = {1, 2}
  Full <- Lengths
  Slots = 2
  MaxBegun = 2
  MaxBoxes = 1
  MaxAge = 2
CHECK_DEADLOCK FALSE
INVARIANT InStep
PROPERTY NamesKept NamedAsLoaded WaitsEnd
