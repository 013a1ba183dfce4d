CONSTANTS
  Contents <- SomeContents
  MaxChanges = 1
SPECIFICATION Spec
CHECK_DEADLOCK FALSE
INVARIANT ShieldSparesVouched SignedSkipHeuristics SignatureIsReported ShieldWithinScan
