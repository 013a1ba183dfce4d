CONSTANTS
  Files = {f1, f2}
  Targets <- AllOrNone
  NoFile = NoFile
  QueueCap = 2
  MaxScans = 2
  MaxShieldHits = 0
  MaxBoxes = 1
SPECIFICATION Spec
SYMMETRY Symmetry
CONSTRAINT StaysOpen
INVARIANT SelectedAreTaken SerialScansReportAll EndsEarlyOnlyIfStopped
CHECK_DEADLOCK FALSE
