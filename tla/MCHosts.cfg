CONSTANTS
  d1 = d1
  d2 = d2
  note = note
  Procs = {window, installer}
  Own = {u1, u2}
  Domains = {d1, d2}
  Passed = {note}
  Lists <- MCLists
  MaxCalls = 3
  MaxEdits = 2
SPECIFICATION HostsSpec
SYMMETRY MCSymmetry
CHECK_DEADLOCK FALSE
INVARIANT OneBlock EntriesSurvive
PROPERTY ClearLeavesOwn
