CONSTANTS
  Paths = {p1}
  Contents = {c1, c2}
  Shields = {w1, w2}
  Ui = ui
  Absent = Absent
  Partial = Partial
  NoItem = NoItem
  MaxRuns = 2
  MaxAdds = 2
  MaxWrites = 1
SPECIFICATION Spec
SYMMETRY Symmetry
CONSTRAINT LaterRunsAddOne
INVARIANT CopyBeforeRemove IndexedWhole
PROPERTY NoOtherLoss PromiseSpec
