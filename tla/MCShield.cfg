CONSTANTS
  Files = {f1, f2}
  MaxStarts = 2
  MaxWrites = 2
SPECIFICATION FairSpec
CHECK_DEADLOCK FALSE
INVARIANT StopLeavesNothing WatcherOwnsSlot
PROPERTY ChangeIsDealtWith StopEnds
