CONSTANTS
  Files = {f1}
  Targets <- AllOnly
  NoFile = NoFile
  QueueCap = 1
  MaxScans = 2
  MaxShieldHits = 1
  MaxBoxes = 2
SPECIFICATION FairSpec
 
PROPERTY EndIsSeen
CHECK_DEADLOCK FALSE
