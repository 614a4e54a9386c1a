CONSTANTS
  q1 = q1
  q2 = q2
  Questions = {q1}
  Plain = {}
  MaxFrames = 2
  OutCap = 1
  Kept = 1
  Limit = 1
  Window = 2
  MaxDelay = 1
  MaxTime = 3
  MaxFaults = 0
SPECIFICATION StreamSpec
PROPERTY OfflineIsStored
CHECK_DEADLOCK FALSE
