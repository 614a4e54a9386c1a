CONSTANTS
  q1 = q1
  q2 = q2
  Questions = {q1, q2}
  Plain = {q2}
  MaxFrames = 2
  OutCap = 1
  Kept = 1
  Limit = 1
  Window = 2
  MaxDelay = 1
  MaxTime = 3
  MaxFaults = 1
SPECIFICATION StreamSpec
INVARIANT StreamTypeOK
INVARIANT AnswerIsWhole
INVARIANT EndIsLast
INVARIANT RateLimited
INVARIANT AnswerIsStored
PROPERTY ProducerFinishes
CHECK_DEADLOCK FALSE
