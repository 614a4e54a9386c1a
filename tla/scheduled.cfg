CONSTANTS
  a1 = a1
  a2 = a2
  s1 = s1
  s2 = s2
  s3 = s3
  t1 = t1
  t2 = t2
  Machines = {a1, a2}
  NodeOf <- MCNodeOf
  MaxSeq = 1
  MaxTime = 2
  Tasks = {t1, t2}
  Scans = {s1, s2, s3}
  MachineOf <- MCMachineOf
  Batch = 2
  MaxFaults = 1
SPECIFICATION TaskSpec
INVARIANT TaskTypeOK
INVARIANT UniqueIds
INVARIANT IdsIncrease
INVARIANT SentAtMostOnce
INVARIANT SuccessIsTrue
INVARIANT ClaimedIsHandled
CHECK_DEADLOCK FALSE
