CONSTANTS
  u1 = u1
  u2 = u2
  u3 = u3
  bot = bot
  single = single
  group = group
  ai = ai
  garbage = garbage
  unknown = unknown
  Users <- MCUsers
  Bot = bot
  Gateways = {g1}
  None = None
  Payloads = {single, group, ai, garbage, unknown}
  MaxSent = 2
  Kind <- MCKind
  Sender <- MCSender
  Audience <- MCAudience
  MaxFaults = 2
  Workers = 2
SPECIFICATION MCSpec
INVARIANT TypeOK
INVARIANT OnePlace
INVARIANT AckedIsStored
INVARIANT PushedIsStored
PROPERTY PushedOnce
PROPERTY KeepsLedger
PROPERTY EventuallyStored
CHECK_DEADLOCK FALSE
