CONSTANTS
  u1 = u1
  u2 = u2
  u3 = u3
  bot = bot
  single = single
  group = group
  ai = ai
  garbage = garbage
  unknown = unknown
  Users <- MCUsers
  Bot = bot
  Gateways = {g1}
  None = None
  Payloads = {single}
  Kind <- MCKind
  Sender <- MCSender
  Audience <- MCAudience
  MaxSent = 2
  MaxFaults = 1
  Workers = 2
SPECIFICATION MCSpec
PROPERTY QueueDrains
CHECK_DEADLOCK FALSE
