CONSTANTS
  u1 = u1
  u2 = u2
  bot = bot
  c1 = c1
  c2 = c2
  g1 = g1
  g2 = g2
  m1 = m1
  Users <- MCUsers
  Bot = bot
  Gateways = {g1, g2}
  None = None
  Payloads = {m1}
  Kind <- MCKind
  Sender <- MCSender
  Audience <- MCAudience
  MaxFaults = 0
  Conns = {c1, c2}
  UserOf <- MCUserOf
  GatewayOf <- MCGatewayOf
  SendCap = 1
  Control = Control
SPECIFICATION SessionSpec
INVARIANT UnroutedIsOffline
CHECK_DEADLOCK FALSE
