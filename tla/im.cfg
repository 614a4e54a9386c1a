CONSTANTS
  u1 = u1
  u2 = u2
  bot = bot
  cs = cs
  c1 = c1
  c2 = c2
  g1 = g1
  m1 = m1
  Users <- MCUsers
  Bot = bot
  Gateways = {g1}
  None = None
  Payloads = {m1}
  Kind <- MCKind
  Sender <- SelfSender
  Audience <- MCAudience
  MaxFaults = 1
  Workers = 1
  Conns = {c1, c2}
  UserOf <- MCUserOf
  GatewayOf <- MCGatewayOf
  SendCap = 1
  Control = Control
SPECIFICATION ImSpec
INVARIANT SessionTypeOK
INVARIANT OneOpenConnection
INVARIANT OnlineIsRouted
INVARIANT NoStranded
INVARIANT OnlyReceiver
INVARIANT ServerAckedIsKept
PROPERTY StatusNeverFalls
PROPERTY ClosedIsReaped
CHECK_DEADLOCK FALSE
