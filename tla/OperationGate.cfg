SPECIFICATION Spec
CONSTANTS
  Operator = Operator
  a1 = a1
  Agents = {a1}
  gui = gui
  agent = agent
  Clients = {gui, agent}
  PrincipalOf <- MCPrincipalOf
  Requests = {r1}
  Keys = {k1}
  NoKey = NoKey
  Outcomes <- MCOutcomes
  Retained = 1
  UnfinishedLimit = 1
  MaxOps = 2
  MaxPanics = 1
INVARIANTS
  NoTwins CancelWins HonestEnd LedgerCoversWrites
  ReservationReleased EndAnnounced
PROPERTIES
  ImplementsLifecycle
