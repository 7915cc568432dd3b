SPECIFICATION FairSpec
CONSTANTS
  Operator = Operator
  a1 = a1
  Agents = {a1}
  gui = gui
  agent = agent
  Clients = {agent}
  PrincipalOf <- MCLivePrincipalOf
  Requests = {r1, r2}
  Keys = {}
  NoKey = NoKey
  Outcomes <- MCLiveOutcomes
  Retained = 1
  UnfinishedLimit = 2
  MaxOps = 2
  MaxPanics = 1
PROPERTIES
  EveryOperationEnds ShutdownReturns
