SPECIFICATION LiveSpec
CONSTANTS
  o1 = o1
  o2 = o2
  low = low
  high = high
  None = None
  Ops = {o1}
  Judged = {}
  Values = {low, high}
  Target <- MCTarget
  Initially = low
  EventCap = 1
  CommandCap = 2
  MaxGen = 1
  MaxKnobs = 1
  MaxFails = 0
  MaxRechecks = 0
PROPERTIES
  EveryCallEnds
  Converges
  CloseReturns
