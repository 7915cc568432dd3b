SPECIFICATION LiveSpec
CONSTANTS
  o1 = o1
  o2 = o2
  low = low
  high = high
  None = None
  Ops = {}
  Judged = {}
  Values = {low, high}
  Target <- MCTarget
  Initially = low
  EventCap = 3
  CommandCap = 2
  MaxGen = 1
  MaxKnobs = 0
  MaxFails = 3
  MaxRechecks = 0
PROPERTY MonitoringGoesOn
