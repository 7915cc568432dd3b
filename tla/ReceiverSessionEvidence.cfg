SPECIFICATION Spec
CONSTANTS
  o1 = o1
  o2 = o2
  low = low
  high = high
  None = None
  Ops = {o1}
  Judged = {o1}
  Values = {low, high}
  Target <- MCTarget
  Initially = low
  EventCap = 2
  CommandCap = 2
  MaxGen = 1
  MaxKnobs = 1
  MaxFails = 1
  MaxRechecks = 1
INVARIANT EvidenceBelongs
