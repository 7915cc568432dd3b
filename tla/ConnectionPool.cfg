SPECIFICATION LiveSpec
CONSTANTS
  r1 = r1
  r2 = r2
  op = op
  s1 = s1
  s2 = s2
  here = here
  there = there
  None = None
  Clients = {r1, op}
  Operations = {op}
  Savers = {s1}
  Hosts = {here, there}
  Initially = here
CHECK_DEADLOCK FALSE
PROPERTY IdleReleased
INVARIANTS
  OneSession
  NeverUnderOperation
  SubscribersTold
  AddressInFile
  ShutdownLeavesNone
