SPECIFICATION MCSpec
CONSTANTS
  s1 = s1
  s2 = s2
  w1 = w1
  w2 = w2
  w3 = w3
  None = None
  Servers <- TwoServers
  Workers <- ThreeWorkers
  Setups <- SomeSetups
  Limits = {6, 9}
  Blocks = 1
  Width = 2
  MaxClients = 2
  MaxFailures = 1
INVARIANTS IInv LogKept NoEntryDropped
PROPERTIES ImplementsLog AllServe
CHECK_DEADLOCK FALSE
