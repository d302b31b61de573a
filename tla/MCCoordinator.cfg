SPECIFICATION FairSpec
CONSTANTS
  c1 = c1
  c2 = c2
  d1 = d1
  d2 = d2
  Caller = {c1, c2}
  Main = c1
  Clock = c2
  StatusCap = 2
  Polls = 1
  InFlight = 2
  Configs = 1
  Policies = 1
  Endpoints = 1
  None = None
  Bad = Bad
  Scenarios <- MCScenarios
INVARIANTS NeverZeroKey  WaiterLive
PROPERTIES Settles
