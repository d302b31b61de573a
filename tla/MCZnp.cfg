SPECIFICATION FairSpec
CONSTANTS
  None = None
  Proc = {"main", "stop", "reset", "sender", "interview"}
  Interview = {"interview"}
  Scenarios <- MCScenarios
  Header <- MCHeader
  Perm = {"afIn"}
  Blocking = {"afIn"}
  Burst = 2
  MaxFault = 1
CHECK_DEADLOCK FALSE
PROPERTIES Returns CloseEnds Promised
