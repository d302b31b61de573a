CONSTANTS
  p1 = p1
  p2 = p2
  None = None
  Proc = {p1, p2}
  Value = {"wet", "dry"}
  Scenarios <- MCScenarios
SPECIFICATION FairSpec
INVARIANTS AtMostOnce
PROPERTIES ContinuouslyObserved StableFires
CHECK_DEADLOCK FALSE
