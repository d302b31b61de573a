CONSTANTS
  p1 = p1
  p2 = p2
  None = None
  Proc = {p1, p2}
  Axis = {"state"}
  Source = {"window", "button"}
  Value = {"on", "off"}
  Requests <- MCRequests
  MaxClock = 2
  MaxPush = 2
  MaxDisturbed = 1
SPECIFICATION FairSpec
INVARIANTS Settled NoResurrection TimerCovers
PROPERTY Converges
