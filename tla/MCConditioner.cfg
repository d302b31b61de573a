SPECIFICATION FairSpec
CONSTANTS
  w = w
  None = None
  Rpc = {r1}
  Alerts = {"cold"}
  Lists <- AllLists
  Windows = {w}
  Grace = 1
  Refresh = 2
  MaxFail = 1
  MaxTurn = 1
  Movers <- OneMover
PROPERTIES
  SafeAfterClose
  Asserted
