SPECIFICATION FairSpec
CONSTANTS
  p1 = p1
  p2 = p2
  bulb = bulb
  plug = plug
  None = None
  Proc = {p1, p2}
  Devices = {bulb}
  Lights = {bulb}
  Native = {}
  Scenarios <- MCScenarios
  Powers = {"OFF"}
  Levels = {254}
  Hues = {100}
  RefreshAge = 1
INVARIANTS Reasserted RestartKeeps
PROPERTY Converges
