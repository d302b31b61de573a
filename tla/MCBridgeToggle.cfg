SPECIFICATION Spec
CONSTANTS
  Scenarios <- Toggling
  EvaluationInterval = 2
  bridgeImperativeTTL = 10
  FadeBuffer = 1
  Late = 1
  MaxFlight = 2
  Day = 24
  MaxNow = 18
  None = None

PROPERTY PressWins
