SPECIFICATION Spec
CONSTANTS
  Scenarios <- MCScenarios
  Day = 96
  None = None
  
PROPERTIES Curves
