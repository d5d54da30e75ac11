SPECIFICATION Spec
CONSTANTS
  a = a
  b = b
  Msg = {a}
  Channels = {"tick", "http"}
  PreMarket = FALSE
  MaxEdits = 0
  MaxM0 = 0
  MaxJudgments = 1
  MaxM2 = 1
  MaxCrashes = 0
SYMMETRY Symmetry
CHECK_DEADLOCK FALSE
PROPERTIES H0Final
