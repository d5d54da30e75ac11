SPECIFICATION Spec
CONSTANTS
  a = a
  b = b
  Msg = {a}
  Channels = {"tick", "http"}
  PreMarket = FALSE
  MaxEdits = 0
  MaxM0 = 0
  MaxJudgments = 1
  MaxM2 = 0
  MaxCrashes = 0
SYMMETRY Symmetry
CHECK_DEADLOCK FALSE
INVARIANTS Blind SingleFormal
PROPERTIES SubmittedFinal ImplementsPreparation
