SPECIFICATION Spec
CONSTANTS
  a = a
  b = b
  Msg = {a, b}
  Channels = {"tick"}
  PreMarket = TRUE
  MaxEdits = 0
  MaxM0 = 1
  MaxJudgments = 2
  MaxM2 = 2
  MaxCrashes = 1
SYMMETRY Symmetry
CHECK_DEADLOCK FALSE
INVARIANTS M2Grounded WholeUninterrupted NoneStranded LedgerAgrees
PROPERTIES H0Final PublishedStays
