SPECIFICATION FairSpec
CONSTANTS
  a = a
  b = b
  Msg = {a}
  Channels = {"tick"}
  PreMarket = TRUE
  MaxEdits = 1
  MaxM0 = 1
  MaxJudgments = 2
  MaxM2 = 2
  MaxCrashes = 0
CHECK_DEADLOCK FALSE
PROPERTIES WindowCloses H0Judged ImplementsPipeline
