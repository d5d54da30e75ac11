SPECIFICATION FairSpec
CONSTANTS
  Batches = 2
  Ticked = {}
  MaxAttempts = 2
  MaxResearch = 1
  MaxFaults = 0
PROPERTIES Answered
CHECK_DEADLOCK FALSE
