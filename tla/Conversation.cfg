SPECIFICATION FairSpec
CONSTANTS
  Batches = 2
  Ticked = {2}
  MaxAttempts = 2
  MaxResearch = 2
  MaxFaults = 1
INVARIANTS OneLease OnlyFaultsLapse RespondedIsAnswered ResearchDelivered
PROPERTIES TakenUp
CHECK_DEADLOCK FALSE
