SPECIFICATION FairSpec
CONSTANTS
  f = f
  g = g
  r = r
  q = q
  Schedules = {f}
  Targets = {1, 2}
  Lead <- LeadOf
  Formal = {f}
  Requests = {r, q}
  AskedAt <- AskedOf
  Malformed = {q}
  Limit = 2
  CatchUp = 1
  RetryDeadline <- DeadlineOf
  Zone = 2
  Backoff = {1}
  Midnight = 4
  LastTime = 4
  MaxEdits = 1
  MaxFaults = 1
INVARIANTS SlotLeft RetryInWindow
PROPERTIES NeverEarly MissHonest DueServed
