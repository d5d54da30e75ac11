SPECIFICATION FairSpec
CONSTANTS
  a = a
  b = b
  c = c
  d = d
  k = k
  m = m
  s1 = s1
  s2 = s2
  NoStream = NoStream
  NoCommand = NoCommand
  Command = {a, b, c, m}
  Stream = {s1}
  StreamOf <- WithForeign
  Chat = {a}
  Stop = {c}
  Fragile = {b}
  Malformed = {m}
  MaxRetries = 3
  MaxTroubles = 1
  MaxGaps = 1
INVARIANTS
  NothingLost
  ToldTheTruth
  ValidNeverBuried
PROPERTIES
  EffectsInOrder
  ImplementsDelivery
  EveryAnswered
  EverySettles
CHECK_DEADLOCK FALSE

