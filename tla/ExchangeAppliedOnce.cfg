SPECIFICATION Spec
CONSTANTS
  a = a
  b = b
  c = c
  d = d
  k = k
  m = m
  s1 = s1
  s2 = s2
  NoStream = NoStream
  NoCommand = NoCommand
  Command = {a, b}
  Stream = {s1}
  StreamOf <- OneStream
  Chat = {}
  Stop = {}
  Fragile = {}
  Malformed = {}
  MaxRetries = 3
  MaxTroubles = 1
  MaxGaps = 0
INVARIANTS
  AppliedOnce
CHECK_DEADLOCK FALSE
