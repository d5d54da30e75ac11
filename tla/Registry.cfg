SPECIFICATION Spec
CONSTANTS
  daily = daily
  own = own
  a = a
  b = b
  damaged = damaged
  Status <- MCStatus
  Schedules <- MCSchedules
  Defaults <- MCDefaults
  Configs <- MCConfigs
  Damaged = damaged
  MaxEdits = 2
  MaxFaults = 2
INVARIANTS HistoryTrue SnapshotCurrent
PROPERTIES UpdateOnSeen RepairRestores
CHECK_DEADLOCK FALSE
SYMMETRY Interchangeable
