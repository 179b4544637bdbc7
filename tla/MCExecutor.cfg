SPECIFICATION ExecSpec
CONSTANTS
  MaxHorizon = 5
  MaxSpike = 3
  MaxT = 16
  None = None
INVARIANTS
  ChecksWhatIsExecuted
  RowsInTime
CHECK_DEADLOCK FALSE
