SPECIFICATION Spec
CONSTANTS
  PoolSize = 2
  ClockMod = 16
  Factor = 0
  Window = 3
  Reserve = 1
  MaxAir = 2
  CalibInterval = 5
  AgcInterval = 2
  NonRxTimeout = 2
  CadMax = 2
  RetryDelay = 1
  MinRxDelay = 1
  MaxRxDelay = 2
  FrameIds = 3
  Verdicts <- FewVerdicts
  Frames <- FewFrames
  Requests <- FewRequests
  Airtimes = {1}
  Busy = {FALSE}
  RadioModes = {TRUE, FALSE}
  StartTimes = {10}
  MaxLate = 1
  MaxReport = 3
  MaxOwed = 2
  Restarts = TRUE
  StopTime = 13
INVARIANTS NoMissedWork
