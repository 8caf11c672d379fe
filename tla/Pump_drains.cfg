SPECIFICATION FairSpec
CONSTANTS
  PoolSize = 2
  ClockMod = 6
  Factor = 0
  Window = 1
  Reserve = 1
  MaxAir = 2
  CalibInterval = 2
  AgcInterval = 0
  NonRxTimeout = 1
  CadMax = 1
  RetryDelay = 1
  MinRxDelay = 1
  MaxRxDelay = 1
  FrameIds = 2
  Verdicts <- FewVerdicts
  Frames <- FewFrames
  Requests <- FewRequests
  Airtimes = {1}
  Busy = {TRUE, FALSE}
  RadioModes = {TRUE}
  StartTimes = {0}
  MaxLate = 1
  MaxReport = 2
  MaxOwed = 1
  Restarts = FALSE
  StopTime = 7

PROPERTIES Drains
