SPECIFICATION Spec
CONSTANTS
  PoolSize = 2
  ClockMod = 16
  Factor = 0
  Window = 3
  Reserve = 1
  MaxAir = 2
  CalibInterval = 3
  AgcInterval = 0
  NonRxTimeout = 2
  CadMax = 2
  RetryDelay = 1
  MinRxDelay = 1
  MaxRxDelay = 2
  FrameIds = 3
  Verdicts <- MCVerdicts
  Frames <- MCFrames
  Requests <- MCRequests
  Airtimes = {2}
  Busy = {TRUE, FALSE}
  RadioModes = {TRUE}
  StartTimes = {13}
  MaxLate = 1
  MaxReport = 3
  MaxOwed = 2
  Restarts = FALSE
  StopTime = 2
INVARIANTS TypeOK PacketConservation NoMissedWork CompletionMatchesOutbound
PROPERTIES MostUrgentFirst
