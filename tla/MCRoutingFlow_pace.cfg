CONSTANTS
  Wrap = 32
  QueueDepth = 2
  Gap = 1
  PerSecond = 2
  Second = 4
  MaxWait = 2
  WaitTimes = {1, 3}
  RandomUnit = 1
  BusySpacing = 1
  CountMax = 2
  QuietUnit = 2
  DecayGap = 1
  ReportGap = 3
  ReportMax = 1
  CounterWrap = 3
  Start <- MCStart
  MaxTime = 67
  MaxBusy = 2
  MaxLoss = 2
  MaxRejoin = 2
SPECIFICATION Spec
INVARIANTS PauseEnds LossesReported
PROPERTY RateKept
CHECK_DEADLOCK FALSE
