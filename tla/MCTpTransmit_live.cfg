CONSTANTS
  f1 = f1
  f2 = f2
  NoFrame = NoFrame
  Frame <- OneFrame
  Header <- OneHeader
  QueueMax = 1
  RingMax = 1
  PopMax = 1
  UartMax = 1
  MaxDowns = 1
  MaxNoise = 1
SPECIFICATION FairSpec
PROPERTY EventuallyConfirmed
CHECK_DEADLOCK FALSE
