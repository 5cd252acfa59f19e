CONSTANTS
  f1 = f1
  f2 = f2
  NoFrame = NoFrame
  Frame <- TwoFrames
  Header <- OneHeader
  QueueMax = 2
  RingMax = 2
  PopMax = 2
  UartMax = 2
  MaxDowns = 1
  MaxNoise = 1
SPECIFICATION Spec
SYMMETRY Symmetry
INVARIANT AtMostOneCon
CHECK_DEADLOCK FALSE
