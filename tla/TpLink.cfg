CONSTANTS
  UartMax = 2
  AskMax = 3
  MaxDowns = 1
  MaxNoise = 1
SPECIFICATION FairSpec
INVARIANT ConfigurationAgrees
PROPERTY DeafEnds
