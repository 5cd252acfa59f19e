CONSTANTS
  Tool = 1
  Other = 2
  Partners <- BothPartners
  OtherTypes = {"Connect"}
  SeqNumbers = 3
  MaxRepCount = 1
  AckTimeout = 0
  ConnectionTimeout = 1
  MaxApdus = 2
  MaxConnects = 2
  MaxLine = 2
  MaxRestarts = 1
SPECIFICATION FairSpec
INVARIANTS ApplicationAgrees TakenInOrder AckedWasTaken AnswersOnce SavedEndsWithConnection
PROPERTY WaitEnds
CHECK_DEADLOCK FALSE
