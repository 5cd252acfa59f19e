CONSTANTS
  Sessions = {1, 2}
  Addresses = {a, b}
  NoAddress = none
  SeqMod = 3
  MaxLate = 1
  Services <- MCServices
  MaxRequests <- MCRequests
  MaxLine = 1
  MaxNet = 2
SPECIFICATION Spec
INVARIANTS
  TakenInOrder
  AckedWasTaken
  ConAccounted
  ConFromPredecessor
  AnswerAfterCon
CONSTRAINT NetBound
SYMMETRY AddressSymmetry
CHECK_DEADLOCK FALSE
