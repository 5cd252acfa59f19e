CONSTANTS
  c1 = c1
  c2 = c2
  Conns = {c1, c2}
  QueueDepth = 2
  QueueBytes = 3
  Lengths = {1, 2}
  SeqMod = 3
  MaxOffered = 4
  MaxShared = 1
SPECIFICATION MCSpec
INVARIANTS
  FramesConserved
  AckedWasDelivered
  BytesAccounted
PROPERTIES
  EssentialFramesKept
  RequestSettled
  ImplementsContract
