CONSTANTS
  OwnAddresses <- MCOwn
  Partners <- MCPartners
  TunnelAddresses <- MCTunnels
  Groups = {1, 2}
  HighGroups = {2}
  LcConfigs <- MCLc
  GrpConfigs <- MCGrp
  Telegrams <- MCTelegrams
  Slots = 2
  MaxPasses = 2
  MaxWrites = 3
SPECIFICATION Spec
INVARIANTS AnswersGoBack AckedIsTaken CarriedIsAcked HopsRunOut
