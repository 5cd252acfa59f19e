CONSTANTS
  Values = {0, 1}
  Default = 0
  Images <- MCImages
  First = 1
  NoImage = 0
  Layout <- MCLayout
  Version <- MCVersion
  Quiet = 0
  MinSaveInterval = 2
  Wrap = 4
  RestartDelay = 1
  RebootDelay = 0
  Verify = 0
  MaxUpdates = 2
SPECIFICATION Spec
INVARIANTS LoadedIsComplete SavedInTime ResetSticks
