SPECIFICATION Spec
CONSTANTS
  e1 = e1
  e12 = e12
  Ids <- MCIds
  PrefixOf <- MCPrefixOf
  FileTypes = {audio}
  Iters = {1}
  NumFiles = 3
  NoDir = NoDir
  NoFile = NoFile
  StaleFile = StaleFile
  NoTarget = NoTarget
PROPERTY EraseEndsOnlyItsExperiment
