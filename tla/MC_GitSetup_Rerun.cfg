CONSTANTS
  Listings <- ListingsOne
  Configs <- ConfigsClone
  TagSha = "c1"
  MaxRuns = 3
  MaxFaults = 1
  NONE = NONE
SPECIFICATION Spec
PROPERTY RecoversFromTransientFault
CHECK_DEADLOCK FALSE
