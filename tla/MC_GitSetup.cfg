CONSTANTS
  Listings <- ListingsCore
  Configs <- ConfigsCore
  TagSha = "c1"
  MaxRuns = 3
  MaxFaults = 1
  NONE = NONE
SPECIFICATION Spec
INVARIANT TypeOK
INVARIANT FreshExtraction
INVARIANT FreshWorkdir
CHECK_DEADLOCK FALSE
