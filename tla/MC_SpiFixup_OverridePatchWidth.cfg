CONSTANTS
  Listings <- ListingsOverride
  LongSizes = {8}
SPECIFICATION Spec
INVARIANT OverridePatchWidth
CHECK_DEADLOCK FALSE
