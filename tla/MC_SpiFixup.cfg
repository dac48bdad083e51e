CONSTANTS
  Listings <- ListingsCore
  LongSizes = {4, 8}
SPECIFICATION Spec
INVARIANT TypeOK
INVARIANT HeaderChecksumValid
CHECK_DEADLOCK FALSE
