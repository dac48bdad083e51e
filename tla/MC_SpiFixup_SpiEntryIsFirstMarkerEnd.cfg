CONSTANTS
  Listings <- ListingsScan
  LongSizes = {4}
SPECIFICATION Spec
INVARIANT SpiEntryIsFirstMarkerEnd
CHECK_DEADLOCK FALSE
