CONSTANTS
  Texts <- TextsCore
SPECIFICATION Spec
INVARIANT TypeOK
INVARIANT OptionDupWithinSection
INVARIANT SectionRepeatNeverPasses
CHECK_DEADLOCK FALSE
