CONSTANTS
  Names <- NamesCore
  Externals <- ExternalsCore
  Options <- OptionsAll
  Disks <- DisksCore
  MaxRuns = 3
  MaxFaults = 1
  NONE = NONE
SPECIFICATION Spec
INVARIANT TypeOK
INVARIANT StaleFree
PROPERTY RecoversAfterLastFault
CHECK_DEADLOCK FALSE
