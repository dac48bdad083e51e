CONSTANTS
  Dirs <- DirsCore
  BuildTypeOk = {FALSE, TRUE}
  BuildDirOk = {FALSE, TRUE}
  RmuPresent <- RmuCore
  NONE = NONE
SPECIFICATION Spec
INVARIANT TypeOK
CHECK_DEADLOCK FALSE
