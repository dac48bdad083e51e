CONSTANTS
  AddrTop <- Top
  LayoutConfSize = 300
  Manifests <- ManifestsMfhOverlap
  DupVerdicts = {FALSE}
  Modes = {"flash"}
  NONE = NONE
SPECIFICATION Spec
INVARIANT MfhContentIntact
CHECK_DEADLOCK FALSE
