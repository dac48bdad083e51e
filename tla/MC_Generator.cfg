CONSTANTS
  AddrTop <- Top
  LayoutConfSize = 300
  Manifests <- ManifestsCore
  DupVerdicts = {FALSE, TRUE}
  Modes = {"flash", "layoutmk"}
  NONE = NONE
SPECIFICATION Spec
INVARIANT TypeOK
INVARIANT SectionsIntact
INVARIANT BootListLeadsToItems
CHECK_DEADLOCK FALSE
