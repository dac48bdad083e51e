CONSTANTS
  Inis <- InisOne
  IniPaths <- IniPathsLikeImage
  ImagePaths <- ImagePathsDefault
  OutPaths <- OutPathsDefault
  ImageSizes = {1048576}
  PyVersions = {3}
  NONE = NONE
SPECIFICATION Spec
INVARIANT OriginalNeverMutated
CHECK_DEADLOCK FALSE
