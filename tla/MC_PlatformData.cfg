CONSTANTS
  Inis <- InisCore
  IniPaths <- IniPathsCore
  ImagePaths <- ImagePathsCore
  OutPaths <- OutPathsCore
  ImageSizes = {65536, 1048576}
  PyVersions = {2, 3}
  NONE = NONE
SPECIFICATION Spec
INVARIANT TypeOK
 
INVARIANT OutputsWhenDone
CHECK_DEADLOCK FALSE
