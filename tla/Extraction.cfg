CONSTANTS
  launcher = launcher
  helper = helper
  Middle = 2
  NativeFiles <- MCNativeFiles
  CodegraphFiles <- MCCodegraphFiles
  Launcher = launcher
  Helpers = {helper}
SPECIFICATION Spec
CHECK_DEADLOCK FALSE
INVARIANTS
  TypeOK
  NoSurvivors
  NativeResolution
  QuarantineIsExact
  EvidenceIsAccounted
  IdentitiesAreUnique
PROPERTIES
  CommandEnds
