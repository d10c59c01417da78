CONSTANTS
  launcher = launcher
  helper = helper
  Middle = 0
  NativeFiles <- MCNativeFiles
  CodegraphFiles <- MCBehindClass
  Launcher = launcher
  Helpers = {helper}
SPECIFICATION Spec
CHECK_DEADLOCK FALSE
INVARIANTS
  ParametersAreQuarantined
