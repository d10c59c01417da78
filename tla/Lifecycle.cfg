CONSTANTS
  t1 = t1
  t2 = t2
  t3 = t3
  Processes = {p1, p2, p3, p4}
  Terminals = {t1, t2, t3}
  Scripts <- MCScripts
  NoProcess = NoProcess
  MaxKills = 2
SPECIFICATION Spec
SYMMETRY Symmetry
CHECK_DEADLOCK FALSE
INVARIANTS
  TypeOK
  RunningIsFound
  StartsSucceed
PROPERTY StoppedIsReleased
