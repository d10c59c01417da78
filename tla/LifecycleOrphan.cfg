CONSTANTS
  t1 = t1
  t2 = t2
  t3 = t3
  Processes = {p1, p2}
  Terminals = {t1, t2}
  Scripts <- StopAndStart
  NoProcess = NoProcess
  MaxKills = 0
SPECIFICATION Spec
SYMMETRY Symmetry
CHECK_DEADLOCK FALSE
INVARIANT RunningIsFound
