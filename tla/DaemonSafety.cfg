CONSTANTS
  i1 = i1
  i2 = i2
  i3 = i3
  q1 = q1
  d1 = d1
  s1 = s1
  j1 = j1
  j2 = j2
  j3 = j3
  Requests = {i1, i2, q1, d1, s1}
  Kind <- MCKind
  Jobs = {j1, j2}
  Logical = Logical
  NoId = NoId
  Durable = TRUE
  MaxKills = 1
  MaxRestarts = 1
  MaxUnwritten = 1
SPECIFICATION Spec
SYMMETRY Symmetry
CHECK_DEADLOCK FALSE
INVARIANTS
  TypeOK
  OneWriter
  CancelIsFinal
  NoRequestIsLost
  IndexedIsServed
PROPERTY
  CoalescedToLiveJob
