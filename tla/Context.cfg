CONSTANTS
  f1 = f1
  f2 = f2
  callee = callee
  caller = caller
  other = other
  script = script
  v1 = v1
  v2 = v2
  Files = {f1, f2}
  Names = {callee, caller, other, script}
  FileOf <- MCFileOf
  Calls <- MCCalls
  SpanTables <- MCSpanTables
  Length = 5
  FormFeeds = {}
  PageSize = 2
  Depth = 2
  Versions = {v1, v2}
  Gone = Gone
  NoHash = NoHash
SPECIFICATION Spec
SYMMETRY Symmetry
CHECK_DEADLOCK FALSE
INVARIANTS
  TypeOK
  SourceIsIndexed
  EvidenceIsFresh
  EvidenceHasSources
  HonestAnswer
  SpansCoverOnce
