CONSTANTS
  n1 = n1
  n2 = n2
  n3 = n3
  c1 = c1
  c2 = c2
  Native = {n1, n2}
  Codegraph = {c1}
  Logical = Logical
  NoId = NoId
  Batches <- MCBatches
  LegacyRows <- MCLegacyRows
  Durable = TRUE
  MaxFailures = 2
  MaxCrashes = 1
SPECIFICATION Spec
INVARIANTS
  PublishedIsWhole
  ReportedSurvives
PROPERTIES
  RetainedLosesNothing
  ImplementsPublishedGraph
