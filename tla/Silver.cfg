SPECIFICATION Spec
CONSTANTS
  a = a
  b = b
  c = c
  n = n
  p1 = p1
  p2 = p2
  Jobs = {p1}
  LastDay = 2
  LastType = 2
  Named = {1, 2}
  Profiled = {1}
  Ids = {a, b, c, n}
  Models <- MCModels
  Stored <- MCStoredTwoDays
  MaxVersion = 1
  Rows <- MCRows
  Flagged <- MCFlagged
  Ranges <- MCOneRange
  Overlapping = FALSE
  ForceFlags = {FALSE}
  Fallible = {"part", "quarantine_notices"}
  BatchWorkers = 1
  MaxCopies = 2
  NoManifest = NoManifest
INVARIANTS
  TypeOK
  SkippableRangeIsCurrent
  BuiltTypeIsAccounted
  RangeBuildLeavesNothingStale
