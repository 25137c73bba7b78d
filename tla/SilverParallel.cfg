SPECIFICATION Spec
CONSTANTS
  a = a
  b = b
  c = c
  n = n
  p1 = p1
  p2 = p2
  Jobs = {p1, p2}
  LastDay = 2
  LastType = 2
  Named = {1}
  Profiled = {1}
  Ids = {a, b, c, n}
  Models <- MCModels
  Stored <- MCStoredTwoDays
  MaxVersion = 0
  Rows <- MCRows
  Flagged <- MCFlagged
  Ranges <- MCTwoRanges
  Overlapping = FALSE
  ForceFlags = {FALSE}
  Fallible = {"common_envelope"}
  BatchWorkers = 2
  MaxCopies = 2
  NoManifest = NoManifest
SYMMETRY Symmetry
INVARIANTS
  EnvelopeHasNoDuplicates
  BuiltTypeIsAccounted
