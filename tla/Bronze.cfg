SPECIFICATION Spec
CONSTANTS
  LastDay = 3
  a = a
  b = b
  c = c
  t1 = t1
  t2 = t2
  Ids = {a, b, c}
  Types = {t1, t2}
  TypeOf <- MCTypeOf
  Published <- MCPublished
  MaxVersion = 1
  Valid <- MCValid
  ChunkDays = 2
  ForceFlags = {FALSE}
  ScanOutcomes = {TRUE, FALSE}
  NoManifest = NoManifest
INVARIANTS
  TypeOK
  NoticeStoredOrDue
  MatchedDayIsCurrent
  FirstDayKeepsNotice
PROPERTIES
  SkippedDayUntouched
