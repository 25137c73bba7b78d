SPECIFICATION Spec
CONSTANTS
  LastDay = 2
  NoticeTypes <- MCNoticeTypes
  Notices <- MCNotices
  EarlyNotices <- MCEarlyNotices
  PageSize = 2
  MaxRetries = 2
  Torn = Torn
  NoFile = NoFile
  NoRun = NoRun
  NoManifest = NoManifest
  NoDeps = NoDeps
  t1 = t1  t2 = t2
INVARIANTS
  TypeOK
  ManifestVouchesForDay
  FileHasDistinctNotices
PROPERTIES
  MatchedDayUntouched
  JobEnds
