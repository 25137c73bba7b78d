SPECIFICATION Spec
CONSTANTS
  LastDay = 3
  YearOf <- MCYearOf
  Types = {t1, t2}
  OtherTypes = {o}
  Nuns = {u, v, w, x, y}
  Numbers = {A, B, C}
  Target <- MCTarget
  NumberYear <- MCNumberYear
  NoNumber = NoNumber
  NoYear = NoYear
  Changes <- MCChanges
  SectionIndex <- MCSectionIndex
  Parser <- MCParser
  Unparsable <- MCUnparsable
  UnknownParsers <- MCUnknownParsers
  NoSection = NoSection
  NoText = NoText
  NoParser = NoParser
  MaxSilver = 1
  Core <- MCCore
  Envelope <- MCEnvelope
  MaxVersion = 1
  ChunkDays = 1
  ForceFlags = {FALSE}
  Fallible = {}
  NoManifest = NoManifest
  A = A  B = B  C = C
  u = u  v = v  w = w  x = x  y = y
  t1 = t1  t2 = t2  o = o
  s1 = s1  s2 = s2  good = good  bad = bad
INVARIANT DeltasFollowSilver
