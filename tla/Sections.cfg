SPECIFICATION Spec
CONSTANTS
  Documents <- MCDocuments
  Numbers = {1, 2, 3, 4, 5, 6, 7, 8, 9, 10, 11}
  Profile <- MCProfile
  Computed <- MCComputed
  Raws <- MCRaws
  Mistyped <- MCMistyped
  MaxParts = 5
  Null = Null
INVARIANTS
  TypeOK
  NothingLostSilently
  OrderIsKept
  NoEmptyUnit
  PartsAreOccurrences
  ChildHasParent
  DurationMatchesEndDate
  ChangeTextIsKept
CHECK_DEADLOCK FALSE
