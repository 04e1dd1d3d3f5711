SPECIFICATION MCSpec
CONSTANTS
  t1 = t1
  r1 = r1
  Tables = {t1}
  Keys = {1, 2}
  Rows = {r1}
  TargetSets <- MCTargetSets
  None = None
  Untouched = Untouched
  Foreign = Foreign
  MaxActivations = 2
  MaxCalls = 3
  MaxSavepoints = 1
  MaxKey = 3
  Contents = {c1, c2}
  Deleted = Deleted
  Absent = Absent
  MergeKeys = {1, 2}
  MergeFields = {1, 2}
  MergeRows <- MCMergeRows
  Layouts <- MCLayouts
  Missing = Missing
  Conflict = Conflict
INVARIANTS ScanIsCandidate MergeIsExact ReferencesFollowRows RequiredReferencesHold
PROPERTIES ImplementsTransaction
CHECK_DEADLOCK FALSE
