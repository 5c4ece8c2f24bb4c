SPECIFICATION Spec
CONSTANTS
  Missing = Missing
  MaxBytes = 3
  BackupCount = 2
  Sizes <- SmallAndOversized
  MaxRows = 6
  MaxTorn = 2
INVARIANT RetainedIsLatest
INVARIANT TornRowsAreContained
INVARIANT FilesFollowLimits
CHECK_DEADLOCK FALSE
