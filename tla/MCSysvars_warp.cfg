SPECIFICATION Spec
CONSTANTS
  MaxEntries = 3
  Slots = {0, 1, 2, 4, 5, 9}
  Timestamps = {0, 7}
  Epochs = {0, 3}
  Rents = {1, 2}
  Schedules <- MCSchedules
  Garbage = Garbage
INVARIANT TypeOK
INVARIANT NoHashGaps
INVARIANT ViewsAgree
PROPERTY WarpReachesNewestHash
PROPERTY WarpWorkBounded
