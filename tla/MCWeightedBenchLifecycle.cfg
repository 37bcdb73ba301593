CONSTANTS
  Scale = 2
  MaxSamples = 2
  NaN = NaN
  Readers <- MCReaders
  Writers <- MCWriters
  TableCounts = {0, 2}
  ChanCap = 1
  MaxAttempts = 2
SPECIFICATION Spec
INVARIANT WaitGroupCountsLive
PROPERTY LifecycleRefined
