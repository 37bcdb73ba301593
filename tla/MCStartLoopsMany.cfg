CONSTANTS
  Readers <- ManyReaders
  Writers <- ManyWriters
  Seed = 42
SPECIFICATION Spec
INVARIANT SeedsDistinct
