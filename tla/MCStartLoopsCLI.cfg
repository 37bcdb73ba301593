CONSTANTS
  Readers <- CLIReaders
  Writers <- CLIWriters
  Seed = 42
SPECIFICATION Spec
INVARIANT SeedsDistinct
INVARIANT SpawnCount
