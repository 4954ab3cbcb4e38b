SPECIFICATION Spec
CONSTANTS
  ChunkSize = 2
  BatchSize = 3
  MemItems = 4
  MaxWire = 2
INVARIANT JsonErrorFailsQuery
