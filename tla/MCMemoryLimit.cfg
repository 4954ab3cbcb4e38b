SPECIFICATION LiveSpec
CONSTANTS
  ChunkSize = 2
  BatchSize = 3
  MemItems = 0
  MaxWire = 2
PROPERTY LimitTerminates
