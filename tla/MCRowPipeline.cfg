SPECIFICATION LiveSpec
CONSTANTS
  ChunkSize = 3
  BatchSize = 2
  MemItems = 2
  MaxWire = 4
INVARIANTS
  TypeOK
  BoundedBuffering
  Ordered
  ExactPrefix
  NoSilentTruncation
  OutcomeCounted
PROPERTIES
  Fused
  KeepsPromise
  StreamEnds
