SPECIFICATION PLiveSpec
CONSTANTS
  ChunkSize = 2
  BatchSize = 3
  MemItems = 1
  MaxWire = 3
INVARIANTS
  PTypeOK
  ViewsAgree
PROPERTIES
  LimitLatches
  DropStopsReader
