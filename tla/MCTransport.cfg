SPECIFICATION Spec
CONSTANTS
  MaxStartups = 2
  MaxQueries = 1
  MaxExtras = 1
INVARIANT TransportAvailable
