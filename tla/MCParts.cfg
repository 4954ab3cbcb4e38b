SPECIFICATION PartsSpec
CONSTANTS
  Messages <- MCMessages
  MaxSaid = 2
  Requests <- MCRequests
  MaxSent = 6
  Window = 2
  Interval = 2
  DefaultSize = 8
  DefaultMin = 2
  DefaultMax = 16
  Observations <- MCObservations
  Bounds <- MCBounds
  Operators <- MCOperators
  Pieces = {"1", "NULL", "a", "b", "true"}
  Clauses <- MCClauses
  MaxGenerated = 2
  Table <- MCTable
  Sorted <- MCSorted
  Fitting <- MCFitting
  Predicates <- MCPredicates
  RustPredicates <- MCRustPredicates
  Counts <- MCCounts
  SoftLimits <- MCSoftLimits
  MaxSettings = 4
  MaxLimitErrors = 2
  Files <- MCFiles
  SystemCerts <- MCSystemCerts
  Ports <- MCPorts
  SocketDirs <- MCSocketDirs
  Strings <- MCStrings
  Configs <- MCConfigs
  Builders <- MCBuilders
  Servers <- MCServers
INVARIANTS PartsType WaitsOnlyForMore ReadAsWritten SizeWithinBounds BoundAsMeant RightRows
  SoftLimitsInOrder RowsAccounted LoginType ServerProved EncryptedAsConfigured
PROPERTIES DeliversMessages AdjustsOnEvidence ReachesBound LoginEnds
CHECK_DEADLOCK FALSE
