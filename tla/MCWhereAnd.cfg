SPECIFICATION RequestsSpec
CONSTANTS
  Table <- MCTable
  Sorted <- MCSorted
  Fitting <- MCFitting
  Predicates <- MCPredicates
  RustPredicates <- MCRustPredicates
  Counts <- MCCounts
  SoftLimits <- MCSoftLimits
  MaxSettings = 2
  MaxLimitErrors = 2
INVARIANT RightRows
CHECK_DEADLOCK FALSE
