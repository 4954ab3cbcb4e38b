SPECIFICATION LiveSpec
CONSTANTS
  MaxStartups = 2
  MaxQueries = 2
  MaxExtras = 1
INVARIANTS
  TypeOK
  InStep
  AnswersMatch
  TlsFirst
PROPERTY CallReturns
