\* Three actions of a chain, under every gate and mode.
CONSTANTS
  d1 = d1
  NoAmount = NoAmount
  NaN = NaN
  NoDomain = NoDomain
  Submissions <- ChainSubmissions
  Settings <- ChainSettings
  Probes <- AllProbes
  Production = TRUE
  FinancialThreshold = 5000
  CumulativeThreshold = 10000
  MaxActions = 3
SPECIFICATION Spec
INVARIANTS
  PolicyTypeOK
  GateOrder
  MetricsAreTotals
  LimitIsFinal
  RiskIsMonotone
\* The bound on the number of actions stops the caller.
CHECK_DEADLOCK FALSE
