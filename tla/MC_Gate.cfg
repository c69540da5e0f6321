CONSTANTS
    SettingsSet <- MCSettings
    PolicySet <- MCPolicies
    Conditions <- MCConditions
    JoinClauses <- MCJoins
    Projections <- MCProjections
    Suppressions <- MCSuppressions
    Inserts <- MCInserts
    Databases <- MCDatabases
    OtherRows <- MCOtherRows
    Users <- MCUsers
    MaxDepth = 6
    MaxSize = 2
    MaxEvents = 1
SPECIFICATION Spec
INVARIANTS
  TenantIsolation
  ScopeIsProven
  RiskIsGoverned
CHECK_DEADLOCK FALSE
