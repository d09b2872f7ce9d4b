SPECIFICATION Spec
CONSTANTS
  RuleSets <- MCRuleSets
  Names <- MCNames
  Paths <- MCPaths
  MaxCalls = 2
  MaxRequests = 2
  None = None
INVARIANT NearestRuleServes
INVARIANT ArgsAreTheRules
INVARIANT ServingIsAlive
PROPERTY BoundRulesStay
CHECK_DEADLOCK FALSE
