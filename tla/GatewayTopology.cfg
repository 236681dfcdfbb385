SPECIFICATION Spec
CONSTANTS
    None = None
    GeneratedName <- RuleNames
    Clusters <- MCClusters
    RuleExpansions <- MCRuleExpansions
    MaxParents = 2
    MaxBackends = 2
INVARIANT ExpansionInventsNothing
INVARIANT ExpansionLosesNothing
INVARIANT BypassedOnlyAsKnown
INVARIANT PortOrService
INVARIANT PoliciesFollowTargets
INVARIANT RoutesFourDeep
CHECK_DEADLOCK FALSE
